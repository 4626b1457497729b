# Formal models of FlueNT10G

FlueNT10G is a network tester: Verilog cores on an FPGA generate and receive
10 GbE traffic, a host writes traces into the board's DDR memory and reads
captured packets from it through ring buffers. Two programs convert pcap files
to traces and captures to pcap files, and an agent on the device under test
calls functions of its user's when a measurement application asks for it by a
JSON message.
This directory holds TLA+ modules translated from the sources, TLC
configurations that check them on small instances, and TLAPS proofs. Paths
below are relative to `src/`; line numbers are in `PROJECT.json` (`map`).

## 1. Inventory

Order of the cores in the block design
(`hardware/tcl/fluent10g_create_bd_connections.tcl` 524-690), per interface:

    replay -> packet counter (tx) -> FIFO -> rate control -> data rate (tx)
        -> timestamp insert -> MAC
    MAC -> latency -> inter-packet time -> data rate (rx) -> FIFO -> packet counter (rx)
        -> MAC address filter -> capture

The two FIFOs are the crossings between the clock of the memory side (`clk`) and
that of the MACs (`clk156`). One `nt_timestamp` gives the time, and the settings
of the stamps, to the insertion and latency cores of all interfaces.

Cores exchange packets over AXI4-Stream (`tvalid/tready/tdata/tlast/tkeep/tuser`).
Software reaches registers over AXI4-Lite and the two ring buffers in DDR
memory; `nt_ctrl` distributes a software reset and the enable of the rate
control.

| Part | State it keeps | Operations | What is hard, and what makes it correct |
|---|---|---|---|
| Replay memory reader `nt_gen_replay_mem_read.v` | FSM IDLE/WAIT/REQ/READ, read pointer, byte counter, AXI request | start, choose a burst, request, receive a beat, reset | shares a ring with software that sees old pointers; burst length at the end of ring and trace; FIFO threshold. Trace in order, no overflow, no unpublished read, ends |
| Replay assembly `nt_gen_replay_assemble.v` | FSM IDLE/START/META/TX, meta data, word counter, stream register | skip padding, take meta data, send, pad, stop | concludes the end from two lagging flags; FIFO may run empty. Output is the trace, inactive means done |
| Capture `nt_recv_capture_*.v` | RX FSMs and FIFOs, merge FSM, alignment wrapper, memory writer FSM, control FSM, error and drop flags | start, record, merge, write bursts, flush, stop | FIFO full, start between packets, shutdown sequence. Memory content is a sequence of whole records, drops are counted, ends |
| Rate control `nt_gen_rate_ctrl.v` | FSM, cycle counter, warning flag | take gap of a packet, wait, send | gaps of 0 and 1, late packets, stalls |
| Timestamp counter `nt_timestamp.v` | the time, the cycles of the period, period and stamp settings | tick, reconfigure | a shorter period than what has been counted. The time goes on |
| Timestamp insert, latency | word counter, ether type, latency under way | insert or extract at a configured position, subtract | time begins anew, stalls, short packets. The latency of each packet is its own and right |
| Inter-packet time | cycle counter, active flag | count, report with the last word | stalled words. The distance is the one at which packets arrived |
| MAC filter `nt_recv_filter_mac.v` | FSM, output register | judge the first word, pass or drop | the state moves without a transfer. Whole matching packets, no others, in order |
| Data rate, packet counter | counters, sampling intervals | sample, reconfigure | equality compares with limits that software lowers |
| Register slaves `*_cpuregs.v` (8 cores) | AXI4-Lite handshake, registers | read, write | overlapping transactions |
| Control `nt_ctrl_top.v` | reset and enable registers in two clock domains | write | reset in the middle of packets and bursts |
| pcap import `software/pcap/pcap_import.c` | packet count, previous packet, rounding error | read a packet and write the one before it, write the last one and the padding, give up | the carry of `timersub`, rounding errors that add up. The gaps add up to the recorded time, to less than two cycles |
| pcap export `software/pcap/pcap_export.c` | time, position in the file | read a packet, stop at padding, give up | padding of packets and of the file, cut packets, the carry of `timeradd`. Every captured packet once, with its time |
| JSON library `software/agent/c/cJSON.c` | items linked by `next`, `prev`, `child`; parse buffer with nesting depth; print buffer with offset | create, add, insert, replace, detach, delete, reference, duplicate; parse; print in three ways | three pointers per item, allocations that fail anywhere, a buffer that grows or may not. Ordered trees, nothing lost or freed twice, no access outside text or buffer, a print reads back as the same value |
| Agent `software/agent/c/fluent10g_agent.c` | event handlers, the receive buffer, the message and its arguments, whether the socket is owed a reply | register, receive, find the handler, collect arguments, call back, answer, end | early returns of every kind, one reply per request, a receive buffer that is never cleared, the end of the process just behind its last reply. Every request gets the answer it deserves, or the agent has ended |
| MAC wrappers, identification core, build scripts, docs, examples | none of their own | | not modelled: wiring, constants, scripts |

`PROJECT.json` lists every hazard at its line with the property that watches it.

## 2. Plan

1. (done) Replay ring buffer path: `ReplayMemRead`, `ReplayRing`, abstract
   `TraceStream`; invariants, refinement, liveness, proofs.
2. (done) Whole replay core: `ReplayAssemble`, `PcapTrace`, `Replay`, with proofs
   that it sends the trace and nothing else.
3. (done) Capture: ring buffer writer with control sequence and software reader
   (`CaptureMemWrite`, `CaptureCtrl`, `CaptureRing`), refining the abstract
   `CaptureStream`, with proofs; receiver with merge and alignment (`CaptureRx`,
   `CaptureReceive`), with proofs of its safety.
4. (done) Rate control: `RateCtrl`, `Pacing`, with proofs of its safety.
5. (done) Measuring path: `Latency`, `InterPacketTime`,
   `FilterMac` on `StampedStream`, composed in `Measure`, with proofs of all its
   properties.
6. (done) pcap: `PcapImport`, `PcapExport`, composed over the cores between them
   in `PcapPath`, with proofs that times are kept and that all packets arrive.
7. (done) JSON library: items and their editing (`JsonItems`, `JsonEdit`),
   refining ordered trees (`JsonForest`); parser and printer (`JsonString`,
   `JsonParse`, `JsonPrint`), composed in `JsonText` against the grammar; the
   proof that the parser stays inside its text.
8. (done) Agent and its clients: `Agent`, with proofs of its safety.
9. Open: a proof about the editing of JSON items, whose definitions are recursive.

## 3. Modules

| Module | Models |
|---|---|
| `TraceStream` | what the reading path promises: published beats come out once, in order, and the core stops after the last one |
| `ReplayMemRead` | one clock edge of `nt_gen_replay_mem_read.v`; its input wires are parameters |
| `ReplayRing` | the reader composed with the memory behind its AXI4 port, the FIFO, the registers, the writing software, and the software reset |
| `ReplayProofs` | the TLAPS proofs about `ReplayRing`, their transfer to the whole core of `Replay`, and those about what that core sends |
| `ReplayAssemble` | one clock edge of `nt_gen_replay_assemble.v` |
| `PcapTrace` | the trace file layout of `pcap_import.c`, and the stream a trace stands for, as `check_output` of the test computes it |
| `Replay` | `nt_gen_replay_top.v`: both machines around the FIFO, driven by software |
| `CaptureStream` | what the capture ring promises: beats are published and taken in order, once, and a capture is over only when all are published |
| `CaptureMemWrite` | one clock edge of `nt_recv_capture_mem_write.v` |
| `CaptureCtrl` | one clock edge of `nt_recv_capture_ctrl.v` |
| `CaptureRing` | writer and control FSM with the memory behind the AXI4 write port, the FIFO before the writer, and the software that starts, stops and reads a capture |
| `CaptureRingProofs` | the TLAPS proofs about `CaptureRing` |
| `CaptureRx` | one clock edge of `nt_recv_capture_rx.v`, `nt_recv_capture_fifo_merge.v` and `nt_recv_capture_mem_write_fifo_wrapper.v` |
| `CaptureReceive` | receiver, its two FIFOs, merge, alignment and control FSM with the network and software |
| `CaptureReceiveProofs` | the TLAPS proofs about `CaptureReceive` |
| `RateCtrl` | one clock edge of `nt_gen_rate_ctrl.v` |
| `Pacing` | `nt_gen_rate_ctrl_top.v`: the timer behind its FIFO, with the packets of a trace before it, the slave behind it and the software that switches and resets it |
| `PacingProofs` | the TLAPS proofs about `Pacing` |
| `StampedStream` | the words and ranges that the cores of the measuring path share, and one clock edge of `nt_timestamp.v`, which gives them the time |
| `Latency`, `InterPacketTime`, `FilterMac` | one clock edge each of `nt_gen_timestamp_insert.v` and `nt_recv_latency.v` (both in `Latency`), `nt_recv_interpackettime.v`, `nt_recv_filter_mac.v` |
| `Measure` | those five with the link between two interfaces, the receive FIFO, the receiver, and the software that sends packets, changes settings and resets |
| `MeasureProofs` | the TLAPS proofs about `Measure` |
| `PcapImport`, `PcapExport` | the two programs `pcap_import.c` and `pcap_export.c` |
| `PcapPath` | a pcap imported, replayed, captured and exported |
| `PcapProofs` | the TLAPS proofs about `PcapPath`, with both programs |
| `JsonForest` | what editing promises: ordered trees of which the application holds the roots |
| `JsonItems` | the heap of cJSON items and the operations on it that the library is built of |
| `JsonEdit` | an application that calls the editing functions in any order, with allocations that fail |
| `JsonString` | string literals: escapes, UTF-16 to UTF-8, the lengths that are allocated for them |
| `JsonParse`, `JsonPrint` | the parser and the printer, each as a machine whose stack of calls is a variable |
| `JsonText` | parse a text, print what came out, free it, parse the print; the grammar of JSON as reference |
| `JsonParseProofs` | the TLAPS proofs about `JsonParse` |
| `Agent` | the agent's request loop with its event handlers, its clients and ZeroMQ |
| `AgentProofs` | the TLAPS proofs about `Agent` |
| `MCReplay`, `MCCaptureReceive`, `MCPacing`, `MCMeasure`, `MCPcap`, `MCJsonEdit`, `MCJsonText`, `MCAgent` | the constants of the runs that a `.cfg` cannot write down |

**Correspondence.** A clocked module is a conjunction of next-state equations
with one operator per FSM state (`MrWait` is `WAIT:`), so that all registers of
all modules change in one `Clock` step, as they do at an edge. Asynchronous
actors (memory, software) interleave with edges. Addresses, sizes and counters
are in units of 64 byte beats, offsets from the start of the ring: every
quantity in the code is a multiple of `'h40`. A beat of the trace is its
number. `MrOutputs` shows the two one-cycle lags the code has: data reaches the
FIFO, and the active flag falls, one edge later.

**Software** is not part of the repository (the driver library is a missing
submodule). Its steps are those of `test/nt_gen_replay_top_test.py`:
`ring_buff_write` is split into reading the pointer and deciding
(`SwSample`), copying (`SwCopy`) and publishing (`SwPublish`), because the core
goes on between them. A software reset may come at any time and is released
when the port, the FIFO and the state machines are quiet. Releasing it earlier,
with a burst still in flight, is not modelled: the code pushes the late beats
into the FIFO.

**External parts.** The AXI4 slave accepts a burst when it has none, reads the
memory for each beat at any later moment and answers in order. The FIFO loses a
push when it is full; its programmable full flag lags by one edge. How many edges
it needs, beyond the edge of the push, before it shows a word that was pushed
while it was empty, the sources do not say. In `Replay` it is any number, another
one for each beat: `shown` are the beats that have reached the output. In
`CaptureReceive` it is `FwftLatency`, 0, 1 or 2.

**The two halves of the capture core** meet at the FIFO before the memory
writer and at the control FSM, which is part of both compositions. In
`CaptureRing` the receiving side is a source of numbered beats: it may push one
at any edge, calls itself quiet only when at most the padding of the last beat
is missing, and aligned only when nothing is. That it keeps this promise is what
`AlignedMeansComplete` checks in `CaptureReceive`, where the memory writer in
turn reads beats at any pace and shows any flags. Reading software is
`ring_buff_read` of `test/nt_recv_capture_top_test.py`, split like the writer
of the replay core; `packets_write`, which stops the capture, runs beside it.
A word of `CaptureReceive` is a record of its kind, its packet and its position.

**History of what no flag tells.** Some situations, listed in section 4, the code
neither avoids nor reports, and what follows them is wrong. No constant keeps
the models out of them; history variables say that one was met, and
the properties make no claim afterwards. In `Replay`, `starved`: the last payload
word of a packet was due and not there; `hidden`: in this trace the FIFO held beats
and showed none while the memory reader was inactive. In `CaptureReceive`,
`unnoticed` (`Note`), until the next reset: a push met a full FIFO and no error
state was entered with it (`LostUnseen`), a packet began in the cycle in which
recording is switched on (`BeginsUnseen`), a capture was stopped before it
recorded, or started with the capture length 0.

**Rate control.** The gap a packet asks for is `tuser` of its first word.
`since` and `asked` are history: the edges since the last packet began and the
gap it asked for. The counter of 64 bits saturates at `MaxCycles` in the model
(`UpTo`), above every gap that occurs, and `CounterRange` stands for 2^64: only
the underflow of `n_cycles_interpacket - 1` ever reaches it. Software leaves
`SettleCycles` edges between two of its accesses; a register access takes
longer. Three are enough, and needed, because the FSM takes two edges from
`TX_START` or `WAIT` to a quiet `do_transfer`.

**The measuring path** is driven one word per edge: a word may be missing at
either end (`sends`, `arrives`), the link holds `LinkDepth` words and the
receive FIFO `FifoDepth`, the filter runs at the other clock. What a core looks
at in a packet is a field of the word that holds it. `truth` is history carried
by a word: the time when it passed the stamping core, then the latency and the
distance it should show. They are computed from the packet (`Holds`, `Distance`)
and not from the cores' word counters. `due` is the word the receiver must see
next. Back pressure on the receiving side cannot stop a real MAC; the model has
the word wait, as the tests of the cores do by toggling `tready`. Packet counter
and data rate core do not change the words and are left out. The word counters
of 8 bits begin anew at `WordRange`; `MeasureAssumption` takes packets to have no
more words than that (2048 bytes).

**pcap.** A packet is its time and its two lengths. Cycles are 32/5 ns, so gaps
and the rounding error are whole numbers of 1/32 cycle; the floating point of
import is exact on them (below 0.92 s), that of export is cut off to the quotient
or one less. `timersub` and `timeradd` carry at `UsecPerSec`, a million, in a
second of `SecNs`. What the conversion of a negative gap gives is any number up
to `MaxCycles`. `PcapPath` takes the cores between the two programs at what
`Replay`, `Pacing` and `CaptureReceive` check of them, one packet a step
(`Capture`, `Record`, `Padding`). The meta data of a record have 11 bits for the
length on the wire and 28 for the gap (`LenRange`, `GapRange`). `begins` and
`leaves` are history: where the records lie, and when packets should leave.

**JSON items.** `heap` holds the items with their pointers, the number of strings
allocated and the memory left; every call of `JsonEdit` is one step, because the
library has no threads, and takes the number of its allocations that succeed.
The model of the application (`Editable`, `Deletable`, `Hangable`) does what the
header asks: it hangs an item in one place only and neither edits nor frees what
a reference shows. `lost` is history: `cJSON_AddItemToArray`,
`cJSON_AddItemToObject` and `cJSON_ReplaceItem*` return nothing, so an item that
they could not take stays allocated and nobody holds it.
`ForestSpec` maps the heap to trees (`TreeOf`).

**JSON text.** A text is a sequence of tokens, a string literal a sequence of units
(a raw byte, a short escape, a code of four digits); widths in bytes count where
the code counts them. The recursion of `parse_value`, `parse_array` and
`parse_object` is the variable `stack`, that of the printer is `path`. The print
buffer is its length and offset, the tokens before the offset (`out`) and behind
it (`tail`, what `update_offset` finds by `strlen`). `Denoted` is the grammar, from
JSON and not from the code, with what this parser is lenient about: control
characters as white space, text behind the value unless
`require_null_terminated` is set, numbers that are none printed as `null`
(`Shown`).

**Agent.** `phase` is the place in `fluent10g_start` and `handle_msg`, `owed` the
client that the REP socket waits to answer. `args` are the argument structs,
`items` says that the parsed message is allocated. A callback reads the arguments
that `Reads` gives for its event, by `fluent10g_get_arg_*`. A reply that was
handed to ZeroMQ is in `outbox` until it is delivered, or lost when the process
has ended (`Lose`); its printed text stays allocated (`texts`).

A message is a text, a sequence of pieces: one that opens the object and names the
event, one for each argument, one that closes the object. `zmq_recv` copies as many
as `buf` holds (`RxSize` stands for 64 bytes) over what it held before, and
`cJSON_Parse` reads on, behind the text and behind the buffer (`Memory`), until an
object is complete (`Parse`). A text that stops within an object (`Unfinished`:
truncated, too long, or empty) is therefore completed by old pieces if they fit. It
may also stop in the middle of a piece; then nothing fits, or, which the model
leaves out, the two halves make up a piece that nobody sent. `AnswersAreTrue`
claims the right answer for every other text, whatever lies behind it. Where C
defines nothing, `phase` is `"undefined"` and the model ends: an argument more than
`args` has places (`Overrun`, `MaxArgs` stands for 16), and an argument without a
name, an element of an array, that a search by name meets (`Stumble`).

**Faulty variants** (`FullBurstOneShort`, `DoTransferFillsRing`, ...) stand
beside the operators they vary. Each is a bug the code could have; replacing
the operator by the variant makes TLC refute the property named in
`PROJECT.json` (`mutants`).

## 4. Runs

| Run | Shows | Bounds |
|---|---|---|
| `replay_ring` | `StoredInTraceOrder`, `FifoNeverOverflows`, `BurstIsPublished`, `PointersTellFill`, `NoUnreadOverwritten`, `TraceCompletes`; `ReplayRing` implements `TraceStream` | ring 7, burst 3, transfer 2, FIFO 5 with threshold 1, traces of 1, 2, 3, 4, 5, 7, 11 beats: ring not a multiple of burst or transfer, traces shorter than a burst, exactly the ring, and more than one lap |
| `replay` | `OutputIsTrace`, `InactiveMeansDone`, `ReplayCompletes` | ring 3, burst 2, beats of two words of two bytes, traces of 1, 2 and 4 beats with partial words, cut packets, an empty capture and padding; the FIFO shows each beat after any number of edges |
| `capture_ring` | `TakenInOrder`, `BurstIsBacked`, `PointersTellFill`, `CaptureCompletes`; `CaptureRing` implements `CaptureStream` | ring 6, burst 2, transfer 3, FIFO 4; captures of 0, 1, 2, 4, 5, 9 beats: nothing to flush, a flush only, full bursts only, both, more than one lap; stop at any time |
| `capture_receive` | `RecordsAreWhole`, `AlignedMeansComplete`, `StopCompletes` | words of 2 bytes, beats of 2 words, FIFOs of 3 words and of 2 words before the writer, latency 2, packets of 3 and 5 bytes, capture lengths 0, 2, 3, 6: nothing captured, cut inside and at the end of a word, or not at all; packets begin and captures start and stop at any time, the data FIFO becomes full, captures follow each other (the meta data FIFO has room for both packets: the proofs include a full one) |
| `pacing` | `NeverEarly`, `LateIsReported`, `WarnsWithCause`, `PaceCompletes` | packets of 2 and 3 words with gaps of 1 cycle, shorter than the packet, as long, one and two cycles longer; any stall, any missing word, resets, switching off between traces |
| `pacing_off` | **violated** `InactiveHolds`: finding 1 | the same, switched off at any time (`LetsFinish = FALSE`) |
| `measure` | `MeasuredRight`, `MatchesInOrder`, `NothingLost`, `TimeGoesOn` | time of 4 values, short stamps of 2, so that it begins anew while a packet is on its way; an IPv4, an IPv6 and another packet of 2 to 4 words, one of which the filter drops, whose last word is or follows the one with the stamp or is too short for it; header stamps and 3 byte stamps at a fixed place; periods 1 and 2; word counters of 4 values, as many as the longest packet has words; one word on the link and in the FIFO, so that every core stalls |
| `pcap` | `TimeIsKept`, `PacketsSurvive`, `TimesAgree` | pcaps of 0 to 4 packets with gaps of 0, 1, 7, 32, 50 and 201 ns, every rounding of a 1/32 cycle in a row of three, packets of 0 to 30 bytes, cut or not, of whole and broken words; capture lengths 1, 5, 8, 64, the same or another in export; lengths below 24 and gaps below 160 cycles fit into the meta data; a second of 4000 ns that carries at 1000 |
| `pcap_time` | **violated** `TimeIsAlwaysKept`: finding 2 | the same |
| `json_edit` | `ListInv`; `JsonEdit` implements `JsonForest` | three applications, two keys that differ in case: arrays and strings with 4 items (insertion and removal at both ends and in the middle), objects and strings with 2, nested arrays and objects with 3; up to 5 allocations of a call succeed, one item may be lost |
| `json_text` | `ParsedRight`, `InsideText`, `NothingLeaks`, `WritesFit`, `ReadsBack`, `EnoughIsEnough` | all texts of up to 4 tokens over 9 tokens; 6 longer texts with nested lists and all texts one token away from them; 21 string literals with short escapes, codes of one to four bytes, surrogate pairs and broken ones, alone and as key; a nesting limit of 2; memory for 6 items, any allocation may fail; buffers of 0 to 26 bytes, formatted or not |
| `agent` | `AnswersAreTrue`, `ReadyForNext`, `RequestsAnswered` | a client with two requests and one with one, of fifteen texts: empty, no JSON, no event, an unknown event, monitor data, no argument, arguments in both orders, twice, of a wrong type, missing, of a type that is none, without a name, more than there are places; one that stops early and one that is longer than the buffer of 6 pieces; arrays of 3 arguments; memory that holds ends of objects or nothing that fits; any subset of handlers, also twice |

The counters of the code (64 bit byte counter, 32 bit pointers) do not overflow
within their documented ranges, so they are unbounded numbers here; the trace
sizes bound them. The counters of `Measure`, which do wrap, keep their ranges.
Deadlock is checked in
every run but three: the application of `json_edit` may run out of memory and
items, `json_text` ends with the second parse, and in `agent` clients have sent
their requests, or the process has ended or left what C defines.

**Fairness.** The clock runs (`WF` of the clock step). The memory accepts and
answers every burst, fetches every beat: an AXI4 slave must. The packet side
drains the FIFO, and in `Replay` the slave is ready again and again (`SF`: it
may be not ready for any finite time). Software goes on with a transfer it has
begun and finishes a trace. Software is never obliged to start a trace, to stop
a capture or to reset. In `CaptureRing` the source completes the beats of the
capture and then shows its two flags (`StopCompletes` says that it
does); in `CaptureReceive` a packet that has begun arrives completely, and the
memory writer reads on and at last shows its FIFO empty and itself inactive
(`CaptureCompletes`). In `Pacing` the clock runs, the FIFO shows the next word of
a trace sooner or later, the slave is ready again and again (`SF`), and a reset
ends. In `agent` the process goes on while it can (callbacks return), and ZeroMQ
delivers what it has taken unless the process ends first: that is what its two
transports do for a connected pair. Clients are never obliged to ask.
`measure` and the runs of pcap and JSON check safety only; the programs are
sequential loops over finite input.

**Findings.**

1. (`pacing_off`) The test of `ctrl_active_i` in the states `TX_START`, `TX` and
   `WAIT` of the rate control ends in `end if` where `end else if` is meant: the
   transition to `IDLE` is overridden. A module that is switched off goes on as
   long as a packet is waiting when it looks. `LetsFinish = TRUE`, switching off
   between traces only, excludes it in `pacing`.
2. (`pcap_time`) Import takes the difference of two times with `timersub`, which
   borrows a million from the seconds, while `tv_usec` holds nanoseconds, as the
   comment at `pcap_import.c` 148 knows. A gap that begins late in one second and
   ends early in the next comes out 999 ms short. `TimeIsKept` therefore speaks of
   pcaps in one second.

**Met while modelling, without a run of their own.** They can be seen by taking
the history variable named out of the property, or adding the case to the
constants, and running the configuration again.

* If the FIFO runs empty exactly when the last word of a packet is due
  (`nt_gen_replay_assemble.v` 186), the assembler leaves the packet without
  sending it; the stream goes out of step. From then on (`starved`) the properties
  of `replay` claim nothing; without this TLC refutes `OutputIsTrace`.
* If the FIFO needs so long to show its last beats that its output is empty when
  the memory reader's flag falls, the assembler becomes idle with these beats
  inside (`nt_gen_replay_assemble.v` 160-162). `InactiveMeansDone` makes no claim
  for a trace in which this has happened (`hidden`); without this TLC refutes it. An
  output one edge behind is enough, if the slave keeps up.
* A packet that begins in the cycle in which recording is switched on
  (`nt_recv_capture_rx.v` 231) loses its first word (`unnoticed`, by
  `BeginsUnseen`); without this `RecordsAreWhole` fails.
* A stop that is written while the receiver is about to start recording is taken
  for completed (`nt_recv_capture_ctrl.v` 121); the next packet lands behind the
  alignment (`unnoticed`, by `SwStop`); without this `AlignedMeansComplete` fails.
* With the capture length 0, which the test of the core uses too, nothing but meta
  data is written, and the data FIFO no longer covers the time the meta data
  FIFO needs to show its last word: with latency 1 it can be left behind
  (`unnoticed`, by `SwStart`); without this `AlignedMeansComplete` fails.
* Two words can meet one free place of a capture FIFO, whose full flag is looked
  at a cycle before the write (`nt_recv_capture_rx.v` 249): a word is lost without
  an error flag (`unnoticed`, by `LostUnseen`); without this `RecordsAreWhole`
  fails.
* A gap of 0, which import gives to a packet with the time of its successor, makes
  the threshold `n - 1` of the rate control underflow (`nt_gen_rate_ctrl.v` 190):
  the stream stops for 2^64 cycles, and `PaceCompletes` fails for a trace with such
  a gap. The traces of `pacing` have gaps of 1 cycle and more; the proofs include 0.
* With a ring that cannot hold one full burst of the reader in whole transfers
  of the writer (ring of 4 beats, burst of 3, transfer of 2), each waits for the
  other and TLC refutes `TraceCompletes`: the reader asks for nothing shorter
  than a full burst while ring and trace still hold one. Every stated
  requirement (alignment, 4 GByte, transfer smaller than the ring) is met.
* The capture control FSM ends its wait for the flush before the flush shows:
  the status register can read inactive while the tail is being written. No
  data is lost: `StreamSpec` looks at the writer itself.
* `nt_recv_latency.v` looks at `tlast` without `tvalid`. If the line is high
  while no word is there, the latency of the packet under way is lost
  (`MeasuredRight` violated). `MeasureAssumption` takes it to be low; what the
  MAC shows is not part of the sources.
* The MAC filter never sees a packet of one word end (`MatchesInOrder`
  violated). Ethernet frames are longer; `MeasureAssumption` says so.
* A stamp at a fixed place must not cross a word boundary; both cores look at a
  bit of `tkeep` that does not exist then. `MeasureAssumption` excludes it.
* With a stamp at a fixed place in the first word, where it overwrites the
  destination address, the latency core takes one from the idle lines before the
  packet (`nt_recv_latency.v` 265-297). If software then moves the stamps further
  back without a reset, a packet that ends before them reports it
  (`MeasuredRight` violated). `MeasureAssumption` leaves the first word out.
* An empty pcap becomes a trace of one packet with whatever the buffer of the
  previous packet held (`Garbage`); `PacketsSurvive` leaves it out.
* Import looks at the captured length of a packet only. One whose length on the wire
  is 2048 or more, or 0, passes, but a record cannot hold that length
  (`nt_recv_capture_rx.v` 331), or there is nothing to send; `Comparable` leaves
  such pcaps out.
* `cJSON_ReplaceItemInObject` does not look at whether its copy of the key
  succeeded: if not, it hangs a child without a name in the object. A case sensitive
  search would then follow a null pointer; the application of the model does not
  search such an object in that way (`Searches`).
* A message whose event name is missing ends the agent by an assertion, without a
  reply, although `fluent10g_agent.c` 312-318 says that messages are answered.
  `send_msg` never frees the text that it printed.
* The receive buffer of the agent is reused, and the text in it is not terminated.
  Behind an acknowledged message, a truncated one that is shorter is completed by the
  old bytes and acknowledged too; an empty one repeats it; one longer than 64 bytes is
  read on into the stack. Without `Unfinished` in `Right`, TLC refutes
  `AnswersAreTrue`.
* 17 numbers fit into a message of 64 bytes and overrun `args`; the elements of an
  array have no name, and `strcmp` is called with a null pointer when the callback
  looks for an argument among them. Both end the model.

**FIFO latency.** The replay core depends on it (see above); its run and its
proofs take any. The capture core does not for latencies up to two edges
(`capture_receive` takes 2, and passes with 0 and 1), as long as at least one byte
of each packet is captured: the data FIFO, whose words cannot be consumed before
the meta data, then covers the gap.

## 5. Proofs

`ReplayProofs` proves, from `MemReadAssumption` and `RingAssumption` alone
(positive sizes, a transfer shorter than the ring, a threshold that leaves room
for a burst and one more beat), for every size:

* `RingInvariant`: `Spec => []IInv`;
* from it `RingTypes`, `TraceOrder`, `NoOverflow`, `BurstsArePublished`,
  `PointersSound`;
* `UnreadKept`: `Spec => NoUnreadOverwritten`;
* `RingImplementsStream`: the ring buffer path implements `TraceStream`;
* `CoreImplementsRing`: every behaviour of the whole core (`RpSpec` of `Replay`)
  is one of the ring buffer path, since the packet assembly is one of the
  readers the path allows for; hence `CoreIsSafe` (trace order, no overflow,
  bursts published, pointers sound) and `CoreImplementsStream` for `RpSpec`.

`IInv` is inductive where the properties are not. `PhaseInv` ties the software's
protocol state to that of the core (software writes only while the core is out
of IDLE, and an idle core has finished the trace). `RingInv` says what the ring
contains: a slot at distance `d` from the read pointer holds beat
`read_cntr + d`, for all distances up to what is written and not read; software
that has decided on a transfer keeps room for it whatever the core reads
meanwhile. `SlotInv` is the converse, and what `UnreadKept` needs beside it: a
beat that is still to be read lies in its own slot and in no other, from the
cleared ring of the start on. `BurstInv` bounds what the memory still owes. `FifoInv` reserves
FIFO space for it. One lemma treats each software step; the clock edge is split
by FSM state (`ClockIdle`, `ClockWait`, `ClockReq`, `ClockRead`) and reset
(`ClockReset`), on top of `RequestFits` (the arithmetic of the WAIT state) and
`ClockFifo`. The refinement maps `published` to what software has handed to the
core and `delivered` to what the FIFO has received; `StreamStutter` treats the
steps that change neither, `StreamClock` the clock edge, and the invariant gives
the guards of the abstract steps.

Of the whole core `ReplayProofs` also proves, from `AssembleAssumption` and
`ReplayAssumption`, what it sends: `SentIsTrace` (`OutputIsTrace`) and `InactiveIsDone`
(`InactiveMeansDone`), for every trace, every size of words and beats and any latency
of the FIFO. Their one hypothesis is `GoodTraces`: no packet is captured beyond its
length on the wire, and each has a byte.
The assembler knows the trace only as the next word of a FIFO, so `CoreInv` must say
where it is: `SentInv` that the first `k` packets are sent and their words read, and
perhaps padding behind the last (`Between`), or that packet `k` is being sent and one
word of meta data and as many payload words are read as it has sent, at most those
captured (`Sending`). `SideInv` is the output side of the FIFO, `RestInv` that nothing
is left of a trace before the next. With `RingInvariant` the word that the FIFO shows is
the next word of the trace file (`HeadIs`), hence meta data when the assembler takes it
for that (`BetweenStep`), and payload otherwise (`PayloadDue`, `SendingStep`).
`TraceWordsAre`, `TraceOutputIs` and `PacketsOf` are the facts about the two flattened
sequences, `UptoFlat` and `UptoBegins` those about flattening. For the end of a trace,
`EndInv` says when the assembler can be idle: the reader rises before the assembler
first looks at it, and when it falls and nothing is `hidden`, the FIFO shows a beat
as long as one is left; then all words were read, and only after the last packet is
that so (`AllRead`).

`PacingProofs` proves, from `RateCtrlAssumption` and `PacingAssumption`
(packets of two words or more, gaps below the cap, three settling edges) and
`LetsFinish`, for every set of traces: `PacingInvariant` (`Spec => []PaceInv`),
and from it `GapsAreKept`, `LatenessIsReported` and `WarningsHaveCauses`. That
nothing leaves early says something about one word only; `PaceInv` therefore
ties the state of the timer to the word that is next: switched on, the module
waits for a packet that is due, sends one, or waits for the end of a gap that is
still ahead, and in each case the counter is the time since the last packet
began (`OnInv`). Switched off it must become quiet before the next trace
(`OffInv`, an edge count), and under reset likewise (`ResetInv`). There is one
lemma for each software step and, for the clock edge, one for each phase
(`ClockReset`, `ClockOff`, `ClockWhileIdle`, `ClockWhileDue`,
`ClockWhileSending`, `ClockWhileWaiting`); gaps of 0 are included, with
`DueValue` saying where the threshold then lies.

`CaptureRingProofs` proves, from `MemWriteAssumption` and `CaptureAssumption`, for
every size of ring, burst, FIFO, transfers and captures: `RingInvariant`, from it
`RingTypes`, `CapturedOrder`, `BurstsAreBacked` and `PointersSound`, and
`RingImplementsStream`, that the writing half of the capture core implements
`CaptureStream`. Beats are numbers: the beats published, those of the burst under
way that are transferred, and those in the FIFO are the beats fed so far, in this
order (`FifoInv`, `FifoOrder`, `BurstOrder`). Equal pointers mean an empty ring,
which needs a burst to leave a place free and to end at the end of the ring
(`PointerInv`, `AlignInv`: bursts are aligned until the flush). A burst that is
requested waits in the FIFO as a whole (`BackedInv`), though the FIFO's flag that
says so is an edge old. The hard part is the end of a capture (`StartInv`,
`ShutdownInv`, `DrainInv`): each stage of the control FSM says what the writer can
still be doing, that nothing more is fed, and what is left in the FIFO, so that a
core that says it is inactive has published everything. The refinement maps
`SwRead` to the taking of beats, the clock edge with the memory's response to their
publication, and the edge at which both machines come to rest to the end of the
capture.

`CaptureReceiveProofs` proves, from `RxAssumption`, `MergeAssumption` and
`ReceiveAssumption`, for every size of words, beats and FIFOs, every latency of the FIFOs
up to two, all packets and capture lengths: `ReceiveInvariant`, and from it
`AlignedIsComplete` (`AlignedMeansComplete`) and `WrittenRecordsAreWhole`
(`RecordsAreWhole`). There is no hypothesis beside packets of more than one word, which
Ethernet frames are (`ReceiveAssumption`); what is said of the words is said, as in the
run, until one of the four things of section 4 has happened (`~unnoticed`). `Control` is the part without the words: each state of
the control FSM says what the receiver, the wrapper and software can be doing, one edge
behind each other. `Words` follows the words. At every moment there are a packet `mp`
whose record is being written or comes next, and a packet `rp` that is received or comes
next; between them the data words in the FIFO and its input register follow each other
(`DataChain`), and so do the meta data words in theirs, two registers later
(`MetaChain`). The record being written goes on with the first of them
(`WrittenInv`, `StoredInv`). That the merge module is never misled by a FIFO that does
not show yet what it holds is `SeenInv`: the words of a packet whose meta data is shown
are shown, and the first word of a packet is shown before the receiver calls itself
inactive. When words were lost with an error flag, either this still holds up to the
last word that is there, or nothing moves until the next reset (`Dead`). `StillInv` says
in which phases nothing is on its way, `CountInv` where the counted packets are. A last
part shows that words of which each follows the one before it are whole records, and
that records are determined by their first word (`RecordsIs`, `RecordsBegin`,
`SameWords`).

Inductions over the natural numbers, for flattened sequences and for chains of words,
are first order here: a set of numbers that holds 0 and all successors of its members is
`Nat`, since a number outside would have a least one (`Below`, `Induction`, from
`WFMin` of the library).

`MeasureProofs` proves all four properties of `Measure` from `StampAssumption`,
`TickCounterAssumption`, `InterPacketAssumption` and `MeasureAssumption`, for all
traces, settings, periods, idle lines, ranges of the counters and depths of the
queues. `TheTimeGoesOn` rests on `TimeInv`: the time stands still no longer than
what has been counted of the period, plus the edge that begins a shorter period
anew. `LatencyAndGapRight`, `WordsInOrder` and `NothingMissing` rest on `PathInv`
(`PathInvariant`), because a core knows the words only by counting: every register
and queue of the path has a place in the trace (`At`, `First`), each word on it is
followed by the one behind it (`OrderInv`), and the counters and states of the
cores are those of the place at their inputs. The filter's state then belongs to
the packet at its input also when the first word stalls (`FilterInv`), and what the
receiver waits for is the first word to come that is to pass (`Passing`,
`PassingHere`, `PassingBeyond`). For the latency, `Early` and `Selects` say what the
core may have read from idle lines before the word with the stamp is there, and
`StampPlace` that the place found by counting is the one that packet and setting
select. `EdgeInsert`, `EdgeLink`, `EdgeLatency`, `EdgeGap` and `EdgeFifo` take one
core each through a clock edge, with the place at its output as a parameter;
`EdgeKeepsPath` chains them. `DifferenceIsElapsed` and `DifferenceModulo` are the
arithmetic of the latency.

`PcapProofs` proves, from `ImportAssumption`, `PcapsAssumption` and `PathAssumption`,
for every set of pcaps of every length, every capture length of a byte or more (for
shorter ones the capture core does not promise whole records) and all word, beat and
field sizes, the three properties of the pcap run:

* `ImportKeepsTime` (`TimeIsKept`), `PacketsAreExported` (`PacketsSurvive`) and
  `TimesAreExported` (`TimesAgree`), all from `PathInvariant`: `Spec => []PathInv`.

Of import, `RoundInv` says that the rounding error is exactly what the gaps written
are ahead of the pcap and lies below two cycles: `ErrorStaysSmall` is the step of the
rounding, `DifferenceInOneSecond` the exact part of `timersub`, `GapAdds` the sum.
`TraceInv` carries this from the last packet to all of them: the trace is one packet
behind the file (`OneBehind`), and its gaps are the differences of cycles of which
each is punctual (`AllPunctual`). `Layout` says where records lie in the memory and
how long each is. The export program finds the next record only by the lengths that
it has read, so its place is part of the invariant (`Walk`): it is at the beginning
of a record (`AtRecord`: what it reads there is meta data, and the record fits) or
at the padding (`AtEnd`). For the times, `AllTimely` bounds what has been cut off so
far (`CutOff`, `BoundsAdd`), and with `AllPunctual` this shows that `timeradd` never
carries and that no gap exceeds its field (`NoCarry`, `GapFits`).

`JsonParseProofs` proves `ParserStaysInside` for every set of texts that end with
a zero and every nesting limit. A parse that has begun looks at a token of the
text, and has passed the last one only in states that look at nothing
(`PlaceInv`); this needs that nothing before the end is taken for the zero, that
the depth is the number of frames (`DepthInv`), that frames are lists or objects
(`FramesInv`) and which states belong to an open list (`BusyInv`). `SkipStays` and
`AfterBomInside` treat white space and the byte order mark.

`AgentProofs` proves `AgentReadyForNext` and `AgentAnswersAreTrue` for every set of
clients, texts, events and callbacks, every size of the buffer and of the array of
arguments, and any contents of the memory. `PhaseInv` ties the place in the code to
what is owed and allocated, `InboxInv` types the queue. An answer is right because
of what came before it: `ParsedOwn` says that a text that does not stop within an
object is read the same whatever follows it, `FlightInv` that a client that waits has
exactly one thing under way (its request at the socket, or the agent at work on it,
or the answer), and `HandledInv` what each place in `handle_msg` already knows of the
message (`NackIsRight`, `AckIsRight`). The first of the two theorems is about the
socket, the JSON items and the argument structs; printed replies are never freed.

A convention for whoever extends the proofs: the SMT encoding of tlapm 1.4.5
assumes `DOMAIN S = 1 .. N <=> Len(S) = N` of every `S`, which is contradictory
for a function whose domain is not `1 .. n` (`mem`, over `0 .. RingSize - 1`). No
leaf here rests on it: all eight modules were also checked with the equivalence
restricted to its sound direction. Keep such functions and `Len` in different
leaves.

The invariants that the proofs rest on (`IInv`, `CoreInv`, `EndInv`, `PaceInv`,
`PathInv`) are theorems or lemmas and not invariants of a run.

Only model-checked: liveness (`TraceCompletes`, `ReplayCompletes`, `CaptureCompletes`,
`StopCompletes`, `PaceCompletes`, `RequestsAnswered`), since fairness is outside the
prover; the editing of JSON items (`ListInv`, `ForestSpec`), what the parser returns and
the printer writes (`ParsedRight`, `NothingLeaks`, `WritesFit`, `ReadsBack`,
`EnoughIsEnough`), since their definitions are recursive over trees.

## 6. Not modelled

* **Data rate and packet counters**: counters and a comparison with the sampling
  interval that a lowered interval can miss; nothing else of the system depends on
  them. **AXI4-Lite register slaves**: the same handshake in every core, with one
  master that the bus serialises; registers appear in the models where cores or
  software use them. **Control core**: its reset and enable registers appear as
  the cores see them, the crossing between its two clocks does not.
* **MAC wrappers, identification core, build scripts, examples**: wiring and
  constants. The driver library is a missing submodule; its steps are taken from
  the tests.
* **Replay and capture**: the AXI channels that are tied off, the byte order of
  words in a beat, AXI responses (ignored by the code), clock domain crossings,
  bursts that cross a 4 KiB boundary (the code does not split them), a trace of
  size 0 (the core waits for ever), packets longer than the 11 bit length counters,
  a reset in the middle of a burst of the memory writer or of a received packet.
* **Measuring path**: settings of the stamps or of the filter that change while
  packets are on their way, and resets with packets in it.
* **pcap**: gaps beyond 32 bits of cycles (27 s), packets in descending order of
  time, gaps beyond what floating point holds exactly, failing reads in export,
  file and option handling.
* **cJSON**: `cJSON_Compare`, `cJSON_Minify`, raw items in the printer,
  `cJSON_CreateStringReference` and its two siblings, `cJSON_SetNumberHelper`, the
  allocation hooks, the text of numbers (one token; digits, locale and saturation
  of `valueint` are left out), items without a type in the printer, and a `\u` whose
  four characters contain a backslash or a quote.
* **Agent**: what happens after an overrun of `args` or a null name, pieces that a
  cut text and old bytes make up together, more than 32 handlers or names of 32
  characters (the code does not check), the text of error messages.
  The Python agent has the same loop with
  exceptions in place of early returns, and also answers `get_monitor_data`.
