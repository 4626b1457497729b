------------------------------- MODULE Replay -------------------------------
(***************************************************************************)
(* The whole replay core, nt_gen_replay_top.v: the ring buffer path of     *)
(* ReplayRing and the packet assembly of ReplayAssemble on either side of  *)
(* the FIFO (nt_gen_replay_mem_read_fifo, 512 bits in, 64 bits out, first  *)
(* word fall through), driven by software from the configuration of a      *)
(* trace to the last packet.  A beat that was stored is shown at the       *)
(* FIFO's output after any number of clock edges: the sources do not say   *)
(* how many it takes.                                                      *)
(***************************************************************************)
EXTENDS ReplayRing, ReplayAssemble

CONSTANTS
  WordsPerBeat,    (* 64 bit words in a 512 bit beat: 8                    *)
  TraceOf          (* the packets of the trace of each size in Sizes       *)

Format == INSTANCE PcapTrace

ASSUME ReplayAssumption ==
  /\ WordsPerBeat \in Nat \ {0}
  /\ \A s \in Sizes : Format!TraceBeats(TraceOf[s]) = s

VARIABLES
  sub,      (* words read of the beat at the head of the FIFO              *)
  shown,    (* beats of stored that have reached the FIFO's output side    *)
  out,      (* stream words of this trace the slave has accepted           *)
  starved,  (* history: the slave was ready when the last payload word of  *)
            (* a packet was due and not at the FIFO's output               *)
  hidden    (* history: in this trace, the memory reader was inactive when *)
            (* the FIFO held beats and showed none                         *)

rpVars  == <<asVars, sub, shown, out, starved, hidden>>
allVars == <<vars, rpVars>>

RpInit ==
  /\ Init /\ AssembleInit
  /\ sub = 0 /\ shown = 0 /\ out = <<>>
  /\ starved = FALSE /\ hidden = FALSE

-----------------------------------------------------------------------------
Trace == TraceOf[trace_size]

fifo_empty == drained >= shown
fifo_dout ==
  IF ~fifo_empty /\ stored[drained + 1] \in 0 .. trace_size - 1
  THEN Format!TraceWords(Trace)[stored[drained + 1] * WordsPerBeat + sub + 1]
  ELSE Zero

(* A read of the empty FIFO has no effect.                                 *)
Pop(tready) == fifo_rd_en(tready) /\ ~fifo_empty

(* The last payload word of a packet, which is also its last word, is due. *)
LastWordStarved ==
  as_state = "TX" /\ tx_done_wire /\ ~tx_done_snap /\ fifo_empty

RpClock(arready, deliver, tready) ==
  /\ ClockEdge(arready, deliver, Pop(tready) /\ sub = WordsPerBeat - 1)
  /\ AssembleClock(rst, start, fifo_empty, fifo_dout, mr_active, tready)
  /\ sub' = IF rst THEN 0
            ELSE IF Pop(tready) THEN (sub + 1) % WordsPerBeat ELSE sub
  /\ shown' \in IF rst THEN {0} ELSE shown .. Len(stored')
  /\ out' = IF rst THEN <<>>
            ELSE IF m_axis.tvalid /\ tready THEN Append(out, m_axis) ELSE out
  /\ starved' = (~rst /\ (starved \/ (tready /\ LastWordStarved)))
  /\ hidden' = (~rst /\ (hidden \/ (~mr_active /\ fifo_empty /\ Level > 0)))

-----------------------------------------------------------------------------
(* Software: the steps of ReplayRing, with the status of both modules.     *)
RpConfigure ==
  /\ SwConfigure
  /\ shown' = 0
  /\ out' = <<>>
  /\ hidden' = FALSE
  /\ UNCHANGED <<asVars, sub, starved>>

RpStart     == SwStart /\ ~as_active /\ UNCHANGED rpVars
RpSeeActive == SwSeeActive /\ as_active /\ UNCHANGED rpVars

(* All packets have been received and both modules are inactive.           *)
RpFinish ==
  /\ SwFinish
  /\ ~as_active
  /\ out = Format!TraceOutput(Trace)
  /\ UNCHANGED rpVars

RpRelease == SwRelease /\ as_state = "IDLE" /\ UNCHANGED rpVars

RpReset == SwReset /\ UNCHANGED rpVars

RpFetch == AxiFetch /\ UNCHANGED rpVars

RpWrite == (SwSample \/ SwCopy \/ SwPublish) /\ UNCHANGED rpVars

RpNext ==
  \/ \E arready, deliver, tready \in BOOLEAN : RpClock(arready, deliver, tready)
  \/ RpFetch
  \/ RpConfigure \/ RpStart \/ RpSeeActive \/ RpWrite \/ RpFinish
  \/ RpReset \/ RpRelease

RpSpec == RpInit /\ [][RpNext]_allVars

(* As in ReplayRing.  The slave of the stream is ready again and again, and*)
(* the FIFO's output catches up again and again.                           *)
RpFairness ==
  /\ WF_allVars(\E deliver, tready \in BOOLEAN : RpClock(TRUE, deliver, tready))
  /\ WF_allVars(\E arready, tready \in BOOLEAN : RpClock(arready, TRUE, tready))
  /\ SF_allVars(\E arready, deliver \in BOOLEAN : RpClock(arready, deliver, TRUE))
  /\ WF_allVars(\E arready, deliver, tready \in BOOLEAN :
                  RpClock(arready, deliver, tready))
  /\ WF_allVars(\E arready, deliver, tready \in BOOLEAN :
                  RpClock(arready, deliver, tready) /\ shown' = Len(stored'))
  /\ WF_allVars(RpFetch)
  /\ WF_allVars(RpSeeActive \/ RpWrite \/ RpFinish)
  /\ WF_allVars(RpRelease)

RpFairSpec == RpSpec /\ RpFairness

-----------------------------------------------------------------------------
Pending == IF m_axis.tvalid THEN <<m_axis>> ELSE <<>>

(* What has been sent is always a prefix of the packets of the trace, word *)
(* for word: data, zero padding of cut packets, end mark, byte enables and *)
(* gap (m_axis against the trace file, as check_output compares them), for *)
(* as long as the FIFO has never run empty under the last payload word of  *)
(* a packet: then the assembler leaves the packet without that word.       *)
OutputIsTrace ==
  ~starved /\ sw \in {"started", "write", "copy", "publish"} =>
    LET sofar == out \o Pending
        all   == Format!TraceOutput(Trace)
    IN  Len(sofar) <= Len(all) /\ sofar = SubSeq(all, 1, Len(sofar))

(* Once software has published the whole trace, the two status bits are    *)
(* down only when every packet has been handed to the output register and  *)
(* the FIFO is empty: the assembler never takes a pause of the memory      *)
(* reader for its end.  This holds however late the FIFO shows its beats,  *)
(* as long as it still showed one, or held none, at each edge from the one *)
(* at which the memory reader's flag was down.                             *)
InactiveMeansDone ==
  (sw = "write" /\ ~mr_active /\ ~as_active /\ ~starved /\ ~hidden) =>
    /\ sent = trace_size
    /\ out \o Pending = Format!TraceOutput(Trace)
    /\ Level = 0

(* A started trace is sent to its last packet, unless it is reset or the   *)
(* FIFO has run empty as above.                                            *)
ReplayCompletes ==
  sw = "started" ~> sw \in {"idle", "reset"} \/ starved \/ hidden
=============================================================================
