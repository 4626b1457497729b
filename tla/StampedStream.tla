---------------------------- MODULE StampedStream ----------------------------
(***************************************************************************)
(* What the cores that handle time stamps have in common: the words of the *)
(* streams, and the time that nt_timestamp.v gives to all of them.         *)
(*                                                                         *)
(* A word is a record.  The bits of a packet that a core looks at are a    *)
(* field of the word that holds them: its type in word 1, its address      *)
(* (whether it matches the filter's) in word 0, and in each word the       *)
(* stamp, the bits at the place for the time.  keep is the number of bytes *)
(* in a word.  A setting is a record of mode, word and byte of the         *)
(* position, and width in bytes.                                           *)
(***************************************************************************)
EXTENDS Integers

CONSTANTS
  TimeRange,    (* 2^24, the number of values of the time                  *)
  ShortRange,   (* 2^16, of the low bits of it that a 16 bit stamp holds   *)
  WordRange     (* 2^8, of the cores' counters of the words of a packet    *)

ASSUME StampAssumption ==
  /\ TimeRange \in Nat \ {0} /\ ShortRange \in Nat \ {0}
  /\ TimeRange % ShortRange = 0
  /\ WordRange \in Nat \ {0}

StampRange(cfg) == IF cfg.mode = "fixed" /\ cfg.width = 3 THEN TimeRange ELSE ShortRange

NoLatency == [valid |-> FALSE, value |-> 0]
NoTuser   == [latency |-> NoLatency, cycles |-> 0]

(* What a word was when it passed, for the properties to compare with: the *)
(* time at which it should have been stamped, and what should be measured. *)
NoTruth == [time |-> 0, tuser |-> NoTuser]

(* The registers of a stream's master when they hold no word.  What their  *)
(* data lines show then is of no account for the cores of this path.       *)
NoWord ==
  [valid |-> FALSE, last |-> FALSE, pkt |-> 0, pos |-> 0, keep |-> 0,
   type |-> "other", match |-> FALSE, stamp |-> 0, tuser |-> NoTuser, truth |-> NoTruth]

(* What the lines of a stream can show.                                    *)
PacketTypes == {"v4", "v6", "other"}
Tusers == [latency : [valid : BOOLEAN, value : Nat], cycles : Nat]
Words ==
  [valid : BOOLEAN, last : BOOLEAN, pkt : Nat, pos : Nat, keep : Nat,
   type : PacketTypes, match : BOOLEAN, stamp : Nat, tuser : Tusers,
   truth : [time : Nat, tuser : Tusers]]

(* What a register of a stream holds after it has taken w.                 *)
Taken(w) == IF w.valid THEN w ELSE NoWord
-----------------------------------------------------------------------------
(* One clock edge of nt_timestamp.v: the time, which all cores share, goes *)
(* on by one in every cycles_per_tick cycles.                              *)
CONSTANTS TickRange   (* 2^8, the number of values of cycles_per_tick      *)

ASSUME TickCounterAssumption == TickRange \in Nat \ {0}

VARIABLES
  tick_cntr,
  timestamp     (* timestamp_o                                             *)

tcVars == <<tick_cntr, timestamp>>

TickCounterInit == tick_cntr = 0 /\ timestamp = 0

(* What a counter of that many values counts to next.                      *)
After(n, range) == IF n = range - 1 THEN 0 ELSE n + 1

(* cycles_per_tick - 1 is out of reach when cycles_per_tick is 0.  The     *)
(* time goes on only when the counter meets the end of the period, the     *)
(* counter also begins anew when it is beyond it.  Variants with a bug to  *)
(* try a property against, here and in the other cores.                    *)
Tick(cycles_per_tick) == cycles_per_tick > 0 /\ tick_cntr = cycles_per_tick - 1

PeriodMet(cycles_per_tick)  == cycles_per_tick > 0 /\ tick_cntr = cycles_per_tick - 1
PeriodOver(cycles_per_tick) == cycles_per_tick > 0 /\ tick_cntr >= cycles_per_tick - 1

TickCounterClock(cycles_per_tick) ==
  /\ timestamp' = IF Tick(cycles_per_tick) THEN After(timestamp, TimeRange) ELSE timestamp
  /\ tick_cntr' = IF PeriodOver(cycles_per_tick) THEN 0 ELSE After(tick_cntr, TickRange)
=============================================================================
