---------------------------- MODULE TraceStream ----------------------------
(***************************************************************************)
(* What the ring buffer read path of the replay core promises: once        *)
(* started, the beats of the trace that software has published come out    *)
(* one at a time, each exactly once and in trace order, never before it    *)
(* was published, and the core stops by itself after the last one.  The    *)
(* beats that are published and not yet delivered fit into the ring with   *)
(* one slot to spare.  A software reset abandons the trace.                *)
(***************************************************************************)
EXTENDS Naturals, Sequences

CONSTANTS
  Sizes,      (* trace sizes software may configure, in beats              *)
  RingSize    (* beats in the ring buffer                                  *)

VARIABLES
  active,     (* a trace is being replayed                                 *)
  size,       (* its size                                                  *)
  published,  (* number of its beats software has handed over              *)
  delivered   (* its beats, as they have come out                          *)

svars == <<active, size, published, delivered>>

Init ==
  /\ active = FALSE
  /\ size \in Sizes
  /\ published = 0
  /\ delivered = <<>>

(* Between traces software chooses the next size and forgets the last run. *)
Configure ==
  /\ ~active
  /\ size' \in Sizes
  /\ published' = 0
  /\ delivered' = <<>>
  /\ UNCHANGED active

Start ==
  /\ ~active
  /\ published = 0
  /\ delivered = <<>>
  /\ active' = TRUE
  /\ UNCHANGED <<size, published, delivered>>

Publish ==
  /\ active
  /\ published' > published
  /\ published' <= size
  /\ published' - Len(delivered) < RingSize
  /\ UNCHANGED <<active, size, delivered>>

(* The beats of a trace are numbered from 0.  The last one ends the run.   *)
Deliver ==
  /\ active
  /\ Len(delivered) < published
  /\ delivered' = Append(delivered, Len(delivered))
  /\ active' = (Len(delivered) + 1 # size)
  /\ UNCHANGED <<size, published>>

Reset ==
  /\ active' = FALSE
  /\ published' = 0
  /\ delivered' = <<>>
  /\ UNCHANGED size

Next == Configure \/ Start \/ Publish \/ Deliver \/ Reset

Spec == Init /\ [][Next]_svars
=============================================================================
