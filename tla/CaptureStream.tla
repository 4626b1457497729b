--------------------------- MODULE CaptureStream ---------------------------
(***************************************************************************)
(* What the ring buffer path of the capture core promises: the beats that  *)
(* were captured are published and taken in order, each exactly once and   *)
(* none before it was published; those that are published and not yet      *)
(* taken fit into the ring with one slot to spare; and a capture is over   *)
(* only when all of its beats are published.  A reset abandons it.         *)
(***************************************************************************)
EXTENDS Naturals, Sequences

CONSTANTS
  Totals,     (* numbers of beats a capture may have                       *)
  RingSize    (* beats in the ring buffer                                  *)

VARIABLES
  capturing,  (* a capture is running                                      *)
  total,      (* the number of its beats                                   *)
  published,  (* number of beats software may take                         *)
  taken       (* the beats software has taken                              *)

csVars == <<capturing, total, published, taken>>

Init ==
  /\ capturing = FALSE
  /\ total \in Totals
  /\ published = 0
  /\ taken = <<>>

Prepare ==
  /\ ~capturing
  /\ total' \in Totals
  /\ published' = 0
  /\ taken' = <<>>
  /\ UNCHANGED capturing

Start ==
  /\ ~capturing
  /\ published = 0
  /\ capturing' = TRUE
  /\ UNCHANGED <<total, published, taken>>

Publish ==
  /\ capturing
  /\ published' > published
  /\ published' <= total
  /\ published' - Len(taken) < RingSize
  /\ UNCHANGED <<capturing, total, taken>>

(* Software takes some of the published beats; they are numbered from 0.   *)
Take ==
  /\ \E n \in 1 .. published - Len(taken) :
       taken' = taken \o [i \in 1 .. n |-> Len(taken) + i - 1]
  /\ UNCHANGED <<capturing, total, published>>

End ==
  /\ capturing
  /\ published = total
  /\ capturing' = FALSE
  /\ UNCHANGED <<total, published, taken>>

Reset ==
  /\ capturing' = FALSE
  /\ published' = 0
  /\ taken' = <<>>
  /\ UNCHANGED total

Next == Prepare \/ Start \/ Publish \/ Take \/ End \/ Reset

Spec == Init /\ [][Next]_csVars
=============================================================================
