-------------------------- MODULE MCCaptureReceive --------------------------
(* Values of the constants for TLC.                                        *)
EXTENDS CaptureReceive

(* Words of 2 bytes: packets of 2 and 3 words, cut to nothing, to a full   *)
(* word, to one and a half, or not at all.                                 *)
MCPktLens == <<3, 5>>
MCMaxLens == {0, 2, 3, 6}
=============================================================================
