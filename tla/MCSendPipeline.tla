--------------------------- MODULE MCSendPipeline ---------------------------
(* Two workers are sent eleven chunks, one more than they, jobs and results  *)
(* hold.                                                                     *)
EXTENDS SendPipeline, TLC

CONSTANTS w1, w2
=============================================================================
