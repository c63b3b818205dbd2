-------------------------- MODULE MCResumeTransfer --------------------------
(* One or two versions of a short file. *)
EXTENDS ResumeTransfer

CONSTANTS v1, v2
=============================================================================
