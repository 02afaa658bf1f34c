----------------------------- MODULE MCRtdInput -----------------------------
(* Instances of RtdInput for TLC. *)
EXTENDS RtdInput
=============================================================================
