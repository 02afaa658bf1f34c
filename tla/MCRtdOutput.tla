---------------------------- MODULE MCRtdOutput ----------------------------
(* Instances of RtdOutput for TLC. *)
EXTENDS RtdOutput
=============================================================================
