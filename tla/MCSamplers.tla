----------------------------- MODULE MCSamplers -----------------------------
(* Samplers for TLC: the constants are given in MCSamplers.cfg. *)
EXTENDS Samplers
=============================================================================
