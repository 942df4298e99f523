----------------------------- MODULE MCSweepGate -----------------------------
(* Instances of SweepGate for TLC. *)
EXTENDS SweepGate
=============================================================================
