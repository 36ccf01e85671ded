---------------------------- MODULE MCFlowStream ----------------------------
(* Instances of FlowStream for TLC. *)
EXTENDS FlowStream
=============================================================================
