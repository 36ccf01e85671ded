----------------------------- MODULE MCTraceflow -----------------------------
(* An instance of Traceflow for TLC. *)
EXTENDS Traceflow

CONSTANTS n1, n2

TwoNames == {n1, n2}
NoneAndSome == {-1, 0, 1}
=============================================================================
