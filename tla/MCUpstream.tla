----------------------------- MODULE MCUpstream ------------------------------
(* An instance of Upstream for TLC. *)
EXTENDS Upstream

CONSTANTS r1, r2

TwoRequests == {r1, r2}
TwoPorts == {1, 2}
=============================================================================
