----------------------------- MODULE MCBearerAuth ----------------------------
(* An instance of BearerAuth for TLC. *)
EXTENDS BearerAuth, TLC

CONSTANTS r1, r2, jwt, opaque, A, B

TwoRequests == {r1, r2}
TwoTokens == {jwt, opaque}
OneClient == {A}
TwoAddresses == {A, B}
OneExpires == (jwt :> 2) @@ (opaque :> 0)
BearerSymmetry == Permutations(TwoRequests)
=============================================================================
