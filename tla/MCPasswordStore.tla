--------------------------- MODULE MCPasswordStore ---------------------------
(* Instances of PasswordStore for TLC. *)
EXTENDS PasswordStore, TLC

CONSTANTS t1, t2

TwoThreads == {t1, t2}
ThreadSymmetry == Permutations({t1, t2})
=============================================================================
