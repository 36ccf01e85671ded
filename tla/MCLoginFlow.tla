----------------------------- MODULE MCLoginFlow -----------------------------
(* Instances of LoginFlow for TLC. *)
EXTENDS LoginFlow, TLC

CONSTANTS t1, t2, A, B

TwoTabs == {t1, t2}
TwoBrowsers == {A, B}
LoginSymmetry == Permutations(TwoTabs) \cup Permutations(TwoBrowsers)
=============================================================================
