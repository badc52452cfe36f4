---------------------------- MODULE BusPagesMC ----------------------------
(* Instances of BusPages for TLC. *)
EXTENDS BusPages, TLC
CONSTANTS A, B
MCTexts == {A, B}
\* texts are only compared with each other
MCSymmetry == Permutations(MCTexts)
=============================================================================
