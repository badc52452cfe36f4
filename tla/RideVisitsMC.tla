---------------------------- MODULE RideVisitsMC ----------------------------
(* A small instance of RideVisits for TLC: texts are only compared with    *)
(* each other, and so are positions.                                       *)
EXTENDS RideVisits, TLC

CONSTANTS A, B, P, Q

MCTexts == {A, B}
MCPositions == {P, Q}
MCSymmetry == Permutations(MCTexts) \cup Permutations(MCPositions)
=============================================================================
