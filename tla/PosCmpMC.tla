----------------------------- MODULE PosCmpMC -----------------------------
(* Instances of PosCmp for TLC. *)
EXTENDS PosCmp
CONSTANTS A, B
MCNames == {A, B}
\* on the limit and just beyond it, for both limits
MCDists == {50, 51, 200, 201}
MCThresholds == {0, 100}
=============================================================================
