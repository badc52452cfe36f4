----------------------------- MODULE CurLineMC -----------------------------
(* Instances of CurLine for TLC. *)
EXTENDS CurLine, TLC
CONSTANTS A, B
\* a line that comes back to its first station
MCLine == (0 :> A) @@ (1 :> B) @@ (2 :> A)
=============================================================================
