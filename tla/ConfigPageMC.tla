---------------------------- MODULE ConfigPageMC ----------------------------
(* A small instance of ConfigPage for TLC. *)
EXTENDS ConfigPage

CONSTANTS K1, K2, L1

MCNames == {K1, K2}
MCLongNames == {L1}
MCClip == [n \in MCLongNames |-> K1]
\* a line that may be longer than its buffer
MCLines == {K2}
MCLike == {}
MCNeighbours == {"padding"}

\* calls without their numbers: which of two alike is answered is the same
Plain(cs) == <<{[c EXCEPT !.id = 0] : c \in cs}, Cardinality(cs)>>

\* the page never reads what BusConfig notes of the last reply
PageView == <<lineVars, form, shown, Plain(asked), Plain(answered), history>>
=============================================================================
