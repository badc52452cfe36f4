----------------------------- MODULE ByteStream -----------------------------
(***************************************************************************)
(* What a client is promised of an answer: the bytes taken from the        *)
(* handler, in order, none of them twice, and an end only after the last.  *)
(***************************************************************************)
EXTENDS Naturals

VARIABLES taken, got, ended

StreamInit == taken = 0 /\ got = 0 /\ ended = FALSE

Flow ==
    /\ ~ended
    /\ taken' >= taken /\ got' >= got /\ got' <= taken'
    /\ ended' \in BOOLEAN
    /\ ended' => got' = taken'

Stream == StreamInit /\ [][Flow]_<<taken, got, ended>>
=============================================================================
