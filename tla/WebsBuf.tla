------------------------------ MODULE WebsBuf ------------------------------
(***************************************************************************)
(* The ring buffers of GoAhead (runtime.c): offsets into BufLen bytes, one *)
(* of which stays free.  A buffer is [at, data]: the offset of servp, and  *)
(* the bytes from there on, around the end of the memory if need be.       *)
(***************************************************************************)
EXTENDS Integers, Sequences

CONSTANT BufLen   \* bytes of memory of a buffer

ASSUME BufLenAssumption == BufLen \in Nat /\ BufLen > 1

Least(m, n) == IF m < n THEN m ELSE n

EmptyBuf == [at |-> 0, data |-> <<>>]

(* An offset that may have left the memory at its end.                     *)
Wrap(offset) == IF offset >= BufLen THEN offset - BufLen ELSE offset

End(b) == Wrap(b.at + Len(b.data))

(* bufRoom: what fits without going around the end.                        *)
Room(b) == Least(BufLen - End(b), BufLen - Len(b.data) - 1)

(* bufPutBlk goes around the end; what does not fit is not put, as these   *)
(* buffers are as large as they may grow.                                  *)
Put(b, bytes) ==
    [b EXCEPT !.data = @ \o SubSeq(bytes, 1, Least(Len(bytes), BufLen - 1 - Len(@)))]

Junk == [k |-> "junk", v |-> 0, of |-> 0]

(* What a reader of n bytes of memory from servp on gets.                  *)
Straight(b, n) == [i \in 1 .. n |-> IF b.at + i <= BufLen THEN b.data[i] ELSE Junk]

AdjustStart(b, n) ==
    [at |-> Wrap(b.at + n), data |-> SubSeq(b.data, n + 1, Len(b.data))]

(* The bytes move to the start of the memory; anything that is not in one  *)
(* piece behind it is taken for empty.                                     *)
Compact(b) ==
    IF b.at > 0 /\ b.at < End(b) THEN [b EXCEPT !.at = 0] ELSE EmptyBuf
=============================================================================
