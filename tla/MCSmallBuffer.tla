--------------------------- MODULE MCSmallBuffer ---------------------------
(***************************************************************************)
(* SmallBuffer of 2-byte elements, 4 of them in the object and 2 under the *)
(* pointer, and a size_t of 4 bits: the bytes of 8 elements wrap around to *)
(* none, those of 9 to one element and those of 15 to seven.               *)
(***************************************************************************)
EXTENDS SmallBuffer

CONSTANTS zero, a, pointerByte, outside

TwoValues == {zero, a}
AllRequests == {0, 1, 3, 4, 5, 7, 8, 9, 15}
=============================================================================
