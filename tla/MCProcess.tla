------------------------------ MODULE MCProcess -----------------------------
(***************************************************************************)
(* Process with two objects, this process, two numbers for the others and  *)
(* two handles.  The objects are alike.                                    *)
(***************************************************************************)
EXTENDS Process, TLC

CONSTANTS p, q

TwoObjects == {p, q}
ThreePids == {1, 2, 3}
TwoNames == {"self", "a"}
TwoHandles == {1, 2}

Alike == Permutations(TwoObjects)
=============================================================================
