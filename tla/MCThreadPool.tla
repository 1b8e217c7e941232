---------------------------- MODULE MCThreadPool ----------------------------
(***************************************************************************)
(* ThreadPool on a small memory, with interchangeable nodes.               *)
(***************************************************************************)
EXTENDS ThreadPool, TLC

CONSTANTS n1, n2, n3, n4, n5

Nodes3 == {n1, n2, n3}
Nodes4 == {n1, n2, n3, n4}
Nodes5 == {n1, n2, n3, n4, n5}

Symmetry == Permutations(Node)
=============================================================================
