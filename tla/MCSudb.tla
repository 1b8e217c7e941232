------------------------------- MODULE MCSudb -------------------------------
(***************************************************************************)
(* Sudb with interchangeable accounts and secrets.                         *)
(***************************************************************************)
EXTENDS Sudb, TLC

CONSTANTS a1, a2, s1, s2

TwoAccounts == {a1, a2}
TwoSecrets == {s1, s2}

Symmetry == Permutations(Accounts) \cup Permutations(Secrets)

\* More entries than are counted come from a load that adds to those there.  They are
\* saved as they are then; over a file with that many at most one entry is saved.
OneTooMany ==
  /\ Len(entries) > MaxEntries =>
       /\ Len(entries) = MaxEntries + 1
       /\ \E es \in Suffixes(entries) : sum = Contents(es)
  /\ Len(sum) > MaxEntries + 1 => Len(entries) \in {0, 1, MaxEntries + 1}
=============================================================================
