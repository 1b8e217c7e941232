------------------------------- MODULE MCScfg -------------------------------
(***************************************************************************)
(* Scfg with interchangeable ids and keys, a plain text and one whose      *)
(* cipher has a length beyond LengthLimit (36, stored as 4 when the limit  *)
(* is 32).                                                                 *)
(***************************************************************************)
EXTENDS Scfg, TLC

CONSTANTS i1, i2, k1, k2

TwoIds == {i1, i2}
TwoKeys == {k1, k2}

Text == [bytes |-> 4, counted |-> 4]
LongText == [bytes |-> 20, counted |-> 20]
TwoTexts == {Text, LongText}

Symmetry == Permutations(Ids) \cup Permutations(Keys)

\* More entries than are counted come from a load that adds to those there.  They are
\* saved as they are then; over a file with that many at most one entry is saved.
OneTooMany ==
  /\ Len(entries) > MaxEntries =>
       /\ Len(entries) = MaxEntries + 1
       /\ \E es \in Suffixes(entries) : sum = Contents(es, sec)
  /\ Len(sum) > MaxEntries + 1 => Len(entries) \in {0, 1, MaxEntries + 1}
=============================================================================
