------------------------------- MODULE Buffer ------------------------------
(***************************************************************************)
(* What _Sbo_buffer promises its users (core/optimization/sbo.hpp): an     *)
(* array that keeps its elements when its size changes, whose new elements *)
(* are zero, and that stays as it is when a change of size is refused.     *)
(* The abstract specification that SmallBuffer implements.                 *)
(***************************************************************************)
EXTENDS Naturals, Sequences

CONSTANTS
  Values,        \* what an element can be
  Zero,          \* one of them
  Nothing,       \* stands for an element that is not there
  Spills(_, _)   \* changes of size whose new elements can be anything

VARIABLES
  contents,      \* the elements
  answer         \* of the last change of size

vars == <<contents, answer>>

Init == contents = <<>> /\ answer = TRUE

Kept(old, new) ==
  \A k \in DOMAIN old \cap DOMAIN new : old[k] # Nothing => new[k] = old[k]

ZeroAfter(n, new) == \A k \in DOMAIN new : k > n => new[k] = Zero

Refuse == answer' = FALSE /\ UNCHANGED contents

Resize ==
  /\ answer' = TRUE
  /\ Kept(contents, contents')
  /\ Spills(Len(contents), Len(contents')) \/ ZeroAfter(Len(contents), contents')

Put ==
  /\ \E k \in DOMAIN contents, v \in Values : contents' = [contents EXCEPT ![k] = v]
  /\ UNCHANGED answer

\* _Release(), and the destructor.
Release == contents' = <<>> /\ UNCHANGED answer

Next == Refuse \/ Resize \/ Put \/ Release

Spec == Init /\ [][Next]_vars
=============================================================================
