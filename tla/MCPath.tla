------------------------------- MODULE MCPath -------------------------------
(***************************************************************************)
(* Path over the characters that its methods tell apart, with one letter.  *)
(* A letter that names no drive would do what a dot or a colon does.       *)
(***************************************************************************)
EXTENDS Path

SomeChars == {"\\", "/", ".", ":", "C", "nul"}
SomeLetters == {"C"}
SomeInputs == {<<"C">>, <<"C", ".", "C", "C">>, <<"/">>, <<"C", ":", "\\", "C">>}
SomeFolders == {<<"C", ":", "\\">>, <<"C", ":", "\\", "C">>}
SomeExecutables == {<<"C", ":", "\\", "C", ".", "C">>, <<"C", ":", "\\", "C">>}
=============================================================================
