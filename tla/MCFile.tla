------------------------------- MODULE MCFile -------------------------------
(***************************************************************************)
(* File with offsets on both sides of the file, and word sizes that make   *)
(* the arithmetic of seek() wrap.                                          *)
(***************************************************************************)
EXTENDS File

SmallOffsets == -6..6
=============================================================================
