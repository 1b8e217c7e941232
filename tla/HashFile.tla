------------------------------ MODULE HashFile ------------------------------
(***************************************************************************)
(* blake3_file() (cryptography/hash/generic/blake3.cpp): the hash of a file*)
(* from an offset to its end, through the object's own position.           *)
(***************************************************************************)
EXTENDS FilePosition

HashChunk == 1024

\* No seek when tell() is the offset already: the hash begins where the file
\* pointer is.
HashStart(f, off) == IF Tell(f) # off THEN Submitted(f, off) ELSE f

\* Chunks until one is empty.  An object that lags counts the empty one too.
HashEnd(f, off) ==
  LET g == HashStart(f, off)
  IN  IF BytesRead(g, HashChunk) = 0 THEN Read(g, HashChunk) ELSE Read(g, g.size)
=============================================================================
