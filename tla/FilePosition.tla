---------------------------- MODULE FilePosition ----------------------------
(***************************************************************************)
(* Class _Filepos (filesystem/file.cpp) and what the reads and writes of   *)
(* class file do to it.  An open file is a record                          *)
(*   pos    the position the object believes in (_Myval)                   *)
(*   size   the size it believes in (_Mysize)                              *)
(*   osPos  the file pointer of the operating system                       *)
(*   real   the size of the file                                           *)
(* The first two are caches of the last two, and are refreshed at some     *)
(* calls and not at others: a read or a write happens at osPos, whatever   *)
(* pos is.                                                                 *)
(*                                                                         *)
(* A definition named X_Y is X with the fault Y.                           *)
(*                                                                         *)
(* SetFilePointerEx and GetFileInformationByHandleEx do not fail on an open*)
(* file, and no other handle changes it (file_share::none is the default). *)
(***************************************************************************)
EXTENDS Integers

Smaller(a, b) == IF a <= b THEN a ELSE b

OpenedFile(real) == [pos |-> 0, size |-> real, osPos |-> 0, real |-> real]

Tell(f) == f.pos
Eof(f) == f.pos = f.size

\* _Set_pos(_Off, true), of a position that is in range, and _Submit_changes()
InRange_Strict(f, off) == off < f.size
InRange(f, off) == off <= f.size
Submitted_Cached(f, off) == [f EXCEPT !.pos = off]
Submitted(f, off) == [f EXCEPT !.pos = off, !.osPos = off]

\* _Go_forward(): _Set_pos(_Off, false), whose answer is ignored
GoForward_Unchecked(f, n) == [f EXCEPT !.pos = @ + n]
GoForward(f, n) == IF InRange(f, f.pos + n) THEN [f EXCEPT !.pos = @ + n] ELSE f

\* ReadFile and WriteFile.
OsReads(f, n) == Smaller(n, f.real - f.osPos)
OsRead(f, n) == [f EXCEPT !.osPos = @ + OsReads(f, n)]
OsWrite(f, n) ==
  [pos |-> f.pos, size |-> f.size, osPos |-> f.osPos + n,
   real |-> IF f.osPos + n <= f.real THEN f.real ELSE f.osPos + n]

\* _Check_file_size()
CheckedSize(f) == [f EXCEPT !.size = f.real]

\* read() of at most n bytes asks for no more than it believes are left.
ReadCount(f, n) == Smaller(f.size - f.pos, n)
Read(f, n) == GoForward(OsRead(f, ReadCount(f, n)), ReadCount(f, n))
BytesRead(f, n) == OsReads(f, ReadCount(f, n))

\* write(): the position first, then the size.
Write(f, n) == CheckedSize(GoForward(OsWrite(f, n), n))

\* put() and get()
Put(f) == GoForward(OsWrite(f, 1), 1)
Get(f) == GoForward(OsRead(f, 1), 1)

\* resize(), and clear(): the new end is the position.
Resized(f, n) == [pos |-> n, size |-> n, osPos |-> n, real |-> n]
=============================================================================
