-------------------------------- MODULE File --------------------------------
(***************************************************************************)
(* Class file (filesystem/file.cpp): one object, its handle, its position, *)
(* and the file on disk.  The object is used by one thread.                *)
(*                                                                         *)
(* _Myhandle is a null pointer in an object made by file(), and            *)
(* INVALID_HANDLE_VALUE once CreateFileW has failed or close() has been    *)
(* called.  is_open() tells the second from an open file, and the tests    *)
(* `if (_Myhandle)` of open() only the first.                              *)
(*                                                                         *)
(* A definition named X_Y is X with the fault Y.                           *)
(***************************************************************************)
EXTENDS FilePosition

CONSTANTS
  MaxSize,      \* bound: the size the file grows to
  Lengths,      \* byte counts of reads and writes
  Offsets,      \* offsets of seeks
  W,            \* 2^64, or less
  OsFails       \* whether ReadFile, WriteFile, SetFileInformationByHandle fail

ASSUME FileAssumption ==
  /\ MaxSize \in Nat
  /\ Lengths \subseteq Nat \ {0}
  /\ W \in Nat /\ 2 * MaxSize < W
  /\ Offsets \subseteq Int
  /\ \A o \in Offsets : -W < 2 * o /\ 2 * o < W
  /\ OsFails \in BOOLEAN

VARIABLES
  handle,   \* _Myhandle: "null", "invalid" or "open"
  f,        \* the position, of an open file
  grown,    \* history: written past the known end since the last seek
  last      \* history: the last call, its answer, and where a seek aimed

vars == <<handle, f, grown, last>>

NoTarget == 0
Answer(op, ok) == last' = [op |-> op, ok |-> ok, target |-> NoTarget]

Init ==
  /\ handle \in {"null", "invalid", "open"}
  /\ \E n \in 0..MaxSize : f = OpenedFile(IF handle = "open" THEN n ELSE 0)
  /\ grown = FALSE
  /\ last = [op |-> "construct", ok |-> TRUE, target |-> NoTarget]

-----------------------------------------------------------------------------
\* open() tests for the null pointer, before and after CreateFileW.
Open ==
  IF handle # "null"
    THEN /\ Answer("open", FALSE)
         /\ UNCHANGED <<handle, f, grown>>
    ELSE /\ \/ /\ handle' = "open"
               /\ \E n \in 0..MaxSize : f' = OpenedFile(n)
            \/ handle' = "invalid" /\ f' = OpenedFile(0)
         /\ grown' = FALSE
         /\ Answer("open", TRUE)

\* close() leaves _Mypos as it is.
Close ==
  /\ handle' = "invalid"
  /\ Answer("close", TRUE)
  /\ UNCHANGED <<f, grown>>

\* Every other call on an object without a file: the early return, or the
\* failure of _Set_pos() or of the system call on a null handle.
Refuse ==
  /\ handle # "open"
  /\ Answer("refused", FALSE)
  /\ UNCHANGED <<handle, f, grown>>

-----------------------------------------------------------------------------
(* seek(): the arithmetic is that of uintmax_t.                            *)

SeekTo(off, target) ==
  /\ handle = "open"
  /\ f' = IF InRange(f, off) THEN Submitted(f, off) ELSE f
  /\ last' = [op |-> "seek", ok |-> InRange(f, off), target |-> target]
  /\ grown' = (grown /\ ~InRange(f, off))
  /\ UNCHANGED handle

SeekBegin_Signed(off) == SeekTo(off, off)
SeekBegin(off) == SeekTo(off % W, off)

SeekCurrent(off) ==
  SeekTo(IF off >= 0 THEN (f.pos + off) % W ELSE (f.pos - (-off)) % W,
         f.pos + off)

SeekEnd(off) ==
  IF off < 0
    THEN /\ handle = "open"
         /\ Answer("seekEnd", FALSE)
         /\ UNCHANGED <<handle, f, grown>>
    ELSE SeekTo((f.size - off) % W, f.size - off)

-----------------------------------------------------------------------------
ResizeFile(n) ==
  /\ handle = "open"
  /\ \/ f' = Resized(f, n) /\ grown' = FALSE /\ Answer("resize", TRUE)
     \/ OsFails /\ Answer("resize", FALSE) /\ UNCHANGED <<f, grown>>
  /\ UNCHANGED handle

\* clear() is resize(0), written out.
ClearFile == ResizeFile(0)

ReadFile(n) ==
  /\ handle = "open"
  /\ \/ f' = Read(f, n) /\ Answer("read", TRUE)
     \/ OsFails /\ Answer("read", FALSE) /\ UNCHANGED f
  /\ UNCHANGED <<handle, grown>>

GetByte ==
  /\ handle = "open"
  /\ IF Eof(f)
       THEN Answer("get", FALSE) /\ UNCHANGED f
       ELSE \/ f' = Get(f) /\ Answer("get", TRUE)
            \/ OsFails /\ Answer("get", FALSE) /\ UNCHANGED f
  /\ UNCHANGED <<handle, grown>>

\* A failed write may have written a part, and moved the file pointer.
WriteFails(n) ==
  /\ OsFails
  /\ \E part \in 0..(n - 1) :
       /\ f' = OsWrite(f, part)
       /\ grown' = (grown \/ part > 0)
  /\ Answer("write", FALSE)

WriteFile(n) ==
  /\ handle = "open"
  /\ f.osPos + n <= MaxSize
  /\ \/ /\ f' = Write(f, n)
        /\ grown' = (grown \/ f.pos + n > f.size)
        /\ Answer("write", TRUE)
     \/ WriteFails(n)
  /\ UNCHANGED handle

PutByte ==
  /\ handle = "open"
  /\ f.osPos + 1 <= MaxSize
  /\ \/ /\ f' = Put(f)
        /\ grown' = (grown \/ f.pos + 1 > f.size)
        /\ Answer("put", TRUE)
     \/ WriteFails(1)
  /\ UNCHANGED handle

Next ==
  \/ Open \/ Close \/ Refuse
  \/ \E off \in Offsets : SeekBegin(off) \/ SeekCurrent(off) \/ SeekEnd(off)
  \/ \E n \in 0..MaxSize : ResizeFile(n)
  \/ ClearFile
  \/ \E n \in Lengths : ReadFile(n) \/ WriteFile(n)
  \/ GetByte \/ PutByte

Spec == Init /\ [][Next]_vars

-----------------------------------------------------------------------------
TypeOK ==
  /\ handle \in {"null", "invalid", "open"}
  /\ f \in [pos : Nat, size : Nat, osPos : Nat, real : Nat]
  /\ grown \in BOOLEAN
  /\ last.op \in {"construct", "open", "close", "refused", "seek", "seekEnd",
                  "resize", "read", "get", "write", "put"}
  /\ last.ok \in BOOLEAN
  /\ last.target \in Int

\* read() subtracts the position from the size as unsigned numbers
\* (file.cpp:468): through every sequence of calls, failed ones too, the
\* subtraction does not wrap, and the object never believes in bytes the file
\* does not have.
NoUnderflow == f.pos <= f.size /\ f.size <= f.real

\* tell() may lag behind the place a read takes its bytes from, and is never
\* ahead of it; nor is that place behind the end.
NeverAhead == f.pos <= f.osPos /\ f.osPos <= f.real

\* Unless the object wrote past the end it knew of (or a write failed), and no
\* seek followed, reads and writes happen where tell() says.
InSync == handle = "open" /\ ~grown => f.pos = f.osPos

\* A seek succeeds exactly when the place it aims at, as a number, is in the
\* file as the object knows it, in spite of the wrap around of uintmax_t, and
\* then takes the file pointer there.
SeekExact ==
  last.op = "seek" =>
    /\ last.ok <=> last.target \in 0..f.size
    /\ last.ok => f.pos = last.target /\ f.osPos = last.target
=============================================================================
