----------------------------- MODULE File_proofs -----------------------------
(***************************************************************************)
(* Proofs about File: the type invariant, the order of the four numbers of *)
(* a position, agreement with tell() between writes past the end, and the  *)
(* exactness of seek() under wrap around, for files and offsets of any size*)
(* that W leaves room for.                                                 *)
(***************************************************************************)
EXTENDS File, TLAPS

Position == [pos : Nat, size : Nat, osPos : Nat, real : Nat]

\* The four numbers in order: what the object knows is behind what is.
InOrder(g) ==
  /\ g.pos <= g.size /\ g.size <= g.real
  /\ g.pos <= g.osPos /\ g.osPos <= g.real

\* Agreement(g): reads and writes happen where tell() says.
Agreement(g) == g.pos = g.osPos

\* The sizes stay in the bound that keeps seek() from confusing two places.
Inv ==
  /\ TypeOK
  /\ InOrder(f)
  /\ f.real <= MaxSize
  /\ InSync
  /\ SeekExact

-----------------------------------------------------------------------------
(* The operators of FilePosition.                                          *)

\* _Go_forward() of a count that ends within the known size.
LEMMA GoForwardFields ==
  ASSUME NEW g \in Position, NEW n \in Nat
  PROVE  /\ GoForward(g, n) \in Position
         /\ GoForward(g, n).pos = IF g.pos + n <= g.size THEN g.pos + n ELSE g.pos
         /\ GoForward(g, n).size = g.size
         /\ GoForward(g, n).osPos = g.osPos
         /\ GoForward(g, n).real = g.real
  BY DEF Position, GoForward, InRange

\* WriteFile moves the file pointer, and the end when it gets there.
LEMMA OsWriteFields ==
  ASSUME NEW g \in Position, NEW n \in Nat
  PROVE  /\ OsWrite(g, n) \in Position
         /\ OsWrite(g, n).pos = g.pos
         /\ OsWrite(g, n).size = g.size
         /\ OsWrite(g, n).osPos = g.osPos + n
         /\ OsWrite(g, n).real = IF g.osPos + n <= g.real THEN g.real
                                 ELSE g.osPos + n
<1>1. CASE g.osPos + n <= g.real
  BY <1>1 DEF Position, OsWrite
<1>2. CASE ~(g.osPos + n <= g.real)
  BY <1>2 DEF Position, OsWrite
<1> QED
  BY <1>1, <1>2

\* ReadFile moves the file pointer by what there is to read.
LEMMA OsReadFields ==
  ASSUME NEW g \in Position, NEW n \in Nat, g.osPos <= g.real
  PROVE  /\ OsRead(g, n) \in Position
         /\ OsRead(g, n).pos = g.pos
         /\ OsRead(g, n).size = g.size
         /\ OsRead(g, n).osPos = IF n <= g.real - g.osPos THEN g.osPos + n
                                 ELSE g.real
         /\ OsRead(g, n).real = g.real
  BY DEF Position, OsRead, OsReads, Smaller

\* read() keeps the order, and agreement.
LEMMA ReadKeeps ==
  ASSUME NEW g \in Position, NEW n \in Nat, InOrder(g)
  PROVE  /\ Read(g, n) \in Position
         /\ InOrder(Read(g, n))
         /\ Read(g, n).real = g.real
         /\ Agreement(g) => Agreement(Read(g, n))
<1> DEFINE c == ReadCount(g, n)
<1> DEFINE h == OsRead(g, c)
<1>1. c \in Nat /\ c <= g.size - g.pos
  BY DEF ReadCount, Smaller, InOrder, Position
<1>2. g.osPos <= g.real
  BY DEF InOrder
<1>3. Read(g, n) = GoForward(h, c)
  BY DEF Read
<1> HIDE DEF c
<1>4. /\ h \in Position
      /\ h.pos = g.pos /\ h.size = g.size /\ h.real = g.real
      /\ h.osPos = IF c <= g.real - g.osPos THEN g.osPos + c ELSE g.real
  BY <1>1, <1>2, OsReadFields
<1> HIDE DEF h
<1>5. /\ GoForward(h, c) \in Position
      /\ GoForward(h, c).pos = IF h.pos + c <= h.size THEN h.pos + c ELSE h.pos
      /\ GoForward(h, c).size = h.size
      /\ GoForward(h, c).osPos = h.osPos
      /\ GoForward(h, c).real = h.real
  BY <1>1, <1>4, GoForwardFields
<1> QED
  BY <1>1, <1>3, <1>4, <1>5 DEF InOrder, Agreement, Position

\* get(), of a byte the object knows of, keeps the order, and agreement.
LEMMA GetKeeps ==
  ASSUME NEW g \in Position, InOrder(g), ~Eof(g)
  PROVE  /\ Get(g) \in Position
         /\ InOrder(Get(g))
         /\ Get(g).real = g.real
         /\ Agreement(g) => Agreement(Get(g))
<1> DEFINE h == OsRead(g, 1)
<1>1. g.osPos <= g.real /\ g.pos < g.size
  BY DEF InOrder, Eof, Position
<1>2. Get(g) = GoForward(h, 1)
  BY DEF Get
<1>3. /\ h \in Position
      /\ h.pos = g.pos /\ h.size = g.size /\ h.real = g.real
      /\ h.osPos = IF 1 <= g.real - g.osPos THEN g.osPos + 1 ELSE g.real
  BY <1>1, OsReadFields
<1> HIDE DEF h
<1>4. /\ GoForward(h, 1) \in Position
      /\ GoForward(h, 1).pos = IF h.pos + 1 <= h.size THEN h.pos + 1 ELSE h.pos
      /\ GoForward(h, 1).size = h.size
      /\ GoForward(h, 1).osPos = h.osPos
      /\ GoForward(h, 1).real = h.real
  BY <1>3, GoForwardFields
<1> QED
  BY <1>1, <1>2, <1>3, <1>4 DEF InOrder, Agreement, Position

\* put() keeps the order; within the known size, agreement too.
LEMMA PutKeeps ==
  ASSUME NEW g \in Position, NEW n \in Nat, InOrder(g)
  PROVE  LET h == GoForward(OsWrite(g, n), n) IN
         /\ h \in Position
         /\ InOrder(h)
         /\ h.real <= g.real \/ h.real = g.osPos + n
         /\ Agreement(g) /\ g.pos + n <= g.size => Agreement(h)
<1> DEFINE w == OsWrite(g, n)
<1> DEFINE h == GoForward(w, n)
<1>1. /\ w \in Position
      /\ w.pos = g.pos /\ w.size = g.size /\ w.osPos = g.osPos + n
      /\ w.real = IF g.osPos + n <= g.real THEN g.real ELSE g.osPos + n
  BY OsWriteFields
<1> HIDE DEF w
<1>2. /\ h \in Position
      /\ h.pos = IF w.pos + n <= w.size THEN w.pos + n ELSE w.pos
      /\ h.size = w.size /\ h.osPos = w.osPos /\ h.real = w.real
  BY <1>1, GoForwardFields
<1> HIDE DEF h
<1>3. /\ h \in Position
      /\ InOrder(h)
      /\ h.real <= g.real \/ h.real = g.osPos + n
      /\ Agreement(g) /\ g.pos + n <= g.size => Agreement(h)
  BY <1>1, <1>2 DEF InOrder, Agreement, Position
<1> QED
  BY <1>3 DEF h, w

\* write() is put() of more, and looks up the size afterwards.
LEMMA WriteKeeps ==
  ASSUME NEW g \in Position, NEW n \in Nat, InOrder(g)
  PROVE  /\ Write(g, n) \in Position
         /\ InOrder(Write(g, n))
         /\ Write(g, n).real <= g.real \/ Write(g, n).real = g.osPos + n
         /\ Agreement(g) /\ g.pos + n <= g.size => Agreement(Write(g, n))
<1> DEFINE h == GoForward(OsWrite(g, n), n)
<1>1. /\ h \in Position
      /\ InOrder(h)
      /\ h.real <= g.real \/ h.real = g.osPos + n
      /\ Agreement(g) /\ g.pos + n <= g.size => Agreement(h)
  BY PutKeeps
<1>2. Write(g, n) = CheckedSize(h)
  BY DEF Write
<1> HIDE DEF h
<1>3. /\ CheckedSize(h) \in Position
      /\ CheckedSize(h).pos = h.pos /\ CheckedSize(h).osPos = h.osPos
      /\ CheckedSize(h).size = h.real /\ CheckedSize(h).real = h.real
  BY <1>1 DEF CheckedSize, Position
<1> QED
  BY <1>1, <1>2, <1>3 DEF InOrder, Agreement, Position

-----------------------------------------------------------------------------
(* The steps of File.                                                      *)

\* Unsigned arithmetic that leaves the range comes out above every size.
LEMMA Wraps ==
  ASSUME NEW t \in Int, -W < 2 * t, t < W, W \in Nat
  PROVE  /\ t % W \in Nat
         /\ t >= 0 => t % W = t
         /\ t < 0 => t % W = t + W
  OBVIOUS

\* What the steps that move the position have to show.
LEMMA StepSuffices ==
  ASSUME NEW g \in Position, f' = g, InOrder(g), g.real <= MaxSize,
         handle' \in {"null", "invalid", "open"}, grown' \in BOOLEAN,
         handle' = "open" /\ ~grown' => Agreement(g),
         NEW op \in {"construct", "open", "close", "refused", "seekEnd",
                     "resize", "read", "get", "write", "put"},
         NEW ok \in BOOLEAN, Answer(op, ok)
  PROVE  Inv'
  BY DEF Inv, TypeOK, Position, InSync, SeekExact, Answer, NoTarget, Agreement,
         InOrder

\* A seek to where off stands for target: the file pointer follows, or nothing
\* moves, and off is in range exactly when target is.
LEMMA SeekKeeps ==
  ASSUME Inv, NEW off \in Nat, NEW target \in Int, SeekTo(off, target),
         target >= 0 => off = target,
         target < 0 => off > MaxSize
  PROVE  Inv'
<1>1. f \in Position /\ f.size <= MaxSize /\ f.real <= MaxSize
  BY FileAssumption DEF Inv, TypeOK, Position, InOrder
<1>2. CASE InRange(f, off)
  <2>1. /\ f' = Submitted(f, off)
        /\ last' = [op |-> "seek", ok |-> TRUE, target |-> target]
        /\ grown' = FALSE /\ handle' = "open"
    BY <1>2 DEF SeekTo, Inv, TypeOK
  <2>2. target = off
    BY <1>1, <1>2, FileAssumption DEF InRange, Position
  <2>3. /\ f' \in Position
        /\ f'.pos = off /\ f'.osPos = off
        /\ f'.size = f.size /\ f'.real = f.real
    BY <1>1, <2>1 DEF Submitted, Position
  <2>4. InOrder(f')
    BY <1>1, <1>2, <2>3 DEF Inv, InOrder, InRange, Position
  <2>5. off \in 0..f.size
    BY <1>1, <1>2 DEF InRange, Position
  <2> QED
    BY <1>1, <2>1, <2>2, <2>3, <2>4, <2>5
       DEF Inv, TypeOK, Position, InSync, SeekExact, InOrder
<1>3. CASE ~InRange(f, off)
  <2>1. /\ f' = f /\ handle' = handle
        /\ last' = [op |-> "seek", ok |-> FALSE, target |-> target]
    <3>1. InRange(f, off) = FALSE
      BY <1>1, <1>3 DEF InRange, Position
    <3> QED
      BY <3>1, Zenon DEF SeekTo
  <2>3. grown' = grown
    <3>1. grown' = (grown /\ ~InRange(f, off)) /\ grown \in BOOLEAN
      BY DEF SeekTo, Inv, TypeOK
    <3> QED
      BY <1>3, <3>1, Zenon
  <2>2. target \notin 0..f.size
    BY <1>1, <1>3, FileAssumption DEF InRange, Position
  <2> QED
    BY <1>1, <2>1, <2>2, <2>3
       DEF Inv, TypeOK, Position, InSync, SeekExact, InOrder
<1> QED
  BY <1>2, <1>3

\* What a disjunction with a Boolean says.
LEMMA OrKept ==
  ASSUME NEW old \in BOOLEAN, NEW new, NEW cond, new = (old \/ cond)
  PROVE  new \in BOOLEAN /\ (~new => ~old /\ ~cond)
  BY Zenon

\* The constructors.
LEMMA InitInv == Init => Inv
<1> SUFFICES ASSUME Init PROVE Inv
  OBVIOUS
<1>1. PICK n \in 0..MaxSize :
        f = OpenedFile(IF handle = "open" THEN n ELSE 0)
  BY DEF Init
<1>2. PICK m \in Nat : f = OpenedFile(m) /\ m <= MaxSize
  BY <1>1, FileAssumption
<1>3. /\ f \in Position /\ f.pos = 0 /\ f.osPos = 0
      /\ f.size = m /\ f.real = m
  BY <1>2 DEF OpenedFile, Position
<1>4. f.real <= MaxSize /\ InOrder(f) /\ InSync
  BY <1>2, <1>3 DEF InOrder, InSync
<1>5. /\ handle \in {"null", "invalid", "open"}
      /\ grown = FALSE
      /\ last = [op |-> "construct", ok |-> TRUE, target |-> 0]
  BY DEF Init, NoTarget
<1>6. TypeOK
  <2>1. f \in [pos : Nat, size : Nat, osPos : Nat, real : Nat]
    BY <1>3 DEF Position
  <2>2. last.op = "construct" /\ last.ok = TRUE /\ last.target = 0
    BY <1>5
  <2>3. last.op \in {"construct", "open", "close", "refused", "seek", "seekEnd",
                      "resize", "read", "get", "write", "put"}
    BY <2>2
  <2>5. last.ok \in BOOLEAN
    BY <2>2, Zenon
  <2>6. last.target \in Int
    BY <2>2
  <2>4. handle \in {"null", "invalid", "open"} /\ grown \in BOOLEAN
    BY <1>5
  <2> QED
    BY <2>1, <2>3, <2>4, <2>5, <2>6 DEF TypeOK
<1>7. SeekExact
  BY <1>5 DEF SeekExact
<1> QED
  BY <1>4, <1>6, <1>7 DEF Inv

\* Every call keeps the invariant.
LEMMA NextInv == Inv /\ [Next]_vars => Inv'
<1> SUFFICES ASSUME Inv, [Next]_vars PROVE Inv'
  OBVIOUS
<1> USE FileAssumption
<1>1. /\ f \in Position /\ InOrder(f) /\ f.real <= MaxSize
      /\ handle \in {"null", "invalid", "open"} /\ grown \in BOOLEAN
      /\ handle = "open" /\ ~grown => Agreement(f)
      /\ f.pos <= MaxSize /\ f.size <= MaxSize
  BY DEF Inv, TypeOK, Position, InSync, Agreement, InOrder
<1>2. ASSUME NEW n \in Nat, n <= MaxSize
      PROVE  /\ OpenedFile(n) \in Position /\ InOrder(OpenedFile(n))
             /\ OpenedFile(n).real <= MaxSize /\ Agreement(OpenedFile(n))
             /\ Resized(f, n) \in Position /\ InOrder(Resized(f, n))
             /\ Resized(f, n).real <= MaxSize /\ Agreement(Resized(f, n))
  BY <1>2 DEF OpenedFile, Resized, Position, InOrder, Agreement
<1>3. CASE Open
  <2>1. CASE handle # "null"
    BY <1>1, <1>3, <2>1, StepSuffices DEF Open
  <2>2. CASE handle = "null"
    <3>1. PICK n \in Nat : n <= MaxSize /\ f' = OpenedFile(n)
      BY <1>3, <2>2 DEF Open
    <3> QED
      BY <1>2, <1>3, <2>2, <3>1, StepSuffices DEF Open
  <2> QED
    BY <2>1, <2>2
<1>4. CASE Close
  BY <1>1, <1>4, StepSuffices DEF Close
<1>5. CASE Refuse
  BY <1>1, <1>5, StepSuffices DEF Refuse
<1>6. ASSUME NEW off \in Offsets, SeekBegin(off)
      PROVE  Inv'
  <2>1. /\ off % W \in Nat
        /\ off >= 0 => off % W = off
        /\ off < 0 => off % W = off + W
    BY Wraps
  <2>2. off \in Int /\ -W < 2 * off
    OBVIOUS
  <2>3. off < 0 => off % W > MaxSize
    BY <2>1, <2>2
  <2> QED
    BY <1>6, <2>1, <2>2, <2>3, SeekKeeps DEF SeekBegin
<1>7. ASSUME NEW off \in Offsets, SeekCurrent(off)
      PROVE  Inv'
  <2> DEFINE t == f.pos + off
  <2>1. /\ off \in Int /\ -W < 2 * off /\ 2 * off < W /\ f.pos \in Nat
        /\ f.pos - (-off) = t
    BY <1>1 DEF Position
  <2>2. t \in Int /\ -W < 2 * t /\ t < W
    BY <1>1, <2>1
  <2>3. SeekTo(t % W, t)
    BY <1>7, <2>1 DEF SeekCurrent
  <2> HIDE DEF t
  <2>4. /\ t % W \in Nat
        /\ t >= 0 => t % W = t
        /\ t < 0 => t % W = t + W
    BY <2>2, Wraps
  <2>5. t < 0 => t % W > MaxSize
    BY <2>2, <2>4
  <2> QED
    BY <2>2, <2>3, <2>4, <2>5, SeekKeeps
<1>8. ASSUME NEW off \in Offsets, SeekEnd(off)
      PROVE  Inv'
  <2>1. CASE off < 0
    BY <1>1, <1>8, <2>1, StepSuffices DEF SeekEnd
  <2>2. CASE ~(off < 0)
    <3> DEFINE t == f.size - off
    <3>1. off \in Int /\ 2 * off < W /\ f.size \in Nat
      BY <1>1 DEF Position
    <3>2. t \in Int /\ -W < 2 * t /\ t < W
      BY <1>1, <2>2, <3>1
    <3>3. SeekTo(t % W, t)
      BY <1>8, <2>2 DEF SeekEnd
    <3> HIDE DEF t
    <3>4. /\ t % W \in Nat
          /\ t >= 0 => t % W = t
          /\ t < 0 => t % W = t + W
      BY <3>2, Wraps
    <3>5. t < 0 => t % W > MaxSize
      BY <3>2, <3>4
    <3> QED
      BY <3>2, <3>3, <3>4, <3>5, SeekKeeps
  <2> QED
    BY <2>1, <2>2
<1>9. ASSUME NEW n \in 0..MaxSize, ResizeFile(n)
      PROVE  Inv'
  <2>1. n \in Nat /\ n <= MaxSize
    OBVIOUS
  <2>2. /\ Resized(f, n) \in Position /\ InOrder(Resized(f, n))
        /\ Resized(f, n).real <= MaxSize /\ Agreement(Resized(f, n))
    BY <1>2, <2>1
  <2>3. handle' = handle
    BY <1>9 DEF ResizeFile
  <2>4. CASE f' = Resized(f, n) /\ grown' = FALSE /\ Answer("resize", TRUE)
    BY <1>1, <2>2, <2>3, <2>4, StepSuffices
  <2>5. CASE Answer("resize", FALSE) /\ UNCHANGED <<f, grown>>
    BY <1>1, <2>3, <2>5, StepSuffices
  <2> QED
    BY <1>9, <2>4, <2>5 DEF ResizeFile
<1>10. CASE ClearFile
  BY <1>9, <1>10 DEF ClearFile
<1>11. ASSUME NEW n \in Lengths, ReadFile(n)
       PROVE  Inv'
  <2>1. /\ Read(f, n) \in Position /\ InOrder(Read(f, n))
        /\ Read(f, n).real = f.real
        /\ Agreement(f) => Agreement(Read(f, n))
    BY <1>1, ReadKeeps
  <2> QED
    BY <1>1, <1>11, <2>1, StepSuffices DEF ReadFile
<1>12. CASE GetByte
  <2>1. CASE Eof(f)
    BY <1>1, <1>12, <2>1, StepSuffices DEF GetByte
  <2>2. CASE ~Eof(f)
    <3>1. /\ Get(f) \in Position /\ InOrder(Get(f)) /\ Get(f).real = f.real
          /\ Agreement(f) => Agreement(Get(f))
      BY <1>1, <2>2, GetKeeps
    <3> QED
      BY <1>1, <1>12, <2>2, <3>1, StepSuffices DEF GetByte
  <2> QED
    BY <2>1, <2>2
<1>13. ASSUME NEW n \in Nat \ {0}, handle = "open", handle' = handle,
              f.osPos + n <= MaxSize, WriteFails(n)
       PROVE  Inv'
  <2>1. PICK part \in 0..(n - 1) :
          f' = OsWrite(f, part) /\ grown' = (grown \/ part > 0)
    BY <1>13 DEF WriteFails
  <2>2. part \in Nat
    OBVIOUS
  <2>3. /\ OsWrite(f, part) \in Position
        /\ OsWrite(f, part).pos = f.pos /\ OsWrite(f, part).size = f.size
        /\ OsWrite(f, part).osPos = f.osPos + part
        /\ OsWrite(f, part).real = IF f.osPos + part <= f.real THEN f.real
                                   ELSE f.osPos + part
    BY <1>1, <2>2, OsWriteFields
  <2> DEFINE g == OsWrite(f, part)
  <2> HIDE DEF g
  <2>4. /\ InOrder(g) /\ g.real <= MaxSize
        /\ part = 0 /\ Agreement(f) => Agreement(g)
    BY <1>1, <1>13, <2>2, <2>3 DEF InOrder, Agreement, Position, g
  <2>5. grown' \in BOOLEAN /\ (~grown' => ~grown /\ part = 0)
    <3>1. grown' \in BOOLEAN /\ (~grown' => ~grown /\ ~(part > 0))
      BY <1>1, <2>1, OrKept
    <3> QED
      BY <2>2, <3>1
  <2>6. Answer("write", FALSE)
    BY <1>13 DEF WriteFails
  <2> QED
    BY <1>1, <1>13, <2>1, <2>3, <2>4, <2>5, <2>6, StepSuffices DEF g
<1>14. ASSUME NEW n \in Lengths, WriteFile(n)
       PROVE  Inv'
  <2>1. n \in Nat \ {0} /\ handle = "open" /\ handle' = handle
        /\ f.osPos + n <= MaxSize
    BY <1>14 DEF WriteFile
  <2>2. CASE WriteFails(n)
    BY <1>13, <2>1, <2>2
  <2>3. CASE /\ f' = Write(f, n)
             /\ grown' = (grown \/ f.pos + n > f.size)
             /\ Answer("write", TRUE)
    <3>1. /\ Write(f, n) \in Position /\ InOrder(Write(f, n))
          /\ Write(f, n).real <= f.real \/ Write(f, n).real = f.osPos + n
          /\ Agreement(f) /\ f.pos + n <= f.size => Agreement(Write(f, n))
      BY <1>1, <2>1, WriteKeeps
    <3> DEFINE g == Write(f, n)
    <3> HIDE DEF g
    <3>2. g.real <= MaxSize
      BY <1>1, <2>1, <3>1 DEF Position, g
    <3>3. grown' \in BOOLEAN /\ (~grown' => ~grown /\ f.pos + n <= f.size)
      <4>1. grown' \in BOOLEAN /\ (~grown' => ~grown /\ ~(f.pos + n > f.size))
        BY <1>1, <2>3, OrKept
      <4> QED
        BY <1>1, <2>1, <4>1 DEF Position
    <3> QED
      BY <1>1, <2>1, <2>3, <3>1, <3>2, <3>3, StepSuffices DEF g
  <2> QED
    BY <1>14, <2>2, <2>3 DEF WriteFile
<1>15. CASE PutByte
  <2>1. handle = "open" /\ handle' = handle /\ f.osPos + 1 <= MaxSize
    BY <1>15 DEF PutByte
  <2>2. CASE WriteFails(1)
    BY <1>13, <2>1, <2>2
  <2>3. CASE /\ f' = Put(f)
             /\ grown' = (grown \/ f.pos + 1 > f.size)
             /\ Answer("put", TRUE)
    <3>1. /\ Put(f) \in Position /\ InOrder(Put(f))
          /\ Put(f).real <= f.real \/ Put(f).real = f.osPos + 1
          /\ Agreement(f) /\ f.pos + 1 <= f.size => Agreement(Put(f))
      BY <1>1, PutKeeps DEF Put
    <3> DEFINE g == Put(f)
    <3> HIDE DEF g
    <3>2. g.real <= MaxSize
      BY <1>1, <2>1, <3>1 DEF Position, g
    <3>3. grown' \in BOOLEAN /\ (~grown' => ~grown /\ f.pos + 1 <= f.size)
      <4>1. grown' \in BOOLEAN /\ (~grown' => ~grown /\ ~(f.pos + 1 > f.size))
        BY <1>1, <2>3, OrKept
      <4> QED
        BY <1>1, <2>1, <4>1 DEF Position
    <3> QED
      BY <1>1, <2>1, <2>3, <3>1, <3>2, <3>3, StepSuffices DEF g
  <2> QED
    BY <1>15, <2>2, <2>3 DEF PutByte
<1>16. CASE UNCHANGED vars
  BY <1>16 DEF vars, Inv, TypeOK, InOrder, InSync, SeekExact
<1> QED
  BY <1>3, <1>4, <1>5, <1>6, <1>7, <1>8, <1>9, <1>10, <1>11, <1>12, <1>14,
     <1>15, <1>16 DEF Next

\* The invariant holds throughout.
THEOREM Invariant == Spec => []Inv
<1>1. Init => Inv
  BY InitInv
<1>2. Inv /\ [Next]_vars => Inv'
  BY NextInv
<1> QED
  BY <1>1, <1>2, PTL DEF Spec

\* Every call, refused and failing ones too, leaves the object well typed.
THEOREM TypeCorrect == Spec => []TypeOK
<1>1. Inv => TypeOK
  BY DEF Inv
<1> QED
  BY <1>1, Invariant, PTL

\* The subtraction of read() does not wrap, and the known size is no more than
\* the real one.
THEOREM Underflow == Spec => []NoUnderflow
<1>1. Inv => NoUnderflow
  BY DEF Inv, InOrder, NoUnderflow
<1> QED
  BY <1>1, Invariant, PTL

\* tell() is never ahead of the place where the next byte is read.
THEOREM Lag == Spec => []NeverAhead
<1>1. Inv => NeverAhead
  BY DEF Inv, InOrder, NeverAhead
<1> QED
  BY <1>1, Invariant, PTL

\* Only a write past the known end parts tell() from the file pointer, and only
\* until the next seek.
THEOREM Sync == Spec => []InSync
<1>1. Inv => InSync
  BY DEF Inv
<1> QED
  BY <1>1, Invariant, PTL

\* A seek succeeds exactly when it aims into the file.
THEOREM Seek == Spec => []SeekExact
<1>1. Inv => SeekExact
  BY DEF Inv
<1> QED
  BY <1>1, Invariant, PTL
=============================================================================
