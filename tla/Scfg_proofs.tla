---------------------------- MODULE Scfg_proofs ----------------------------
(***************************************************************************)
(* Proofs about Scfg: types, that an object without changes is saved, where*)
(* a flush writes, and that the storage implements Store, for any ids,     *)
(* values, secrets and lengths, any number of entries, and wherever a call *)
(* fails or the process ends.                                              *)
(***************************************************************************)
EXTENDS Scfg, SequenceTheorems, WellFoundedInduction, TLAPS

Position == [pos : Nat, size : Nat, osPos : Nat, real : Nat]

\* What the object knows of the file is behind what is.
InOrder(g) ==
  /\ g.pos <= g.size /\ g.size <= g.real
  /\ g.pos <= g.osPos /\ g.osPos <= g.real

\* s is a count and ciphers, as many unless they are more than can be counted.
Cipher == [entry : Entry, sec : Secret]
Whole(s) ==
  /\ s \in Seq(Chunk) /\ s # <<>>
  /\ s[1] = CountOf(Uint32(Len(s) - 1))
  /\ \A k \in 2..Len(s) : s[k] \in Cipher

\* Without an object there is nothing in memory.
NothingKept == pc \in {"gone", "make"} => entries = <<>> /\ ~ok /\ ~changes

\* Forty-four bytes begin with a count, and a checksum is that of a version, that
\* of nothing, or torn.
FirstIsCount ==
  f.real >= HeaderSize => body # <<>> /\ body[1] \in [count : 0..MaxEntries]
SumWhole == sum = <<>> \/ sum = <<Torn>> \/ Whole(sum)

Loading == pc \in {"loadChecksum", "loadEntries"}
Saving == pc \in {"resize", "writeCount", "writeEntries"}

\* What has been loaded had the signature.
Headed == ok \/ Loading => head

\* A file can be loaded from its beginning only: the object has not loaded then, and
\* what it has in memory are entries to be saved, no more than it may append.
Fresh ==
  pc \notin {"gone", "make"} /\ (f.osPos = 0 \/ Loading) =>
    /\ ~ok
    /\ changes \/ entries = <<>>
    /\ Len(entries) <= MaxEntries

\* The places of a load: the header is read, and then the checksum compared.
HeaderRead ==
  Loading =>
    /\ f.real >= HeaderSize /\ f.size >= HeaderSize /\ f.osPos >= CountOffset
    /\ count = body[1].count
    /\ pc = "loadChecksum" => f.pos = HeaderSize
    /\ pc = "loadEntries" => sum = body

\* The first k entries are longer, each of them, than what is before it.
Longer(es, k) ==
  \A j \in 1..k : EntrySize(es[j].value) > 4 + EntryBytesUpTo(es, j - 1)

\* The places of a flush: what is written, what is left, and where the object thinks
\* it is; tell() stays at 40 until an entry is no longer than what is before it.
Written ==
  pc = "writeEntries" =>
    /\ body # <<>> /\ body[1] = CountOf(Uint32(Len(entries)))
    /\ Len(body) + Len(left) = Len(entries) + 1
    /\ \A k \in 2..Len(body) : body[k] = Encrypted(entries[k - 1], sec)
    /\ \A k \in 1..Len(left) : left[k] = entries[(Len(body) - 1) + k]

Placed ==
  pc = "writeEntries" =>
    /\ f.size = f.real /\ f.osPos = f.real
    /\ f.real = HeaderSize + EntryBytesUpTo(entries, Len(body) - 1)
    /\ f.pos >= CountOffset
    /\ f.pos = CountOffset => Longer(entries, Len(body) - 1)

ToSave ==
  /\ Saving => ok /\ changes
  /\ pc \in {"resize", "writeCount"} => left = entries
  /\ pc = "writeCount" => body = <<>> /\ f = Resized(f, CountOffset)

\* At every place of every call.
Saved ==
  ok /\ ~changes =>
    \/ body = Contents(entries, sec)
    \/ /\ Len(Tail(body)) > MaxEntries
       /\ Counted(Tail(body)) = Tail(Contents(entries, sec))

IInv ==
  /\ TypeOK
  /\ InOrder(f)
  /\ NothingKept /\ FirstIsCount /\ SumWhole /\ Headed
  /\ Fresh /\ HeaderRead
  /\ ToSave /\ Written /\ Placed /\ Saved

-----------------------------------------------------------------------------
(* Reads, writes and hashes of a file, as far as the invariant needs them. *)

LEMMA ReadFields ==
  ASSUME NEW g \in Position, NEW n \in Nat, InOrder(g)
  PROVE  /\ Read(g, n) \in Position
         /\ InOrder(Read(g, n))
         /\ Read(g, n).real = g.real /\ Read(g, n).size = g.size
         /\ Read(g, n).osPos >= g.osPos /\ Read(g, n).pos >= g.pos
<1> DEFINE c == ReadCount(g, n)
           o == Smaller(c, g.real - g.osPos)
<1>1. c \in Nat /\ c <= g.size - g.pos
  BY DEF ReadCount, Smaller, InOrder, Position
<1> HIDE DEF c
<1>2. o \in Nat /\ o <= g.real - g.osPos /\ (o = c \/ o = g.real - g.osPos)
  BY <1>1 DEF Smaller, InOrder, Position
<1> HIDE DEF o
<1>3. Read(g, n) = [pos |-> g.pos + c, size |-> g.size, osPos |-> g.osPos + o,
                    real |-> g.real]
  <2>1. OsRead(g, c) = [pos |-> g.pos, size |-> g.size, osPos |-> g.osPos + o,
                        real |-> g.real]
    BY DEF OsRead, OsReads, o, Position
  <2>2. InRange(OsRead(g, c), g.pos + c)
    BY <1>1, <2>1 DEF InRange, Position
  <2> QED BY <2>1, <2>2 DEF Read, GoForward, c
<1> QED BY <1>1, <1>2, <1>3 DEF Position, InOrder

\* A header is read from the beginning.
LEMMA HeaderFields ==
  ASSUME NEW g \in Position, InOrder(g), g.osPos = 0,
         BytesRead(g, HeaderSize) = HeaderSize
  PROVE  /\ g.real >= HeaderSize /\ g.size >= HeaderSize
         /\ Read(g, HeaderSize).pos = HeaderSize
         /\ Read(g, HeaderSize).osPos = HeaderSize
<1>1. g.pos = 0 /\ g.size <= g.real
  BY DEF InOrder, Position
<1>2. ReadCount(g, HeaderSize) = HeaderSize /\ g.size >= HeaderSize
  BY <1>1 DEF BytesRead, OsReads, ReadCount, Smaller, HeaderSize, Position
<1>3. OsRead(g, HeaderSize) = [pos |-> 0, size |-> g.size, osPos |-> HeaderSize,
                               real |-> g.real]
  BY <1>1, <1>2 DEF OsRead, OsReads, Smaller, HeaderSize, Position
<1> QED BY <1>1, <1>2, <1>3 DEF Read, GoForward, InRange, HeaderSize, Position

LEMMA SubmittedFields ==
  ASSUME NEW g \in Position, NEW n \in Nat
  PROVE  /\ Submitted(g, n) \in Position
         /\ Submitted(g, n).pos = n /\ Submitted(g, n).osPos = n
         /\ Submitted(g, n).size = g.size /\ Submitted(g, n).real = g.real
BY DEF Submitted, Position

\* n bytes of entries are read, from behind the header.
LEMMA EntriesRead ==
  ASSUME NEW g \in Position, InOrder(g), g.size >= HeaderSize, NEW n \in Nat
  PROVE  LET h == Read(Submitted(g, HeaderSize), n) IN
         /\ h \in Position /\ InOrder(h) /\ h.real = g.real
         /\ h.osPos >= CountOffset
<1> DEFINE s == Submitted(g, HeaderSize)
           h == Read(s, n)
<1>1. /\ s \in Position /\ s.pos = HeaderSize /\ s.osPos = HeaderSize
      /\ s.size = g.size /\ s.real = g.real
  BY SubmittedFields DEF HeaderSize
<1> HIDE DEF s
<1>2. InOrder(s)
  BY <1>1 DEF InOrder, HeaderSize, Position
<1>3. h \in Position /\ InOrder(h) /\ h.real = s.real /\ h.osPos >= s.osPos
  BY <1>1, <1>2, ReadFields
<1> HIDE DEF h
<1>4. h \in Position /\ InOrder(h) /\ h.real = g.real /\ h.osPos >= CountOffset
  BY <1>1, <1>3 DEF Position, HeaderSize, CountOffset
<1> QED BY <1>4 DEF h, s

LEMMA OsWriteFields ==
  ASSUME NEW g \in Position, NEW n \in Nat, InOrder(g)
  PROVE  /\ OsWrite(g, n) \in Position
         /\ InOrder(OsWrite(g, n))
         /\ OsWrite(g, n).pos = g.pos /\ OsWrite(g, n).size = g.size
         /\ OsWrite(g, n).osPos = g.osPos + n
         /\ OsWrite(g, n).real = IF g.osPos + n <= g.real THEN g.real ELSE g.osPos + n
<1>1. CASE g.osPos + n <= g.real
  BY <1>1 DEF OsWrite, Position, InOrder
<1>2. CASE ~(g.osPos + n <= g.real)
  BY <1>2 DEF OsWrite, Position, InOrder
<1> QED BY <1>1, <1>2

LEMMA WriteFields ==
  ASSUME NEW g \in Position, NEW n \in Nat, InOrder(g)
  PROVE  /\ Write(g, n) \in Position
         /\ InOrder(Write(g, n))
         /\ Write(g, n).pos = IF g.pos + n <= g.size THEN g.pos + n ELSE g.pos
         /\ Write(g, n).osPos = g.osPos + n
         /\ Write(g, n).real = IF g.osPos + n <= g.real THEN g.real ELSE g.osPos + n
         /\ Write(g, n).size = Write(g, n).real
<1> DEFINE w == OsWrite(g, n)
<1>1. /\ w \in Position /\ InOrder(w)
      /\ w.pos = g.pos /\ w.size = g.size /\ w.osPos = g.osPos + n
      /\ w.real = IF g.osPos + n <= g.real THEN g.real ELSE g.osPos + n
  BY OsWriteFields
<1> HIDE DEF w
<1>2. CASE g.pos + n <= g.size
  <2>1. GoForward(w, n) = [pos |-> g.pos + n, size |-> g.size, osPos |-> g.osPos + n,
                           real |-> w.real]
    BY <1>1, <1>2 DEF GoForward, InRange, Position
  <2>2. Write(g, n) = [pos |-> g.pos + n, size |-> w.real, osPos |-> g.osPos + n,
                       real |-> w.real]
    BY <2>1 DEF Write, CheckedSize, w
  <2> QED BY <1>1, <1>2, <2>2 DEF Position, InOrder
<1>3. CASE ~(g.pos + n <= g.size)
  <2>1. GoForward(w, n) = w
    BY <1>1, <1>3 DEF GoForward, InRange, Position
  <2>2. Write(g, n) = [pos |-> g.pos, size |-> w.real, osPos |-> g.osPos + n,
                       real |-> w.real]
    BY <1>1, <2>1 DEF Write, CheckedSize, w, Position
  <2> QED BY <1>1, <1>3, <2>2 DEF Position, InOrder
<1> QED BY <1>2, <1>3

\* blake3_file() seeks to the offset, or trusts tell().
LEMMA HashStartFields ==
  ASSUME NEW g \in Position, InOrder(g), g.pos # CountOffset => CountOffset <= g.size
  PROVE  /\ HashStart(g, CountOffset) \in Position
         /\ InOrder(HashStart(g, CountOffset))
         /\ HashStart(g, CountOffset).real = g.real
         /\ HashStart(g, CountOffset).size = g.size
         /\ HashStart(g, CountOffset).pos = CountOffset
         /\ HashStart(g, CountOffset).osPos =
              IF g.pos = CountOffset THEN g.osPos ELSE CountOffset
<1>1. CASE g.pos = CountOffset
  BY <1>1 DEF HashStart, Tell
<1>2. CASE g.pos # CountOffset
  <2>1. HashStart(g, CountOffset) = Submitted(g, CountOffset) /\ CountOffset \in Nat
    BY <1>2 DEF HashStart, Tell, CountOffset
  <2> DEFINE h == HashStart(g, CountOffset)
  <2>2. /\ h \in Position /\ h.pos = CountOffset /\ h.osPos = CountOffset
        /\ h.size = g.size /\ h.real = g.real
    BY <2>1, SubmittedFields
  <2> HIDE DEF h
  <2>3. /\ InOrder(h)
        /\ h.osPos = IF g.pos = CountOffset THEN g.osPos ELSE CountOffset
    BY <1>2, <2>2 DEF Position, InOrder
  <2> QED BY <2>2, <2>3 DEF h
<1> QED BY <1>1, <1>2

LEMMA HashEndFields ==
  ASSUME NEW g \in Position, InOrder(g), g.pos # CountOffset => CountOffset <= g.size
  PROVE  /\ HashEnd(g, CountOffset) \in Position
         /\ InOrder(HashEnd(g, CountOffset))
         /\ HashEnd(g, CountOffset).real = g.real
         /\ HashEnd(g, CountOffset).size = g.size
         /\ HashEnd(g, CountOffset).osPos >= CountOffset
<1> DEFINE h == HashStart(g, CountOffset)
<1>1. /\ h \in Position /\ InOrder(h) /\ h.real = g.real /\ h.size = g.size
      /\ h.osPos >= CountOffset
  <2>1. g.pos = CountOffset => g.osPos >= CountOffset
    BY DEF InOrder
  <2> QED BY <2>1, HashStartFields DEF CountOffset
<1>2. \/ HashEnd(g, CountOffset) = Read(h, HashChunk)
      \/ HashEnd(g, CountOffset) = Read(h, h.size)
  BY DEF HashEnd
<1> HIDE DEF h
<1>3. ASSUME NEW n \in Nat
      PROVE  /\ Read(h, n) \in Position /\ InOrder(Read(h, n))
             /\ Read(h, n).real = g.real /\ Read(h, n).size = g.size
             /\ Read(h, n).osPos >= CountOffset
  <2>1. /\ Read(h, n) \in Position /\ InOrder(Read(h, n))
        /\ Read(h, n).real = g.real /\ Read(h, n).size = g.size
        /\ Read(h, n).osPos >= h.osPos
    BY <1>1, ReadFields
  <2> QED BY <1>1, <2>1 DEF CountOffset, Position
<1>4. HashChunk \in Nat /\ h.size \in Nat
  BY <1>1 DEF HashChunk, Position
<1> QED BY <1>2, <1>3, <1>4

LEMMA OpenedFields ==
  ASSUME NEW n \in Nat
  PROVE  /\ OpenedFile(n) \in Position /\ InOrder(OpenedFile(n))
         /\ OpenedFile(n).osPos = 0 /\ OpenedFile(n).real = n
BY DEF OpenedFile, Position, InOrder

LEMMA ResizedFields ==
  ASSUME NEW n \in Nat
  PROVE  /\ Resized(f, n) \in Position /\ InOrder(Resized(f, n))
         /\ Resized(f, n).osPos = n /\ Resized(f, n).real = n
         /\ Resized(f, n).pos = n /\ Resized(f, n).size = n
BY DEF Resized, Position, InOrder

-----------------------------------------------------------------------------
(* Sums.                                                                   *)

\* A set of naturals has a least one.
LEMMA LeastNumber ==
  ASSUME NEW S \in SUBSET Nat, S # {}
  PROVE  \E x \in S : \A y \in S : x <= y
<1>1. PICK x \in S : \A y \in S : ~(<<y, x>> \in OpToRel(<, Nat))
  BY NatLessThanWellFounded, WFMin
<1>2. ASSUME NEW y \in S PROVE x <= y
  <2>1. <<y, x>> \in Nat \X Nat
    OBVIOUS
  <2>2. ~(y < x)
    BY <1>1, <2>1 DEF OpToRel
  <2> QED BY <2>2
<1> QED BY <1>2

\* The sums of the first numbers of s: g is what the equation of SumUpTo says.
Sums(g, s, n) == g = [k \in 0..n |-> IF k = 0 THEN 0 ELSE g[k - 1] + s[k]]

LEMMA SumsExist ==
  ASSUME NEW s \in Seq(Nat)
  PROVE  \E g : Sums(g, s, Len(s))
<1> DEFINE Bad == {n \in 0..Len(s) : \A g : ~Sums(g, s, n)}
<1>1. Bad = {}
  <2> SUFFICES ASSUME Bad # {} PROVE FALSE
    OBVIOUS
  <2>1. PICK n \in Bad : \A m \in Bad : n <= m
    <3>1. Bad \in SUBSET Nat
      OBVIOUS
    <3> HIDE DEF Bad
    <3> QED BY <3>1, LeastNumber
  <2>2. n \in 0..Len(s) /\ \A g : ~Sums(g, s, n)
    OBVIOUS
  <2>3. CASE n = 0
    <3> DEFINE h == [k \in 0..0 |-> 0]
    <3>1. \A k \in 0..0 : k = 0
      OBVIOUS
    <3>2. h = [k \in 0..0 |-> IF k = 0 THEN 0 ELSE h[k - 1] + s[k]]
      BY <3>1
    <3>3. Sums(h, s, n)
      BY <2>3, <3>2 DEF Sums
    <3> HIDE DEF h
    <3> QED BY <2>2, <3>3
  <2>4. CASE n # 0
    <3>1. n - 1 \in 0..Len(s) /\ ~(n <= n - 1) /\ n \in Nat
      BY <2>2, <2>4
    <3>2. PICK g : Sums(g, s, n - 1)
      BY <2>1, <3>1
    <3>3. g = [k \in 0..(n - 1) |-> IF k = 0 THEN 0 ELSE g[k - 1] + s[k]]
      BY <3>2 DEF Sums
    <3> DEFINE h == [k \in 0..n |-> IF k = n THEN g[n - 1] + s[n] ELSE g[k]]
    <3>4. ASSUME NEW k \in 0..n
          PROVE  h[k] = IF k = 0 THEN 0 ELSE h[k - 1] + s[k]
      <4>1. CASE k = n
        <5>1. k - 1 \in 0..n /\ k - 1 # n
          BY <2>4, <3>1, <4>1
        <5>2. h[k - 1] = g[k - 1] /\ h[k] = g[n - 1] + s[n]
          BY <4>1, <5>1
        <5> QED BY <2>4, <4>1, <5>2
      <4>2. CASE k # n
        <5>1. k \in 0..(n - 1)
          BY <3>1, <4>2
        <5>2. g[k] = IF k = 0 THEN 0 ELSE g[k - 1] + s[k]
          <6> HIDE DEF h
          <6> QED BY <3>3, <5>1
        <5>3. h[k] = g[k]
          BY <4>2
        <5>4. CASE k = 0
          BY <5>2, <5>3, <5>4
        <5>5. CASE k # 0
          <6>1. k - 1 \in 0..n /\ k - 1 # n
            BY <3>1, <5>1, <5>5
          <6>2. h[k - 1] = g[k - 1]
            BY <6>1
          <6> QED BY <5>2, <5>3, <5>5, <6>2
        <5> QED BY <5>4, <5>5
      <4> QED BY <4>1, <4>2
    <3>5. Sums(h, s, n)
      BY <3>4 DEF Sums
    <3> HIDE DEF h
    <3> QED BY <2>2, <3>5
  <2> QED BY <2>3, <2>4
<1>2. Len(s) \in 0..Len(s)
  BY LenProperties
<1> QED BY <1>1, <1>2

LEMMA SumFields ==
  ASSUME NEW s \in Seq(Nat)
  PROVE  /\ SumUpTo(s, 0) = 0
         /\ \A n \in 1..Len(s) : SumUpTo(s, n) = SumUpTo(s, n - 1) + s[n]
         /\ \A n \in 0..Len(s) : SumUpTo(s, n) \in Nat
<1> DEFINE F == CHOOSE g : Sums(g, s, Len(s))
<1>1. Sums(F, s, Len(s))
  BY SumsExist
<1>2. \A n : SumUpTo(s, n) = F[n]
  BY DEF SumUpTo, Sums
<1> HIDE DEF F
<1>3. Len(s) \in Nat /\ \A k \in 1..Len(s) : s[k] \in Nat
  BY LenProperties, ElementOfSeq
<1>4. \A k \in 0..Len(s) : F[k] = IF k = 0 THEN 0 ELSE F[k - 1] + s[k]
  BY <1>1 DEF Sums
<1> DEFINE Bad == {n \in 0..Len(s) : F[n] \notin Nat}
<1>5. Bad = {}
  <2> SUFFICES ASSUME Bad # {} PROVE FALSE
    OBVIOUS
  <2>1. PICK n \in Bad : \A m \in Bad : n <= m
    <3>1. Bad \in SUBSET Nat
      OBVIOUS
    <3> HIDE DEF Bad
    <3> QED BY <3>1, LeastNumber
  <2>2. n \in 0..Len(s) /\ F[n] \notin Nat
    OBVIOUS
  <2>3. n # 0
    BY <1>4, <2>2
  <2>4. n - 1 \in 0..Len(s) /\ ~(n <= n - 1) /\ n \in 1..Len(s)
    BY <1>3, <2>2, <2>3
  <2>5. F[n - 1] \in Nat
    BY <2>1, <2>4
  <2>6. F[n] = F[n - 1] + s[n]
    BY <1>4, <2>2, <2>3
  <2>7. s[n] \in Nat
    BY <1>3, <2>4
  <2>8. F[n] \in Nat
    BY <2>5, <2>6, <2>7
  <2> QED BY <2>2, <2>8
<1>6. \A n \in 1..Len(s) : n \in 0..Len(s) /\ n # 0
  BY <1>3
<1>7. 0 \in 0..Len(s)
  BY <1>3
<1>8. \A n \in 1..Len(s) : F[n] = F[n - 1] + s[n]
  BY <1>4, <1>6
<1> QED BY <1>2, <1>4, <1>5, <1>7, <1>8

LEMMA Shifted ==
  ASSUME NEW n \in Nat, NEW a \in Nat, NEW m \in Nat, NEW x \in Nat, NEW y \in Nat,
         1 <= n, n <= m, m <= x, m + a <= y
  PROVE  /\ n - 1 \in 0..m /\ ~(n <= n - 1) /\ n \in 1..m /\ n \in 1..x
         /\ n + a \in 1..y /\ (n - 1) + a = (n + a) - 1 /\ n - 1 \in 0..x
OBVIOUS

\* A sum depends on the numbers that are summed, and moves with them.
LEMMA SumMoves ==
  ASSUME NEW s \in Seq(Nat), NEW t \in Seq(Nat), NEW a \in Nat,
         NEW m \in Nat, m <= Len(t), m + a <= Len(s),
         \A k \in 1..m : t[k] = s[k + a]
  PROVE  SumUpTo(s, m + a) = SumUpTo(s, a) + SumUpTo(t, m)
<1> DEFINE Bad == {n \in 0..m : SumUpTo(s, n + a) # SumUpTo(s, a) + SumUpTo(t, n)}
<1>1. Len(s) \in Nat /\ Len(t) \in Nat
  BY LenProperties
<1>2. Bad = {}
  <2> SUFFICES ASSUME Bad # {} PROVE FALSE
    OBVIOUS
  <2>1. PICK n \in Bad : \A k \in Bad : n <= k
    <3>1. Bad \in SUBSET Nat
      BY <1>1
    <3> HIDE DEF Bad
    <3> QED BY <3>1, LeastNumber
  <2>2. n \in 0..m /\ SumUpTo(s, n + a) # SumUpTo(s, a) + SumUpTo(t, n)
    OBVIOUS
  <2>3. a \in 0..Len(s)
    BY <1>1
  <2>4. SumUpTo(s, a) \in Nat
    BY <2>3, SumFields
  <2>5. n # 0
    <3> SUFFICES ASSUME n = 0 PROVE FALSE
      OBVIOUS
    <3>1. n + a = a /\ SumUpTo(t, n) = 0
      BY <1>1, SumFields
    <3> QED BY <2>2, <2>4, <3>1
  <2>6. /\ n - 1 \in 0..m /\ ~(n <= n - 1) /\ n \in 1..m /\ n \in 1..Len(t)
        /\ n + a \in 1..Len(s) /\ (n - 1) + a = (n + a) - 1 /\ n - 1 \in 0..Len(t)
    <3>1. n \in Nat /\ 1 <= n /\ n <= m
      BY <2>2, <2>5
    <3> QED BY <1>1, <3>1, Shifted
  <2>7. SumUpTo(s, (n - 1) + a) = SumUpTo(s, a) + SumUpTo(t, n - 1)
    BY <2>1, <2>6
  <2>8. SumUpTo(t, n) = SumUpTo(t, n - 1) + t[n]
    BY <2>6, SumFields
  <2>9. SumUpTo(s, n + a) = SumUpTo(s, (n + a) - 1) + s[n + a]
    BY <2>6, SumFields
  <2>10. s[n + a] = t[n] /\ t[n] \in Nat /\ SumUpTo(t, n - 1) \in Nat
    BY <2>6, SumFields, ElementOfSeq
  <2>11. SumUpTo(s, n + a) = (SumUpTo(s, a) + SumUpTo(t, n - 1)) + t[n]
    BY <2>6, <2>7, <2>9, <2>10
  <2> HIDE DEF Bad
  <2>12. SumUpTo(s, n + a) = SumUpTo(s, a) + SumUpTo(t, n)
    BY <2>4, <2>8, <2>10, <2>11
  <2> QED BY <2>2, <2>12
<1>3. m \in 0..m
  OBVIOUS
<1> QED BY <1>2, <1>3

-----------------------------------------------------------------------------
(* Entries and what is in the file.                                        *)

LEMMA Lengths ==
  ASSUME NEW e \in Entry
  PROVE  EntrySize(e.value) \in Nat /\ EntrySize(e.value) > 0
<1>1. e.value \in [bytes : Nat, counted : Nat]
  BY ScfgAssumption DEF Entry
<1>2. e.value.counted \in Nat
  BY <1>1
<1> QED BY <1>2 DEF EntrySize, CipherSize, TagSize

\* The three kinds of chunks differ.
LEMMA Kinds ==
  /\ Torn \notin Cipher /\ ~IsEntry(Torn)
  /\ \A n : CountOf(n) # Torn /\ ~IsEntry(CountOf(n))
  /\ \A c \in Cipher : IsEntry(c) /\ c.entry \in Entry
<1>1. DOMAIN Torn = {"torn"} /\ \A c \in Cipher : DOMAIN c = {"entry", "sec"}
  BY DEF Torn, Cipher
<1>2. \A n : DOMAIN CountOf(n) = {"count"}
  BY DEF CountOf
<1>3. \A c \in Cipher : c.entry \in Entry
  BY DEF Cipher
<1> QED BY <1>1, <1>2, <1>3 DEF IsEntry

LEMMA ChunkSizes ==
  /\ \A n : ChunkSize(CountOf(n)) = 4
  /\ \A c \in Cipher : ChunkSize(c) = EntrySize(c.entry.value)
  /\ \A c \in Chunk : ChunkSize(c) \in Nat
<1>1. \A n : ChunkSize(CountOf(n)) = 4
  BY Kinds DEF ChunkSize
<1>2. \A c \in Cipher : ChunkSize(c) = EntrySize(c.entry.value) /\ ChunkSize(c) \in Nat
  BY Kinds, Lengths DEF ChunkSize
<1>3. ChunkSize(Torn) = 1
  BY Kinds DEF ChunkSize
<1>4. ASSUME NEW c \in [count : 0..MaxEntries] PROVE ChunkSize(c) \in Nat
  <2>1. c = CountOf(c.count)
    BY DEF CountOf
  <2> QED BY <1>1, <2>1
<1> QED BY <1>1, <1>2, <1>3, <1>4 DEF Chunk, Cipher

LEMMA BytesFields ==
  ASSUME NEW chunks \in Seq(Chunk)
  PROVE  \A n \in 0..Len(chunks) : BytesUpTo(chunks, n) \in Nat
<1> DEFINE s == [k \in DOMAIN chunks |-> ChunkSize(chunks[k])]
<1>1. DOMAIN chunks = 1..Len(chunks) /\ Len(chunks) \in Nat
  OBVIOUS
<1>2. \A k \in 1..Len(chunks) : ChunkSize(chunks[k]) \in Nat
  BY ElementOfSeq, ChunkSizes
<1>3. s \in Seq(Nat) /\ Len(s) = Len(chunks)
  BY <1>1, <1>2
<1> HIDE DEF s
<1> QED BY <1>3, SumFields DEF BytesUpTo, s

LEMMA EntryBytesFields ==
  ASSUME NEW es \in Seq(Entry)
  PROVE  /\ EntryBytesUpTo(es, 0) = 0
         /\ \A n \in 1..Len(es) :
              EntryBytesUpTo(es, n) = EntryBytesUpTo(es, n - 1) + EntrySize(es[n].value)
         /\ \A n \in 0..Len(es) : EntryBytesUpTo(es, n) \in Nat
<1> DEFINE s == [k \in DOMAIN es |-> EntrySize(es[k].value)]
<1>1. DOMAIN es = 1..Len(es) /\ Len(es) \in Nat
  OBVIOUS
<1>2. \A k \in 1..Len(es) : EntrySize(es[k].value) \in Nat
  BY ElementOfSeq, Lengths
<1>3. /\ s \in Seq(Nat) /\ Len(s) = Len(es)
      /\ \A k \in 1..Len(es) : s[k] = EntrySize(es[k].value)
  BY <1>1, <1>2
<1> HIDE DEF s
<1>4. \A n : EntryBytesUpTo(es, n) = SumUpTo(s, n)
  BY DEF EntryBytesUpTo, s
<1> QED BY <1>3, <1>4, SumFields

\* The bytes of a count and entries.
LEMMA BytesOfVersion ==
  ASSUME NEW b \in Seq(Chunk), b # <<>>, NEW n, b[1] = CountOf(n),
         NEW es \in Seq(Entry), NEW x \in Secret, Len(b) <= Len(es) + 1,
         \A k \in 2..Len(b) : b[k] = Encrypted(es[k - 1], x)
  PROVE  BytesUpTo(b, Len(b)) = 4 + EntryBytesUpTo(es, Len(b) - 1)
<1> DEFINE s == [k \in DOMAIN b |-> ChunkSize(b[k])]
           t == [k \in DOMAIN es |-> EntrySize(es[k].value)]
           m == Len(b) - 1
<1>1. /\ DOMAIN b = 1..Len(b) /\ Len(b) \in Nat /\ Len(b) # 0
      /\ DOMAIN es = 1..Len(es) /\ Len(es) \in Nat
  BY EmptySeq
<1>2. \A k \in 1..Len(b) : ChunkSize(b[k]) \in Nat
  BY ElementOfSeq, ChunkSizes
<1>3. \A k \in 1..Len(es) : EntrySize(es[k].value) \in Nat
  BY ElementOfSeq, Lengths
<1>4. /\ s \in Seq(Nat) /\ Len(s) = Len(b)
      /\ \A k \in 1..Len(b) : s[k] = ChunkSize(b[k])
  BY <1>1, <1>2
<1>5. /\ t \in Seq(Nat) /\ Len(t) = Len(es)
      /\ \A k \in 1..Len(es) : t[k] = EntrySize(es[k].value)
  BY <1>1, <1>3
<1> HIDE DEF s, t
<1>6. m \in Nat /\ m <= Len(t) /\ m + 1 <= Len(s) /\ m + 1 = Len(b) /\ 1 \in 1..Len(b)
  BY <1>1, <1>4, <1>5
<1> HIDE DEF m
<1>7. \A k \in 1..m : t[k] = s[k + 1]
  <2> SUFFICES ASSUME NEW k \in 1..m PROVE t[k] = s[k + 1]
    OBVIOUS
  <2>1. k + 1 \in 2..Len(b) /\ k + 1 \in 1..Len(b) /\ k \in 1..Len(es) /\ (k + 1) - 1 = k
    BY <1>5, <1>6
  <2>2. b[k + 1] = Encrypted(es[k], x) /\ es[k] \in Entry
    BY <2>1, ElementOfSeq
  <2>3. b[k + 1] \in Cipher /\ b[k + 1].entry = es[k]
    BY <2>2 DEF Encrypted, Cipher
  <2>4. ChunkSize(b[k + 1]) = EntrySize(es[k].value)
    BY <2>3, ChunkSizes
  <2> QED BY <1>4, <1>5, <2>1, <2>4
<1>8. SumUpTo(s, m + 1) = SumUpTo(s, 1) + SumUpTo(t, m)
  BY <1>4, <1>5, <1>6, <1>7, SumMoves
<1>9. SumUpTo(s, 1) = 4
  <2>1. SumUpTo(s, 0) = 0 /\ SumUpTo(s, 1) = SumUpTo(s, 1 - 1) + s[1]
    BY <1>4, <1>6, SumFields
  <2>2. s[1] = 4
    BY <1>4, <1>6, ChunkSizes
  <2> QED BY <2>1, <2>2
<1>10. BytesUpTo(b, Len(b)) = SumUpTo(s, m + 1) /\ EntryBytesUpTo(es, m) = SumUpTo(t, m)
  BY <1>6 DEF BytesUpTo, EntryBytesUpTo, s, t
<1> QED BY <1>8, <1>9, <1>10 DEF m

\* The entry an edit finds.
LEMMA Found ==
  ASSUME NEW i, entries \in Seq(Entry), Holds(i)
  PROVE  PositionOf(i) \in DOMAIN entries
<1> DEFINE I == {k \in 1..Len(entries) : entries[k].id = i}
<1>1. I \in SUBSET Nat /\ I # {} /\ DOMAIN entries = 1..Len(entries)
  BY DEF Holds
<1>2. PositionOf(i) = Min(I)
  BY <1>1 DEF PositionOf, SelectInSeq
<1>3. \E x \in I : \A y \in I : x <= y
  <2> HIDE DEF I
  <2> QED BY <1>1, LeastNumber
<1>4. Min(I) \in I
  BY <1>3 DEF Min
<1> QED BY <1>1, <1>2, <1>4

\* The entry a load stumbles over.
LEMMA BadEntryIs ==
  ASSUME OnDisk \in Seq(Cipher)
  PROVE  /\ BadEntry = 0 => \A k \in 1..Len(OnDisk) : Decrypts(OnDisk[k], sec)
         /\ BadEntry # 0 => BadEntry \in 1..Len(OnDisk)
<1> DEFINE I == {k \in 1..Len(OnDisk) : ~Decrypts(OnDisk[k], sec)}
<1>1. BadEntry = IF I # {} THEN Min(I) ELSE 0
  BY DEF BadEntry, SelectInSeq
<1>2. I \in SUBSET Nat
  OBVIOUS
<1>3. ASSUME I # {} PROVE Min(I) \in I
  <2>1. \E x \in I : \A y \in I : x <= y
    <3> HIDE DEF I
    <3> QED BY <1>2, <1>3, LeastNumber
  <2> QED BY <2>1 DEF Min
<1>4. CASE I = {}
  BY <1>1, <1>4
<1>5. CASE I # {}
  <2>1. BadEntry \in I
    BY <1>1, <1>3, <1>5
  <2>2. BadEntry \in 1..Len(OnDisk) /\ BadEntry # 0
    BY <2>1
  <2> QED BY <2>2
<1> QED BY <1>4, <1>5

LEMMA Removed ==
  ASSUME NEW S, NEW es \in Seq(S), NEW k \in DOMAIN es
  PROVE  RemoveAt(es, k) \in Seq(S) /\ Len(RemoveAt(es, k)) = Len(es) - 1
<1> DEFINE l == SubSeq(es, 1, k - 1)
           r == SubSeq(es, k + 1, Len(es))
<1>1. /\ l \in Seq(S) /\ Len(l) = k - 1
      /\ r \in Seq(S) /\ Len(r) = Len(es) - k
      /\ k \in Nat /\ Len(es) \in Nat
  OBVIOUS
<1>2. RemoveAt(es, k) = l \o r
  BY DEF RemoveAt
<1> HIDE DEF l, r
<1>3. l \o r \in Seq(S) /\ Len(l \o r) = Len(l) + Len(r)
  BY <1>1, ConcatProperties
<1> QED BY <1>1, <1>2, <1>3

LEMMA Replaced ==
  ASSUME NEW S, NEW es \in Seq(S), NEW k \in DOMAIN es, NEW e \in S
  PROVE  ReplaceAt(es, k, e) \in Seq(S) /\ Len(ReplaceAt(es, k, e)) = Len(es)
<1>1. k \in 1..Len(es)
  BY LenProperties
<1> QED BY <1>1, ExceptSeq DEF ReplaceAt

\* The number written is that of the entries, or a smaller one.
LEMMA CutCount ==
  ASSUME NEW n \in Nat
  PROVE  /\ Uint32(n) \in Nat /\ Uint32(n) <= MaxEntries /\ Uint32(n) <= n
         /\ n <= MaxEntries => Uint32(n) = n
<1>1. ASSUME NEW w \in Nat, w > 0
      PROVE  /\ n % w \in Nat /\ n % w < w /\ n % w <= n
             /\ n < w => n % w = n
  BY <1>1
<1>2. MaxEntries \in Nat
  BY ScfgAssumption
<1> DEFINE w == MaxEntries + 1
<1>3. w \in Nat /\ w > 0 /\ \A k \in Nat : k < w <=> k <= MaxEntries
  BY <1>2
<1>4. Uint32(n) = n % w
  BY DEF Uint32
<1> HIDE DEF w
<1> QED BY <1>1, <1>3, <1>4

\* It is a count that the file can have.
LEMMA IsCount ==
  ASSUME NEW n \in Nat
  PROVE  CountOf(Uint32(n)) \in [count : 0..MaxEntries] /\ CountOf(Uint32(n)) \in Chunk
<1>1. Uint32(n) \in 0..MaxEntries
  BY CutCount, ScfgAssumption
<1> QED BY <1>1 DEF CountOf, Chunk

LEMMA CountedFields ==
  ASSUME NEW S, NEW es \in Seq(S)
  PROVE  /\ Counted(es) \in Seq(S) /\ Len(Counted(es)) = Uint32(Len(es))
         /\ \A k \in 1..Uint32(Len(es)) : Counted(es)[k] = es[k]
         /\ Len(es) <= MaxEntries => Counted(es) = es
<1> DEFINE u == Uint32(Len(es))
<1>1. u \in Nat /\ u <= Len(es) /\ (Len(es) <= MaxEntries => u = Len(es))
  BY CutCount
<1>2. Counted(es) = SubSeq(es, 1, u)
  BY DEF Counted
<1> HIDE DEF u
<1>3. /\ SubSeq(es, 1, u) \in Seq(S) /\ Len(SubSeq(es, 1, u)) = u
      /\ \A k \in 1..u : SubSeq(es, 1, u)[k] = es[k]
  BY <1>1
<1>4. SubSeq(es, 1, Len(es)) = es
  OBVIOUS
<1> QED BY <1>1, <1>2, <1>3, <1>4 DEF u

\* A version under the secret x.
LEMMA ContentsFields ==
  ASSUME NEW es \in Seq(Entry), NEW x \in Secret
  PROVE  /\ Contents(es, x) \in Seq(Chunk) /\ Len(Contents(es, x)) = Len(es) + 1
         /\ Contents(es, x)[1] = CountOf(Uint32(Len(es)))
         /\ \A k \in 1..Len(es) : Contents(es, x)[k + 1] = Encrypted(es[k], x)
         /\ \A k \in 2..(Len(es) + 1) : Contents(es, x)[k] = Encrypted(es[k - 1], x)
         /\ Whole(Contents(es, x))
<1> DEFINE c == CountOf(Uint32(Len(es)))
           d == [k \in DOMAIN es |-> Encrypted(es[k], x)]
<1>1. c \in Chunk
  BY IsCount
<1>2. \A k \in 1..Len(es) : Encrypted(es[k], x) \in Cipher
  BY ElementOfSeq DEF Encrypted, Cipher
<1>3. Cipher \subseteq Chunk /\ DOMAIN es = 1..Len(es) /\ Len(es) \in Nat
  BY DEF Chunk, Cipher
<1>4. /\ d \in Seq(Chunk) /\ Len(d) = Len(es)
      /\ \A k \in 1..Len(es) : d[k] = Encrypted(es[k], x)
  BY <1>2, <1>3
<1> HIDE DEF c, d
<1>5. <<c>> \in Seq(Chunk) /\ Len(<<c>>) = 1 /\ <<c>>[1] = c
  BY <1>1
<1>6. /\ <<c>> \o d \in Seq(Chunk) /\ Len(<<c>> \o d) = Len(es) + 1
      /\ (<<c>> \o d)[1] = c
      /\ \A k \in 1..Len(es) : (<<c>> \o d)[k + 1] = d[k]
  BY <1>3, <1>4, <1>5
<1>7. Contents(es, x) = <<c>> \o d
  BY DEF Contents, c, d
<1>8. \A k \in 2..(Len(es) + 1) : k - 1 \in 1..Len(es) /\ (k - 1) + 1 = k
  BY <1>3
<1>9. \A k \in 2..(Len(es) + 1) :
        Contents(es, x)[k] = Encrypted(es[k - 1], x) /\ Contents(es, x)[k] \in Cipher
  BY <1>2, <1>4, <1>6, <1>7, <1>8
<1>10. (Len(es) + 1) - 1 = Len(es) /\ <<c>> \o d # <<>>
  BY <1>3, <1>6
<1>11. Whole(Contents(es, x))
  BY <1>6, <1>7, <1>9, <1>10 DEF Whole, c
<1> QED BY <1>4, <1>6, <1>7, <1>9, <1>11 DEF c

\* Another way round: what has the count and the ciphers of a version is one.
LEMMA IsContents ==
  ASSUME NEW es \in Seq(Entry), NEW x \in Secret,
         NEW b \in Seq(Chunk), Len(b) = Len(es) + 1, b[1] = CountOf(Uint32(Len(es))),
         \A k \in 2..Len(b) : b[k] = Encrypted(es[k - 1], x)
  PROVE  b = Contents(es, x)
<1>1. /\ Contents(es, x) \in Seq(Chunk) /\ Len(Contents(es, x)) = Len(b)
      /\ Contents(es, x)[1] = b[1]
      /\ \A k \in 2..Len(b) : Contents(es, x)[k] = b[k]
  BY ContentsFields
<1>2. \A k \in 1..Len(b) : k = 1 \/ k \in 2..Len(b)
  OBVIOUS
<1>3. \A k \in 1..Len(b) : Contents(es, x)[k] = b[k]
  BY <1>1, <1>2
<1> QED BY <1>1, <1>3, SeqEqual

LEMMA WholeFields ==
  ASSUME NEW s, Whole(s)
  PROVE  /\ s \in Seq(Chunk) /\ Len(s) \in Nat /\ Len(s) >= 1 /\ s[1] # Torn
         /\ s[1].count = Uint32(Len(s) - 1)
         /\ Tail(s) \in Seq(Cipher)
         /\ Len(Tail(s)) = Len(s) - 1
         /\ \A k \in 1..(Len(s) - 1) : Tail(s)[k] = s[k + 1]
<1>1. s \in Seq(Chunk) /\ s # <<>> /\ s[1] = CountOf(Uint32(Len(s) - 1))
  BY DEF Whole
<1>2. Len(s) \in Nat /\ Len(s) >= 1
  BY <1>1, EmptySeq, LenProperties
<1>3. s[1] # Torn /\ s[1].count = Uint32(Len(s) - 1)
  BY <1>1, Kinds DEF CountOf
<1>4. /\ Tail(s) \in Seq(Chunk) /\ Len(Tail(s)) = Len(s) - 1
      /\ \A k \in 1..(Len(s) - 1) : Tail(s)[k] = s[k + 1]
  BY <1>1, <1>2
<1>5. \A k \in 1..(Len(s) - 1) : k + 1 \in 2..Len(s)
  BY <1>2
<1>6. \A k \in 1..Len(Tail(s)) : Tail(s)[k] \in Cipher
  BY <1>4, <1>5 DEF Whole
<1>7. Tail(s) \in Seq(Cipher)
  <2>1. PICK t : t = Tail(s)
    OBVIOUS
  <2>2. t \in Seq(Chunk) /\ \A k \in 1..Len(t) : t[k] \in Cipher
    BY <1>4, <1>6, <2>1
  <2>3. t = [k \in 1..Len(t) |-> t[k]] /\ Len(t) \in Nat
    BY <2>2
  <2>4. t \in Seq(Cipher)
    BY <2>2, <2>3
  <2> QED BY <2>1, <2>4
<1> QED BY <1>1, <1>2, <1>3, <1>4, <1>7

LEMMA TailOfContents ==
  ASSUME NEW es \in Seq(Entry), NEW x \in Secret
  PROVE  /\ Tail(Contents(es, x)) \in Seq(Cipher)
         /\ Len(Tail(Contents(es, x))) = Len(es)
         /\ \A k \in 1..Len(es) : Tail(Contents(es, x))[k] = Encrypted(es[k], x)
<1> DEFINE b == Contents(es, x)
<1>1. /\ Whole(b) /\ Len(b) = Len(es) + 1
      /\ \A k \in 1..Len(es) : b[k + 1] = Encrypted(es[k], x)
  BY ContentsFields
<1> HIDE DEF b
<1>2. /\ Tail(b) \in Seq(Cipher) /\ Len(Tail(b)) = Len(b) - 1
      /\ \A k \in 1..(Len(b) - 1) : Tail(b)[k] = b[k + 1]
  BY <1>1, WholeFields
<1>3. Len(b) - 1 = Len(es)
  BY <1>1
<1> QED BY <1>1, <1>2, <1>3 DEF b

-----------------------------------------------------------------------------
(* The invariant, action by action.                                        *)

\* The storage as it is made.
LEMMA Blank ==
  /\ <<CountOf(0)>> \in Seq(Chunk) /\ Whole(<<CountOf(0)>>)
  /\ <<CountOf(0)>> # <<>> /\ <<CountOf(0)>>[1] \in [count : 0..MaxEntries]
  /\ Len(<<CountOf(0)>>) = 1
  /\ <<>> \in Seq(Entry) /\ Len(<<>>) = 0 /\ 0 <= MaxEntries
<1> DEFINE c == CountOf(0)
<1>1. <<>> \in Seq(Entry) /\ Len(<<>>) = 0 /\ 0 <= MaxEntries
  BY ScfgAssumption
<1>2. c \in [count : 0..MaxEntries] /\ c \in Chunk
  BY ScfgAssumption DEF CountOf, Chunk
<1> HIDE DEF c
<1>3. <<c>> \in Seq(Chunk) /\ Len(<<c>>) = 1 /\ <<c>>[1] = c /\ <<c>> # <<>>
  BY <1>2
<1>4. Whole(<<c>>)
  <2>1. Uint32(0) = 0 /\ 1 - 1 = 0 /\ 2..1 = {}
    BY <1>1, CutCount
  <2> QED BY <1>3, <2>1 DEF Whole, c
<1> QED BY <1>1, <1>2, <1>3, <1>4 DEF c

\* A torn checksum is a checksum.
LEMMA TornSum == <<Torn>> \in Seq(Chunk) /\ <<>> \in Seq(Chunk)
<1>1. Torn \in Chunk
  BY DEF Chunk
<1> QED BY <1>1

LEMMA InitIInv == Init => IInv
<1> SUFFICES ASSUME Init PROVE IInv
  OBVIOUS
<1> USE Blank DEF Init
<1>1. f \in Position /\ InOrder(f)
  BY OpenedFields DEF HeaderSize
<1>2. TypeOK
  <2>1. body \in Seq(Chunk) /\ sum \in Seq(Chunk)
    OBVIOUS
  <2>2. entries \in Seq(Entry) /\ Len(entries) <= 2 * MaxEntries /\ left \in Seq(Entry)
    BY ScfgAssumption
  <2>3. count \in 0..MaxEntries
    BY ScfgAssumption
  <2> QED BY <1>1, <2>1, <2>2, <2>3 DEF TypeOK, Position
<1>3. NothingKept /\ FirstIsCount /\ SumWhole /\ Headed /\ Saved
  BY DEF NothingKept, FirstIsCount, SumWhole, Headed, Loading, Saved
<1>4. Fresh /\ HeaderRead /\ ToSave /\ Written /\ Placed
  BY DEF Fresh, HeaderRead, ToSave, Written, Placed, Loading, Saving
<1> QED BY <1>1, <1>2, <1>3, <1>4 DEF IInv

LEMMA MakeKeeps ==
  ASSUME IInv, MakeStorage \/ MakeHeader \/ MakeHeaderFails
  PROVE  IInv'
<1>1. /\ pc' \in {"gone", "make"} /\ pc \in {"gone", "make"}
      /\ UNCHANGED <<dataVars, count, after, left>>
  BY DEF MakeStorage, MakeHeader, MakeHeaderFails, At
<1>2. /\ f' \in Position /\ InOrder(f')
      /\ body' \in Seq(Chunk) /\ sum' \in Seq(Chunk) /\ head' \in BOOLEAN
      /\ SumWhole'
      /\ f'.real >= HeaderSize => body' # <<>> /\ body'[1] \in [count : 0..MaxEntries]
  <2>1. CASE MakeStorage
    <3>1. f' \in Position /\ InOrder(f') /\ f'.real = 0
      BY <2>1, ResizedFields DEF MakeStorage
    <3>2. head' = FALSE /\ sum' = <<Torn>> /\ body' = <<>>
      BY <2>1 DEF MakeStorage
    <3>3. SumWhole'
      BY <3>2 DEF SumWhole
    <3>4. ~(f'.real >= HeaderSize)
      BY <3>1 DEF HeaderSize
    <3> QED BY <3>1, <3>2, <3>3, <3>4, TornSum
  <2>2. CASE MakeHeader
    <3>1. HeaderSize \in Nat
      BY DEF HeaderSize
    <3>2. Whole(sum')
      BY <2>2, Blank DEF MakeHeader, Whole
    <3>3. SumWhole'
      BY <3>2 DEF SumWhole, Whole
    <3>4. f' \in Position /\ InOrder(f')
      BY <2>2, <3>1, OpenedFields DEF MakeHeader
    <3>5. head' = TRUE /\ sum' = <<CountOf(0)>> /\ body' = <<CountOf(0)>>
      BY <2>2 DEF MakeHeader
    <3> QED BY <3>3, <3>4, <3>5, Blank
  <2>3. CASE MakeHeaderFails
    <3>1. PICK part \in 0..1 : f' = OpenedFile(part)
      BY <2>3 DEF MakeHeaderFails
    <3>2. f' \in Position /\ InOrder(f') /\ f'.real = part
      BY <3>1, OpenedFields
    <3>3. UNCHANGED <<head, sum, body>>
      BY <2>3 DEF MakeHeaderFails, diskVars
    <3>4. SumWhole'
      BY <3>3 DEF SumWhole, Whole, IInv
    <3> QED BY <3>2, <3>3, <3>4 DEF HeaderSize, IInv, TypeOK
  <2> QED BY <2>1, <2>2, <2>3
<1>3. TypeOK'
  BY <1>1, <1>2 DEF IInv, TypeOK, Position, dataVars
<1>4. NothingKept' /\ FirstIsCount' /\ Headed' /\ Saved'
  BY <1>1, <1>2 DEF IInv, NothingKept, FirstIsCount, Headed, Loading, Saved, dataVars
<1>5. Fresh' /\ HeaderRead' /\ ToSave' /\ Written' /\ Placed'
  BY <1>1 DEF Fresh, HeaderRead, ToSave, Written, Placed, Loading, Saving
<1> QED BY <1>2, <1>3, <1>4, <1>5 DEF IInv

LEMMA ConstructKeeps ==
  ASSUME IInv, NEW s \in Secret, Construct(s)
  PROVE  IInv'
<1>1. /\ pc = "gone" /\ pc' = "loadHeader" /\ sec' = s
      /\ UNCHANGED <<head, sum, body, entries, ok, changes, count, after, left>>
  BY DEF Construct, At, diskVars
<1>2. f' \in Position /\ InOrder(f') /\ f'.real = f.real
  BY OpenedFields DEF Construct, IInv, TypeOK
<1>3. TypeOK'
  BY <1>1, <1>2 DEF IInv, TypeOK, Position
<1>4. NothingKept' /\ FirstIsCount' /\ SumWhole' /\ Headed' /\ Saved'
  BY <1>1, <1>2
  DEF IInv, NothingKept, FirstIsCount, SumWhole, Whole, Headed, Loading, Saved
<1>5. Fresh' /\ HeaderRead' /\ ToSave' /\ Written' /\ Placed'
  BY <1>1, Blank
  DEF IInv, NothingKept, Fresh, HeaderRead, ToSave, Written, Placed, Loading, Saving
<1> QED BY <1>2, <1>3, <1>4, <1>5 DEF IInv

LEMMA RefreshKeeps == IInv /\ Refresh => IInv'
<1> SUFFICES ASSUME IInv, Refresh PROVE IInv'
  OBVIOUS
<1>1. /\ pc = "idle" /\ pc' = "loadHeader"
      /\ UNCHANGED <<head, sum, body, f, entries, sec, ok, changes, count, after, left>>
  BY DEF Refresh, At, diskVars, dataVars
<1>2. TypeOK' /\ InOrder(f')
  BY <1>1 DEF IInv, TypeOK
<1>3. NothingKept' /\ FirstIsCount' /\ SumWhole' /\ Headed' /\ Saved'
  BY <1>1 DEF IInv, NothingKept, FirstIsCount, SumWhole, Whole, Headed, Loading, Saved
<1>4. Fresh' /\ HeaderRead' /\ ToSave' /\ Written' /\ Placed'
  BY <1>1 DEF IInv, Fresh, HeaderRead, ToSave, Written, Placed, Loading, Saving
<1> QED BY <1>2, <1>3, <1>4 DEF IInv

\* A load that ends without an answer, at any of its places.
LEMMA NotLoadedKeeps ==
  ASSUME IInv, pc \in {"loadHeader", "loadChecksum", "loadEntries"},
         f' \in Position, InOrder(f'), f'.real = f.real,
         f'.osPos = 0 => f.osPos = 0,
         entries' = entries \/ entries' = <<>>, Loaded(FALSE),
         UNCHANGED <<head, sum, body, sec, changes, count, after, left>>
  PROVE  IInv'
<1>1. pc' = "idle" /\ ok' = FALSE
  BY DEF Loaded
<1>2. /\ entries' \in Seq(Entry) /\ Len(entries') <= 2 * MaxEntries
      /\ Len(entries) <= MaxEntries => Len(entries') <= MaxEntries
  <2>1. entries \in Seq(Entry) /\ Len(entries) <= 2 * MaxEntries /\ MaxEntries \in Nat
    BY ScfgAssumption DEF IInv, TypeOK
  <2>2. CASE entries' = <<>>
    BY <2>1, <2>2, Blank
  <2> QED BY <2>1, <2>2
<1>3. TypeOK'
  BY <1>1, <1>2 DEF IInv, TypeOK, Position
<1>4. NothingKept' /\ FirstIsCount' /\ SumWhole' /\ Headed' /\ Saved'
  BY <1>1 DEF IInv, NothingKept, FirstIsCount, SumWhole, Whole, Headed, Loading, Saved
<1>5. Fresh' /\ HeaderRead' /\ ToSave' /\ Written' /\ Placed'
  BY <1>1, <1>2 DEF IInv, Fresh, HeaderRead, ToSave, Written, Placed, Loading, Saving
<1> QED BY <1>3, <1>4, <1>5 DEF IInv

LEMMA LoadHeaderKeeps == IInv /\ LoadHeader => IInv'
<1> SUFFICES ASSUME IInv, LoadHeader PROVE IInv'
  OBVIOUS
<1> DEFINE Good == BytesRead(f, HeaderSize) = HeaderSize /\ f.osPos = 0 /\ head
<1>1. /\ pc = "loadHeader" /\ f' = Read(f, HeaderSize)
      /\ UNCHANGED <<head, sum, body, entries, sec, changes, after, left>>
      /\ IF Good THEN count' = body[1].count /\ pc' = "loadChecksum" /\ UNCHANGED ok
         ELSE Loaded(FALSE) /\ UNCHANGED count
  BY DEF LoadHeader, At, diskVars
<1>2. f \in Position /\ InOrder(f)
  BY DEF IInv, TypeOK, Position
<1>3. f' \in Position /\ InOrder(f') /\ f'.real = f.real /\ f'.size = f.size
      /\ f'.osPos >= f.osPos
  BY <1>1, <1>2, ReadFields DEF HeaderSize
<1>4. CASE Good
  <2>1. /\ f.real >= HeaderSize /\ f.size >= HeaderSize
        /\ f'.pos = HeaderSize /\ f'.osPos = HeaderSize
    BY <1>1, <1>2, <1>4, HeaderFields
  <2>2. /\ count' = body[1].count /\ pc' = "loadChecksum" /\ ok' = ok
        /\ f.osPos = 0 /\ head
    BY <1>1, <1>4
  <2> HIDE DEF Good
  <2>3. count' \in 0..MaxEntries
    BY <2>1, <2>2 DEF IInv, FirstIsCount
  <2>4. TypeOK'
    BY <1>1, <1>3, <2>2, <2>3 DEF IInv, TypeOK, Position
  <2>5. NothingKept' /\ FirstIsCount' /\ SumWhole' /\ Headed' /\ Saved'
    BY <1>1, <1>3, <2>2
    DEF IInv, NothingKept, FirstIsCount, SumWhole, Whole, Headed, Loading, Saved
  <2>6. Fresh'
    BY <1>1, <2>2 DEF IInv, Fresh, Loading
  <2>7. HeaderRead' /\ ToSave' /\ Written' /\ Placed'
    BY <1>1, <1>3, <2>1, <2>2
    DEF IInv, HeaderRead, ToSave, Written, Placed, Loading, Saving, CountOffset,
        HeaderSize
  <2> QED BY <1>3, <2>4, <2>5, <2>6, <2>7 DEF IInv
<1>5. CASE ~Good
  <2>1. f'.osPos = 0 => f.osPos = 0
    BY <1>2, <1>3 DEF Position
  <2> QED BY <1>1, <1>3, <1>5, <2>1, NotLoadedKeeps
<1> QED BY <1>4, <1>5

LEMMA LoadChecksumKeeps == IInv /\ LoadChecksum => IInv'
<1> SUFFICES ASSUME IInv, LoadChecksum PROVE IInv'
  OBVIOUS
<1>1. /\ pc = "loadChecksum" /\ f' = HashEnd(f, CountOffset)
      /\ UNCHANGED <<head, sum, body, entries, sec, changes, count, after, left>>
      /\ IF HashedData(f) = sum
           THEN pc' = "loadEntries" /\ UNCHANGED ok
           ELSE Loaded(FALSE)
  BY DEF LoadChecksum, At, diskVars
<1>2. /\ f \in Position /\ InOrder(f) /\ f.pos = HeaderSize
      /\ f.size >= HeaderSize /\ f.real >= HeaderSize
      /\ count = body[1].count /\ Loading
  BY <1>1 DEF IInv, TypeOK, Position, HeaderRead, Loading
<1>3. f.pos # CountOffset /\ CountOffset <= f.size
  BY <1>2 DEF HeaderSize, CountOffset, Position
<1>4. /\ f' \in Position /\ InOrder(f') /\ f'.real = f.real /\ f'.size = f.size
      /\ f'.osPos >= CountOffset
  BY <1>1, <1>2, <1>3, HashEndFields
<1>5. HashedData(f) = body
  BY <1>2, <1>3, HashStartFields DEF HashedData
<1>6. CASE sum = body
  <2>1. pc' = "loadEntries" /\ ok' = ok
    BY <1>1, <1>5, <1>6
  <2>2. TypeOK'
    BY <1>1, <1>4, <2>1 DEF IInv, TypeOK, Position
  <2>3. NothingKept' /\ FirstIsCount' /\ SumWhole' /\ Headed' /\ Saved'
    BY <1>1, <1>4, <2>1
    DEF IInv, NothingKept, FirstIsCount, SumWhole, Whole, Headed, Loading, Saved
  <2>4. Fresh'
    BY <1>1, <1>2, <2>1 DEF IInv, Fresh, Loading
  <2>5. HeaderRead' /\ ToSave' /\ Written' /\ Placed'
    BY <1>1, <1>2, <1>4, <1>6, <2>1
    DEF IInv, HeaderRead, ToSave, Written, Placed, Loading, Saving
  <2> QED BY <1>4, <2>2, <2>3, <2>4, <2>5 DEF IInv
<1>7. CASE sum # body
  <2>1. f'.osPos # 0
    BY <1>4 DEF CountOffset
  <2>2. Loaded(FALSE)
    BY <1>1, <1>5, <1>7
  <2> QED BY <1>1, <1>4, <2>1, <2>2, NotLoadedKeeps
<1> QED BY <1>6, <1>7

\* Under its checksum the file is whole, and its count is that of its entries, cut.
LEMMA ToLoad ==
  ASSUME IInv, pc = "loadEntries"
  PROVE  /\ Whole(body) /\ sum = body /\ head /\ ~ok
         /\ count = Uint32(Len(body) - 1) /\ count \in Nat /\ count <= Len(body) - 1
         /\ OnDisk = Counted(Tail(body)) /\ OnDisk \in Seq(Cipher) /\ Len(OnDisk) = count
         /\ \A k \in 1..count : OnDisk[k] = body[k + 1]
         /\ changes \/ entries = <<>>
         /\ Len(entries) <= MaxEntries
         /\ f \in Position /\ InOrder(f) /\ f.real >= HeaderSize
         /\ f.size >= HeaderSize /\ f.osPos >= CountOffset
<1>1. /\ sum = body /\ head /\ ~ok /\ count = body[1].count
      /\ changes \/ entries = <<>>
      /\ Len(entries) <= MaxEntries
      /\ f \in Position /\ InOrder(f) /\ f.real >= HeaderSize
      /\ f.size >= HeaderSize /\ f.osPos >= CountOffset
  BY DEF IInv, TypeOK, Position, Headed, Fresh, HeaderRead, Loading
<1>2. body # <<>> /\ body[1] \in [count : 0..MaxEntries]
  BY <1>1 DEF IInv, FirstIsCount
<1>3. sum # <<Torn>>
  <2>1. body[1] = CountOf(body[1].count)
    BY <1>2 DEF CountOf
  <2>2. body[1] # Torn
    BY <2>1, Kinds
  <2>3. <<Torn>>[1] = Torn
    OBVIOUS
  <2> QED BY <1>1, <2>2, <2>3
<1>4. Whole(body)
  BY <1>1, <1>2, <1>3 DEF IInv, SumWhole
<1> DEFINE es == Tail(body)
<1>5. /\ Len(body) \in Nat /\ Len(body) >= 1 /\ body[1].count = Uint32(Len(body) - 1)
      /\ body \in Seq(Chunk) /\ es \in Seq(Cipher) /\ Len(es) = Len(body) - 1
      /\ \A k \in 1..(Len(body) - 1) : es[k] = body[k + 1]
  BY <1>4, WholeFields
<1> HIDE DEF es
<1>6. count = Uint32(Len(es)) /\ Len(es) \in Nat
  BY <1>1, <1>5
<1>7. count \in Nat /\ count <= Len(es)
  BY <1>6, CutCount
<1>8. /\ Counted(es) \in Seq(Cipher) /\ Len(Counted(es)) = count
      /\ \A k \in 1..count : Counted(es)[k] = es[k]
  BY <1>5, <1>6, CountedFields
<1>9. ASSUME NEW k \in 1..count PROVE Counted(es)[k] = body[k + 1]
  <2>1. k \in 1..(Len(body) - 1)
    BY <1>5, <1>7
  <2> QED BY <1>5, <1>8, <2>1
<1>10. OnDisk = Counted(es)
  <2>1. /\ OnDisk \in Seq(Chunk) /\ Len(OnDisk) = count
        /\ \A k \in 1..count : OnDisk[k] = body[k + 1]
    BY <1>5, <1>7 DEF OnDisk
  <2>2. Counted(es) \in Seq(Chunk)
    <3>1. Cipher \subseteq Chunk
      BY DEF Chunk, Cipher
    <3> QED BY <1>8, <3>1, SeqMonotonic
  <2> QED BY <1>8, <1>9, <2>1, <2>2, SeqEqual
<1> QED BY <1>1, <1>4, <1>5, <1>6, <1>7, <1>8, <1>9, <1>10 DEF es

\* Where the object is after the first k entries.
LEMMA LoadedUpToFields ==
  ASSUME IInv, pc = "loadEntries", NEW k \in 0..Len(OnDisk)
  PROVE  /\ LoadedUpTo(k) \in Position /\ InOrder(LoadedUpTo(k))
         /\ LoadedUpTo(k).real = f.real /\ LoadedUpTo(k).osPos # 0
<1>1. OnDisk \in Seq(Cipher) /\ f \in Position /\ InOrder(f) /\ f.size >= HeaderSize
  BY ToLoad
<1>2. Cipher \subseteq Chunk
  BY DEF Chunk, Cipher
<1>3. OnDisk \in Seq(Chunk)
  BY <1>1, <1>2, SeqMonotonic
<1>4. BytesUpTo(OnDisk, k) \in Nat
  BY <1>3, BytesFields
<1>5. /\ LoadedUpTo(k) \in Position /\ InOrder(LoadedUpTo(k))
      /\ LoadedUpTo(k).real = f.real /\ LoadedUpTo(k).osPos >= CountOffset
  BY <1>1, <1>4, EntriesRead DEF LoadedUpTo
<1>6. LoadedUpTo(k).osPos # 0
  BY <1>5 DEF CountOffset
<1> QED BY <1>5, <1>6

\* What a load that succeeds adds: the plain entries of the file, all of them under
\* the secret of the object.
Plain == [k \in DOMAIN OnDisk |-> OnDisk[k].entry]

LEMMA PlainFields ==
  ASSUME IInv, LoadEntries
  PROVE  /\ Plain \in Seq(Entry) /\ Len(Plain) = count
         /\ \A k \in 1..count : OnDisk[k] = Encrypted(Plain[k], sec)
         /\ \A k \in 1..count : Loadable(Plain[k].value)
<1>1. pc = "loadEntries" /\ BadEntry = 0
  BY DEF LoadEntries, At
<1>2. OnDisk \in Seq(Cipher) /\ Len(OnDisk) = count /\ count \in Nat
  BY <1>1, ToLoad
<1>3. \A k \in 1..count : Decrypts(OnDisk[k], sec)
  BY <1>1, <1>2, BadEntryIs
<1>4. \A k \in 1..count : OnDisk[k] \in Cipher
  BY <1>2, ElementOfSeq
<1>5. DOMAIN OnDisk = 1..count
  BY <1>2
<1>6. \A k \in 1..count : OnDisk[k].entry \in Entry
  BY <1>4, Kinds
<1>7. /\ Plain \in Seq(Entry) /\ Len(Plain) = count
      /\ \A k \in 1..count : Plain[k] = OnDisk[k].entry
  BY <1>2, <1>5, <1>6 DEF Plain
<1>8. \A k \in 1..count : OnDisk[k].sec = sec /\ Loadable(OnDisk[k].entry.value)
  BY <1>3 DEF Decrypts
<1>9. ASSUME NEW k \in 1..count PROVE OnDisk[k] = Encrypted(Plain[k], sec)
  <2>1. PICK c \in Cipher : c = OnDisk[k]
    BY <1>4
  <2>2. c = [entry |-> c.entry, sec |-> c.sec]
    BY DEF Cipher
  <2>3. c.entry = Plain[k] /\ c.sec = sec
    BY <1>7, <1>8, <2>1
  <2> QED BY <2>1, <2>2, <2>3 DEF Encrypted
<1> QED BY <1>7, <1>8, <1>9

LEMMA LoadEntriesKeeps == IInv /\ LoadEntries => IInv'
<1> SUFFICES ASSUME IInv, LoadEntries PROVE IInv'
  OBVIOUS
<1>1. /\ pc = "loadEntries" /\ pc' = "idle" /\ ok' = TRUE /\ entries' = entries \o Plain
      /\ f' = f \/ f' = LoadedUpTo(count)
      /\ UNCHANGED <<head, sum, body, sec, changes, count, after, left>>
  BY DEF LoadEntries, At, Loaded, diskVars, Plain
<1>2. /\ Whole(body) /\ head /\ count = Uint32(Len(body) - 1) /\ count \in Nat
      /\ OnDisk = Counted(Tail(body)) /\ OnDisk \in Seq(Cipher)
      /\ Len(OnDisk) = count /\ \A k \in 1..count : OnDisk[k] = body[k + 1]
      /\ changes \/ entries = <<>>
      /\ Len(entries) <= MaxEntries
      /\ f \in Position /\ InOrder(f) /\ f.osPos >= CountOffset
  BY <1>1, ToLoad
<1>3. /\ Plain \in Seq(Entry) /\ Len(Plain) = count
      /\ \A k \in 1..count : OnDisk[k] = Encrypted(Plain[k], sec)
  BY PlainFields
<1>4. /\ entries \in Seq(Entry) /\ Len(entries) \in Nat
      /\ count <= MaxEntries /\ MaxEntries \in Nat /\ sec \in Secret
  BY ScfgAssumption DEF IInv, TypeOK
<1>5. f' \in Position /\ InOrder(f') /\ f'.real = f.real /\ f'.osPos # 0
  <2>1. CASE f' = f
    BY <1>2, <2>1 DEF CountOffset
  <2>2. CASE f' = LoadedUpTo(count)
    <3>1. count \in 0..Len(OnDisk)
      BY <1>2
    <3> QED BY <1>1, <2>2, <3>1, LoadedUpToFields
  <2> QED BY <1>1, <2>1, <2>2
<1>6. entries \o Plain \in Seq(Entry) /\ Len(entries \o Plain) = Len(entries) + Len(Plain)
  BY <1>3, <1>4, ConcatProperties
<1>7. Len(entries') <= 2 * MaxEntries
  BY <1>1, <1>2, <1>3, <1>4, <1>6
<1>8. TypeOK'
  BY <1>1, <1>5, <1>6, <1>7 DEF IInv, TypeOK, Position
<1>9. Saved'
  <2> SUFFICES ASSUME ~changes
               PROVE  \/ body = Contents(entries', sec)
                      \/ /\ Len(Tail(body)) > MaxEntries
                         /\ Counted(Tail(body)) = Tail(Contents(entries', sec))
    BY <1>1 DEF Saved
  <2>1. entries' = Plain
    BY <1>1, <1>2, <1>3, ConcatEmptySeq
  <2>2. /\ Len(Tail(body)) = Len(body) - 1 /\ Len(body) \in Nat /\ Len(body) >= 1
        /\ body \in Seq(Chunk)
    BY <1>2, WholeFields
  <2>3. CASE Len(body) - 1 <= MaxEntries
    <3>1. count = Len(body) - 1
      BY <1>2, <2>2, <2>3, CutCount
    <3>2. body[1] = CountOf(Uint32(Len(Plain))) /\ Len(body) = Len(Plain) + 1
      <4>1. body[1] = CountOf(Uint32(Len(body) - 1)) /\ Len(body) - 1 = Len(Plain)
        BY <1>2, <1>3, <3>1 DEF Whole
      <4> QED BY <2>2, <4>1
    <3>3. ASSUME NEW k \in 2..Len(body) PROVE body[k] = Encrypted(Plain[k - 1], sec)
      <4>1. k - 1 \in 1..count /\ (k - 1) + 1 = k
        BY <2>2, <3>1
      <4> QED BY <1>2, <1>3, <4>1
    <3>4. body = Contents(Plain, sec)
      BY <1>3, <1>4, <2>2, <3>2, <3>3, IsContents
    <3> QED BY <2>1, <3>4
  <2>4. CASE ~(Len(body) - 1 <= MaxEntries)
    <3>1. /\ Tail(Contents(Plain, sec)) \in Seq(Cipher)
          /\ Len(Tail(Contents(Plain, sec))) = count
          /\ \A k \in 1..count : Tail(Contents(Plain, sec))[k] = Encrypted(Plain[k], sec)
      BY <1>3, <1>4, TailOfContents
    <3>2. \A k \in 1..count : OnDisk[k] = Tail(Contents(Plain, sec))[k]
      BY <1>3, <3>1
    <3>3. OnDisk = Tail(Contents(Plain, sec))
      BY <1>2, <3>1, <3>2, SeqEqual
    <3>4. Len(Tail(body)) > MaxEntries
      BY <1>4, <2>2, <2>4
    <3> QED BY <1>2, <2>1, <3>3, <3>4
  <2> QED BY <2>3, <2>4
<1>10. NothingKept' /\ FirstIsCount' /\ SumWhole' /\ Headed'
  BY <1>1, <1>2, <1>5
  DEF IInv, NothingKept, FirstIsCount, SumWhole, Whole, Headed, Loading
<1>11. Fresh' /\ HeaderRead' /\ ToSave' /\ Written' /\ Placed'
  BY <1>1, <1>5 DEF Fresh, HeaderRead, ToSave, Written, Placed, Loading, Saving
<1> QED BY <1>5, <1>8, <1>9, <1>10, <1>11 DEF IInv

LEMMA LoadMeetsBadKeeps == IInv /\ LoadMeetsBad => IInv'
<1> SUFFICES ASSUME IInv, LoadMeetsBad PROVE IInv'
  OBVIOUS
<1>1. /\ pc = "loadEntries" /\ entries' = <<>> /\ Loaded(FALSE)
      /\ f' = LoadedUpTo(IF BadEntry # 0 THEN BadEntry ELSE Len(OnDisk))
      /\ UNCHANGED <<head, sum, body, sec, changes, count, after, left>>
  BY DEF LoadMeetsBad, At, diskVars
<1>2. OnDisk \in Seq(Cipher) /\ Len(OnDisk) \in Nat
  BY <1>1, ToLoad
<1>3. (IF BadEntry # 0 THEN BadEntry ELSE Len(OnDisk)) \in 0..Len(OnDisk)
  <2>1. CASE BadEntry # 0
    BY <1>2, <2>1, BadEntryIs
  <2>2. CASE BadEntry = 0
    BY <1>2, <2>2
  <2> QED BY <2>1, <2>2
<1>4. f' \in Position /\ InOrder(f') /\ f'.real = f.real /\ f'.osPos # 0
  BY <1>1, <1>3, LoadedUpToFields
<1> QED BY <1>1, <1>4, NotLoadedKeeps

LEMMA LoadFailsKeeps == IInv /\ LoadFails => IInv'
<1> SUFFICES ASSUME IInv, LoadFails PROVE IInv'
  OBVIOUS
<1>1. /\ Loaded(FALSE)
      /\ UNCHANGED <<head, sum, body, sec, changes, count, after, left>>
  BY DEF LoadFails, diskVars
<1>2. f \in Position /\ InOrder(f)
  BY DEF IInv, TypeOK, Position
<1>3. CASE pc = "loadHeader"
  <2>1. f' = f /\ entries' = entries
    BY <1>3 DEF LoadFails, At
  <2> QED BY <1>1, <1>2, <1>3, <2>1, NotLoadedKeeps
<1>4. CASE pc = "loadChecksum"
  <2>1. f' = HashStart(f, CountOffset) /\ entries' = entries
    BY <1>4 DEF LoadFails, At
  <2>2. f.pos # CountOffset /\ CountOffset <= f.size
    BY <1>2, <1>4 DEF IInv, HeaderRead, Loading, HeaderSize, CountOffset, Position
  <2>3. f' \in Position /\ InOrder(f') /\ f'.real = f.real /\ f'.osPos = CountOffset
    BY <1>2, <2>1, <2>2, HashStartFields
  <2>4. f'.osPos # 0
    BY <2>3 DEF CountOffset
  <2> QED BY <1>1, <1>4, <2>1, <2>3, <2>4, NotLoadedKeeps
<1>5. CASE pc = "loadEntries"
  <2>1. PICK k \in 0..(count - 1) : f' = LoadedUpTo(k)
    BY <1>5 DEF LoadFails, At
  <2>2. entries' = <<>>
    BY <1>5 DEF LoadFails, At
  <2>3. k \in 0..Len(OnDisk)
    BY <1>5, ToLoad
  <2>4. f' \in Position /\ InOrder(f') /\ f'.real = f.real /\ f'.osPos # 0
    BY <1>5, <2>1, <2>3, LoadedUpToFields
  <2> QED BY <1>1, <1>5, <2>2, <2>4, NotLoadedKeeps
<1> QED BY <1>3, <1>4, <1>5 DEF LoadFails, At

\* What an edit makes of the entries.
Appended(es, e) ==
  /\ es = Append(entries, e)
  /\ Len(entries) < MaxEntries

Edited(es) ==
  \/ \E e \in Entry : Appended(es, e)
  \/ ok /\ \E k \in DOMAIN entries, e \in Entry : es = ReplaceAt(entries, k, e)
  \/ ok /\ \E k \in DOMAIN entries : es = RemoveAt(entries, k)
  \/ ok /\ es = <<>>

\* An edit changes the secret or the entries.
Resealed == \E s \in Secret : SetSecret(s)
Rewrites == pc = "idle" /\ \E es : Changed(es) /\ Edited(es)

LEMMA EditShape ==
  ASSUME IInv, Edit
  PROVE  Resealed \/ Rewrites
<1>1. entries \in Seq(Entry) /\ sec \in Secret
  BY DEF IInv, TypeOK
<1>2. ASSUME NEW i \in Ids, Holds(i)
      PROVE  /\ ok /\ PositionOf(i) \in DOMAIN entries
             /\ entries[PositionOf(i)] \in Entry
  <2>1. PositionOf(i) \in DOMAIN entries
    BY <1>1, <1>2, Found
  <2>2. entries[PositionOf(i)] \in Entry
    BY <1>1, <2>1
  <2> QED BY <1>2, <2>1, <2>2 DEF Holds
<1>3. ASSUME NEW i \in Ids, Holds(i), NEW e \in Entry
      PROVE  Edited(ReplaceAt(entries, PositionOf(i), e))
  BY <1>2, <1>3, Zenon DEF Edited
<1>4. ASSUME NEW k \in Keys, SetKey(k) PROVE Resealed
  <2>1. [sec EXCEPT !.key = k] \in Secret
    BY <1>1 DEF Secret
  <2> QED BY <1>4, <2>1 DEF SetKey, Resealed
<1>5. ASSUME NEW i \in Ivs, SetIv(i) PROVE Resealed
  <2>1. [sec EXCEPT !.iv = i] \in Secret
    BY <1>1 DEF Secret
  <2> QED BY <1>5, <2>1 DEF SetIv, Resealed
<1>6. ASSUME NEW i \in Ids, NEW v \in Values, AppendEntry(i, v) PROVE Rewrites
  <2> DEFINE e == EntryOf(i, v)
  <2>1. e \in Entry
    BY DEF EntryOf, Entry
  <2> HIDE DEF e
  <2>2. /\ pc = "idle" /\ Changed(Append(entries, e))
        /\ Len(entries) < MaxEntries
    BY <1>6 DEF AppendEntry, At, e
  <2>3. Appended(Append(entries, e), e)
    BY <2>2 DEF Appended
  <2> QED BY <2>1, <2>2, <2>3, Zenon DEF Edited, Rewrites
<1>7. ASSUME NEW i \in Ids, NEW v \in Values, ModifyValue(i, v) PROVE Rewrites
  <2> DEFINE e == [entries[PositionOf(i)] EXCEPT !.value = v]
  <2>1. Holds(i) /\ pc = "idle" /\ Changed(ReplaceAt(entries, PositionOf(i), e))
    BY <1>7 DEF ModifyValue, Modify, At
  <2>2. e \in Entry
    <3>1. entries[PositionOf(i)] \in Entry
      BY <1>2, <2>1
    <3> QED BY <3>1 DEF Entry
  <2> HIDE DEF e
  <2> QED BY <1>3, <2>1, <2>2, Zenon DEF Rewrites
<1>8. ASSUME NEW i \in Ids, NEW j \in Ids, ModifyId(i, j) PROVE Rewrites
  <2> DEFINE e == [entries[PositionOf(i)] EXCEPT !.id = j]
  <2>1. Holds(i) /\ pc = "idle" /\ Changed(ReplaceAt(entries, PositionOf(i), e))
    BY <1>8 DEF ModifyId, Modify, At
  <2>2. e \in Entry
    <3>1. entries[PositionOf(i)] \in Entry
      BY <1>2, <2>1
    <3> QED BY <3>1 DEF Entry
  <2> HIDE DEF e
  <2> QED BY <1>3, <2>1, <2>2, Zenon DEF Rewrites
<1>9. ASSUME NEW i \in Ids, EraseEntry(i) PROVE Rewrites
  <2>1. Holds(i) /\ pc = "idle" /\ Changed(RemoveAt(entries, PositionOf(i)))
    BY <1>9 DEF EraseEntry, At
  <2>2. ok /\ PositionOf(i) \in DOMAIN entries
    BY <1>2, <2>1
  <2> QED BY <2>1, <2>2, Zenon DEF Edited, Rewrites
<1>10. ASSUME EraseAll PROVE Rewrites
  <2>1. pc = "idle" /\ ok /\ Changed(<<>>)
    BY <1>10 DEF EraseAll, At
  <2>2. Edited(<<>>)
    BY <2>1, Zenon DEF Edited
  <2> QED BY <2>1, <2>2, Zenon DEF Rewrites
<1> QED BY <1>4, <1>5, <1>6, <1>7, <1>8, <1>9, <1>10 DEF Edit

LEMMA ResealedKeeps == IInv /\ Resealed => IInv'
<1> SUFFICES ASSUME IInv, NEW s \in Secret, SetSecret(s) PROVE IInv'
  BY DEF Resealed
<1>1. /\ pc = "idle" /\ pc' = "idle" /\ sec' = s /\ changes' = (changes \/ ok)
      /\ UNCHANGED <<head, sum, body, f, entries, ok, count, after, left>>
  BY DEF SetSecret, At, diskVars, callVars
<1>2. changes' \in BOOLEAN
  BY <1>1
<1>3. TypeOK'
  BY <1>1, <1>2 DEF IInv, TypeOK
<1>4. NothingKept' /\ FirstIsCount' /\ SumWhole' /\ Headed' /\ Saved'
  BY <1>1 DEF IInv, NothingKept, FirstIsCount, SumWhole, Whole, Headed, Loading, Saved
<1>5. Fresh' /\ HeaderRead' /\ ToSave' /\ Written' /\ Placed'
  BY <1>1 DEF IInv, Fresh, HeaderRead, ToSave, Written, Placed, Loading, Saving
<1> QED BY <1>1, <1>3, <1>4, <1>5 DEF IInv

LEMMA RewritesKeeps == IInv /\ Rewrites => IInv'
<1> SUFFICES ASSUME IInv, Rewrites PROVE IInv'
  OBVIOUS
<1>1. PICK es : Changed(es) /\ Edited(es)
  BY DEF Rewrites
<1>2. /\ pc = "idle" /\ pc' = "idle" /\ entries' = es /\ changes' = TRUE
      /\ UNCHANGED <<head, sum, body, f, sec, ok, count, after, left>>
  BY <1>1 DEF Rewrites, Changed, diskVars, callVars
<1>3. /\ entries \in Seq(Entry) /\ Len(entries) <= 2 * MaxEntries
      /\ Len(entries) \in Nat /\ MaxEntries \in Nat
  BY ScfgAssumption DEF IInv, TypeOK
<1>4. /\ es \in Seq(Entry) /\ Len(es) <= 2 * MaxEntries
      /\ ok \/ Len(es) <= MaxEntries
  <2>1. ASSUME NEW e \in Entry, Appended(es, e)
        PROVE  es \in Seq(Entry) /\ Len(es) <= MaxEntries /\ Len(es) <= 2 * MaxEntries
    <3>1. es \in Seq(Entry) /\ Len(es) = Len(entries) + 1 /\ Len(entries) < MaxEntries
      BY <1>3, <2>1, AppendProperties DEF Appended
    <3> QED BY <1>3, <3>1
  <2>2. ASSUME ok, NEW k \in DOMAIN entries, NEW e \in Entry, es = ReplaceAt(entries, k, e)
        PROVE  es \in Seq(Entry) /\ Len(es) <= 2 * MaxEntries
    BY <1>3, <2>2, Replaced
  <2>3. ASSUME ok, NEW k \in DOMAIN entries, es = RemoveAt(entries, k)
        PROVE  es \in Seq(Entry) /\ Len(es) <= 2 * MaxEntries
    <3>1. es \in Seq(Entry) /\ Len(es) = Len(entries) - 1
      BY <1>3, <2>3, Removed
    <3> QED BY <1>3, <3>1
  <2>4. CASE ok /\ es = <<>>
    BY <1>3, <2>4, Blank
  <2> QED BY <1>1, <2>1, <2>2, <2>3, <2>4 DEF Edited
<1>5. TypeOK'
  BY <1>2, <1>4 DEF IInv, TypeOK
<1>6. NothingKept' /\ FirstIsCount' /\ SumWhole' /\ Headed' /\ Saved'
  BY <1>2 DEF IInv, NothingKept, FirstIsCount, SumWhole, Whole, Headed, Loading, Saved
<1>7. Fresh' /\ HeaderRead' /\ ToSave' /\ Written' /\ Placed'
  BY <1>2, <1>4 DEF IInv, Fresh, HeaderRead, ToSave, Written, Placed, Loading, Saving
<1> QED BY <1>2, <1>5, <1>6, <1>7 DEF IInv

LEMMA BeginFlushKeeps ==
  ASSUME IInv, NEW return \in {"idle", "ending"}, BeginFlush(return)
  PROVE  IInv'
<1>1. /\ pc = "idle" /\ after' = return
      /\ UNCHANGED <<head, sum, body, f, entries, sec, ok, changes, count>>
      /\ IF ok /\ changes THEN pc' = "resize" /\ left' = entries
         ELSE pc' = return /\ UNCHANGED left
  BY DEF BeginFlush, At, diskVars, dataVars
<1>2. TypeOK'
  BY <1>1 DEF IInv, TypeOK
<1>3. NothingKept' /\ FirstIsCount' /\ SumWhole' /\ Headed' /\ Saved'
  BY <1>1 DEF IInv, NothingKept, FirstIsCount, SumWhole, Whole, Headed, Loading, Saved
<1>4. Fresh' /\ HeaderRead' /\ ToSave' /\ Written' /\ Placed'
  BY <1>1 DEF IInv, Fresh, HeaderRead, ToSave, Written, Placed, Loading, Saving
<1> QED BY <1>1, <1>2, <1>3, <1>4 DEF IInv

LEMMA GoneKeeps == IInv /\ (Destroyed \/ Crash \/ LoadTerminates) => IInv'
<1> SUFFICES ASSUME IInv, Destroyed \/ Crash \/ LoadTerminates PROVE IInv'
  OBVIOUS
<1>1. Gone /\ UNCHANGED <<head, sum, body>>
  BY DEF Destroyed, Crash, LoadTerminates, diskVars
<1>2. /\ pc' = "gone" /\ after' = "idle" /\ left' = <<>> /\ sec' = sec
      /\ entries' = <<>> /\ ok' = FALSE /\ changes' = FALSE /\ count' = 0
  BY <1>1 DEF Gone
<1>3. f' \in Position /\ InOrder(f') /\ f'.real = f.real
  BY <1>1, OpenedFields DEF Gone, IInv, TypeOK
<1>4. TypeOK'
  <2>1. entries' \in Seq(Entry) /\ left' \in Seq(Entry) /\ Len(entries') <= 2 * MaxEntries
    BY <1>2, Blank, ScfgAssumption
  <2>2. count' \in 0..MaxEntries
    BY <1>2, ScfgAssumption
  <2> QED BY <1>1, <1>2, <1>3, <2>1, <2>2 DEF IInv, TypeOK, Position
<1>5. NothingKept' /\ FirstIsCount' /\ SumWhole' /\ Headed' /\ Saved'
  BY <1>1, <1>2, <1>3
  DEF IInv, NothingKept, FirstIsCount, SumWhole, Whole, Headed, Loading, Saved
<1>6. Fresh' /\ HeaderRead' /\ ToSave' /\ Written' /\ Placed'
  BY <1>2 DEF Fresh, HeaderRead, ToSave, Written, Placed, Loading, Saving
<1> QED BY <1>3, <1>4, <1>5, <1>6 DEF IInv

LEMMA FlushResizeKeeps == IInv /\ FlushResize => IInv'
<1> SUFFICES ASSUME IInv, FlushResize PROVE IInv'
  OBVIOUS
<1>1. /\ pc = "resize" /\ pc' = "writeCount" /\ f' = Resized(f, CountOffset) /\ body' = <<>>
      /\ UNCHANGED <<head, sum, entries, sec, ok, changes, count, after, left>>
  BY DEF FlushResize, At, dataVars
<1>2. f' \in Position /\ InOrder(f') /\ f'.real = CountOffset /\ f'.osPos = CountOffset
  BY <1>1, ResizedFields DEF CountOffset
<1>3. ok /\ changes /\ left = entries
  BY <1>1 DEF IInv, ToSave, Saving
<1>4. TypeOK'
  BY <1>1, <1>2, TornSum DEF IInv, TypeOK, Position
<1>5. NothingKept' /\ FirstIsCount' /\ SumWhole' /\ Headed' /\ Saved'
  BY <1>1, <1>2, <1>3
  DEF IInv, NothingKept, FirstIsCount, SumWhole, Whole, Headed, Loading, Saved,
      HeaderSize, CountOffset
<1>6. Fresh' /\ HeaderRead'
  BY <1>1, <1>2 DEF Fresh, HeaderRead, Loading, CountOffset
<1>7. ToSave' /\ Written' /\ Placed'
  BY <1>1, <1>3 DEF ToSave, Written, Placed, Saving, Resized
<1> QED BY <1>2, <1>4, <1>5, <1>6, <1>7 DEF IInv

LEMMA FlushCountKeeps == IInv /\ FlushCount => IInv'
<1> SUFFICES ASSUME IInv, FlushCount PROVE IInv'
  OBVIOUS
<1> DEFINE c == CountOf(Uint32(Len(entries)))
<1>1. /\ pc = "writeCount" /\ pc' = "writeEntries" /\ f' = Write(f, 4)
      /\ body' = Append(body, c)
      /\ UNCHANGED <<head, sum, entries, sec, ok, changes, count, after, left>>
  BY DEF FlushCount, At, dataVars
<1>2. /\ ok /\ changes /\ left = entries /\ body = <<>> /\ f = Resized(f, CountOffset)
  BY <1>1 DEF IInv, ToSave, Saving
<1>3. /\ f \in Position /\ InOrder(f) /\ f.pos = CountOffset /\ f.size = CountOffset
      /\ f.osPos = CountOffset /\ f.real = CountOffset
  BY <1>2, ResizedFields DEF CountOffset
<1>4. /\ f' \in Position /\ InOrder(f') /\ f'.pos = CountOffset
      /\ f'.osPos = HeaderSize /\ f'.real = HeaderSize /\ f'.size = HeaderSize
  <2>1. /\ f' \in Position /\ InOrder(f')
        /\ f'.pos = IF f.pos + 4 <= f.size THEN f.pos + 4 ELSE f.pos
        /\ f'.osPos = f.osPos + 4 /\ f'.size = f'.real
        /\ f'.real = IF f.osPos + 4 <= f.real THEN f.real ELSE f.osPos + 4
    BY <1>1, <1>3, WriteFields
  <2> QED BY <1>3, <2>1 DEF CountOffset, HeaderSize
<1>5. entries \in Seq(Entry) /\ Len(entries) \in Nat
  BY DEF IInv, TypeOK
<1>6. c \in [count : 0..MaxEntries] /\ c \in Chunk
  BY <1>5, IsCount
<1> HIDE DEF c
<1>7. body' = <<c>> /\ Len(body') = 1 /\ body'[1] = c /\ body' # <<>> /\ body' \in Seq(Chunk)
  BY <1>1, <1>2, <1>6
<1>8. TypeOK'
  BY <1>1, <1>4, <1>7 DEF IInv, TypeOK, Position
<1>9. NothingKept' /\ FirstIsCount' /\ SumWhole' /\ Headed' /\ Saved'
  BY <1>1, <1>2, <1>6, <1>7
  DEF IInv, NothingKept, FirstIsCount, SumWhole, Whole, Headed, Loading, Saved
<1>10. Fresh' /\ HeaderRead'
  BY <1>1, <1>4 DEF Fresh, HeaderRead, Loading, HeaderSize
<1>11. ToSave'
  BY <1>1, <1>2 DEF ToSave, Saving
<1>12. Written'
  <2>1. Len(body') + Len(left') = Len(entries') + 1
    BY <1>1, <1>2, <1>5, <1>7
  <2>2. \A k \in 2..Len(body') : body'[k] = Encrypted(entries'[k - 1], sec')
    BY <1>7
  <2>3. \A k \in 1..Len(left') : left'[k] = entries'[(Len(body') - 1) + k]
    BY <1>1, <1>2, <1>7
  <2> QED BY <1>1, <1>7, <2>1, <2>2, <2>3 DEF Written, c
<1>13. Placed'
  <2>1. EntryBytesUpTo(entries, 0) = 0 /\ entries' = entries /\ Len(body') - 1 = 0
    BY <1>1, <1>5, <1>7, EntryBytesFields
  <2>2. Longer(entries, 0)
    <3>1. 1..0 = {}
      OBVIOUS
    <3> QED BY <3>1 DEF Longer
  <2>3. Longer(entries', Len(body') - 1)
    BY <2>1, <2>2
  <2>4. EntryBytesUpTo(entries', Len(body') - 1) = 0
    BY <2>1
  <2> DEFINE w == EntryBytesUpTo(entries', Len(body') - 1)
  <2>5. f'.real = HeaderSize + w
    <3>1. w = 0
      BY <2>4
    <3> HIDE DEF w
    <3> QED BY <1>4, <3>1 DEF HeaderSize
  <2>6. Longer(entries, Len(body) - 1)'
    BY <2>3 DEF Longer
  <2>7. (f.real = HeaderSize + EntryBytesUpTo(entries, Len(body) - 1))'
    BY <2>5 DEF EntryBytesUpTo, SumUpTo
  <2> QED BY <1>4, <2>6, <2>7 DEF Placed, CountOffset, HeaderSize
<1> QED BY <1>4, <1>8, <1>9, <1>10, <1>11, <1>12, <1>13 DEF IInv

LEMMA FlushEntryKeeps == IInv /\ FlushEntry => IInv'
<1> SUFFICES ASSUME IInv, FlushEntry PROVE IInv'
  OBVIOUS
<1> DEFINE e == Head(left)
           c == Encrypted(e, sec)
           n == Len(body)
           size == EntrySize(e.value)
<1>1. /\ pc = "writeEntries" /\ pc' = "writeEntries" /\ f' = Write(f, size)
      /\ left # <<>> /\ body' = Append(body, c) /\ left' = Tail(left)
      /\ UNCHANGED <<head, sum, entries, sec, ok, changes, count, after>>
  BY DEF FlushEntry, At, dataVars
<1>2. /\ ok /\ changes /\ body # <<>> /\ body[1] = CountOf(Uint32(Len(entries)))
      /\ n + Len(left) = Len(entries) + 1
      /\ \A k \in 2..n : body[k] = Encrypted(entries[k - 1], sec)
      /\ \A k \in 1..Len(left) : left[k] = entries[(n - 1) + k]
  BY <1>1 DEF IInv, ToSave, Saving, Written
<1>3. /\ f.size = f.real /\ f.osPos = f.real
      /\ f.real = HeaderSize + EntryBytesUpTo(entries, n - 1)
      /\ f.pos >= CountOffset
      /\ f.pos = CountOffset => Longer(entries, n - 1)
  BY <1>1 DEF IInv, Placed
<1>4. /\ body \in Seq(Chunk) /\ left \in Seq(Entry) /\ entries \in Seq(Entry)
      /\ sec \in Secret /\ f \in Position /\ InOrder(f)
  BY DEF IInv, TypeOK, Position
<1>5. /\ n \in Nat /\ n >= 1 /\ Len(left) \in Nat /\ Len(left) >= 1
      /\ Len(entries) \in Nat /\ n \in 1..Len(entries)
  <2>1. n \in Nat /\ n >= 1 /\ Len(left) \in Nat /\ Len(left) >= 1 /\ Len(entries) \in Nat
    BY <1>1, <1>2, <1>4, EmptySeq
  <2> QED BY <1>2, <2>1
<1>6. /\ e \in Entry /\ Tail(left) \in Seq(Entry) /\ Len(Tail(left)) = Len(left) - 1
      /\ e = left[1] /\ \A k \in 1..(Len(left) - 1) : Tail(left)[k] = left[k + 1]
  BY <1>1, <1>4, HeadTailProperties
<1>7. e = entries[n]
  <2>1. 1 \in 1..Len(left) /\ (n - 1) + 1 = n
    BY <1>5
  <2> QED BY <1>2, <1>6, <2>1
<1>8. c \in Chunk
  BY <1>4, <1>6 DEF Encrypted, Chunk
<1>9. size \in Nat /\ size > 0
  BY <1>6, Lengths
<1>10. /\ EntryBytesUpTo(entries, n) = EntryBytesUpTo(entries, n - 1) + size
       /\ EntryBytesUpTo(entries, n - 1) \in Nat
  <2>1. n - 1 \in 0..Len(entries)
    BY <1>5
  <2> QED BY <1>4, <1>5, <1>7, <2>1, EntryBytesFields
<1> HIDE DEF e
<1>11. /\ body' \in Seq(Chunk) /\ body' # <<>> /\ Len(body') = n + 1
       /\ body'[1] = body[1] /\ body'[n + 1] = c
       /\ \A k \in 1..n : body'[k] = body[k]
  BY <1>1, <1>4, <1>5, <1>8, AppendProperties
<1> HIDE DEF n, size
<1>12. Written'
  <2>1. Len(body') + Len(left') = Len(entries') + 1
    <3>1. n + Len(left) = Len(entries) + 1
      BY <1>2 DEF n
    <3>2. Len(body') = n + 1 /\ Len(left') = Len(left) - 1 /\ Len(entries') = Len(entries)
      BY <1>1, <1>6, <1>11
    <3> QED BY <1>5, <3>1, <3>2
  <2>2. ASSUME NEW k \in 2..Len(body') PROVE body'[k] = Encrypted(entries'[k - 1], sec')
    <3>1. CASE k = n + 1
      <4>1. k - 1 = n
        BY <1>5, <3>1
      <4> QED BY <1>1, <1>7, <1>11, <3>1, <4>1
    <3>2. CASE k # n + 1
      <4>1. k \in 2..n /\ k \in 1..n
        BY <1>5, <1>11, <3>2
      <4> QED BY <1>1, <1>2, <1>11, <4>1 DEF n
    <3> QED BY <3>1, <3>2
  <2>3. ASSUME NEW k \in 1..Len(left') PROVE left'[k] = entries'[(Len(body') - 1) + k]
    <3>1. k \in 1..(Len(left) - 1) /\ k + 1 \in 1..Len(left)
      BY <1>1, <1>5, <1>6
    <3>2. (n - 1) + (k + 1) = (Len(body') - 1) + k
      BY <1>5, <1>11
    <3>3. left'[k] = left[k + 1]
      BY <1>1, <1>6, <3>1
    <3>4. left[k + 1] = entries[(n - 1) + (k + 1)]
      BY <1>2, <3>1
    <3> QED BY <1>1, <3>2, <3>3, <3>4
  <2> QED BY <1>1, <1>2, <1>11, <2>1, <2>2, <2>3 DEF Written
<1>13. /\ f' \in Position /\ InOrder(f')
       /\ f'.pos = IF f.pos + size <= f.size THEN f.pos + size ELSE f.pos
       /\ f'.real = f.real + size /\ f'.osPos = f'.real /\ f'.size = f'.real
  <2>1. /\ f' \in Position /\ InOrder(f')
        /\ f'.pos = IF f.pos + size <= f.size THEN f.pos + size ELSE f.pos
        /\ f'.osPos = f.osPos + size /\ f'.size = f'.real
        /\ f'.real = IF f.osPos + size <= f.real THEN f.real ELSE f.osPos + size
    BY <1>1, <1>4, <1>9, WriteFields
  <2>2. f.real \in Nat
    BY <1>4 DEF Position
  <2>3. f'.real = f.real + size
    BY <1>3, <1>9, <2>1, <2>2
  <2> QED BY <1>3, <2>1, <2>3
<1>14. f.pos \in Nat /\ f.real >= HeaderSize /\ f.real \in Nat
  <2>1. f.pos \in Nat /\ f.real \in Nat
    BY <1>4 DEF Position
  <2> DEFINE w == EntryBytesUpTo(entries, n - 1)
  <2>2. w \in Nat /\ f.real = HeaderSize + w
    BY <1>3, <1>10
  <2> HIDE DEF w
  <2> QED BY <2>1, <2>2 DEF HeaderSize
<1>15. Placed'
  <2> DEFINE w == EntryBytesUpTo(entries, n - 1)
             v == EntryBytesUpTo(entries, n)
  <2>1. v = w + size /\ w \in Nat /\ f.real = HeaderSize + w
    BY <1>3, <1>10
  <2>2. Len(body') - 1 = n
    BY <1>5, <1>11
  <2>3. f'.real = HeaderSize + v
    <3> HIDE DEF v, w
    <3> QED BY <1>9, <1>13, <2>1 DEF HeaderSize
  <2>4. f'.pos >= CountOffset
    BY <1>3, <1>9, <1>13, <1>14 DEF CountOffset
  <2>5. ASSUME f'.pos = CountOffset PROVE Longer(entries, n)
    <3>1. f.pos = CountOffset /\ ~(f.pos + size <= f.size)
      BY <1>3, <1>9, <1>13, <1>14, <2>5 DEF CountOffset
    <3>2. size > 4 + w
      <4>1. f.size = HeaderSize + w
        BY <1>3, <2>1
      <4> HIDE DEF w
      <4> QED BY <1>9, <2>1, <3>1, <4>1 DEF CountOffset, HeaderSize
    <3>3. EntrySize(entries[n].value) > 4 + EntryBytesUpTo(entries, n - 1)
      BY <1>7, <3>2 DEF size
    <3>4. \A j \in 1..n : j = n \/ j \in 1..(n - 1)
      BY <1>5
    <3> QED BY <1>3, <3>1, <3>3, <3>4 DEF Longer
  <2>6. f'.real = HeaderSize + EntryBytesUpTo(entries', Len(body') - 1)
    BY <1>1, <2>2, <2>3
  <2>7. f'.pos = CountOffset => Longer(entries', Len(body') - 1)
    BY <1>1, <2>2, <2>5
  <2>8. (f.real = HeaderSize + EntryBytesUpTo(entries, Len(body) - 1))'
    BY <2>6 DEF EntryBytesUpTo, SumUpTo
  <2>9. (f.pos = CountOffset => Longer(entries, Len(body) - 1))'
    BY <2>7 DEF Longer
  <2> QED BY <1>13, <2>4, <2>8, <2>9 DEF Placed
<1>16. TypeOK'
  BY <1>1, <1>4, <1>6, <1>11, <1>13 DEF IInv, TypeOK, Position
<1>17. FirstIsCount'
  BY <1>11, <1>14 DEF IInv, FirstIsCount
<1>18. NothingKept' /\ SumWhole' /\ Headed' /\ Saved'
  BY <1>1, <1>2 DEF IInv, NothingKept, SumWhole, Whole, Headed, Loading, Saved
<1>19. Fresh' /\ HeaderRead'
  <2>1. f'.osPos # 0
    BY <1>9, <1>13, <1>14 DEF HeaderSize
  <2> QED BY <1>1, <2>1 DEF Fresh, HeaderRead, Loading
<1>20. ToSave'
  BY <1>1, <1>2 DEF ToSave, Saving
<1> QED BY <1>12, <1>13, <1>15, <1>16, <1>17, <1>18, <1>19, <1>20 DEF IInv

\* A flush that has written its entries: what it hashes, and where the checksum goes.
LEMMA ToSum ==
  ASSUME IInv, pc = "writeEntries", left = <<>>
  PROVE  /\ ok /\ changes /\ body = Contents(entries, sec) /\ Whole(body) /\ head
         /\ entries \in Seq(Entry) /\ sec \in Secret
         /\ f \in Position /\ InOrder(f) /\ f.real >= HeaderSize /\ f.size = f.real
         /\ f.pos # CountOffset => CountOffset <= f.size
         /\ HashedData(f) = body \/ HashedData(f) = <<>>
         /\ HashedData(f) # body => ~Catches(entries)
         /\ LET g == Submitted(HashEnd(f, CountOffset), 8) IN
              g \in Position /\ InOrder(g) /\ g.osPos = 8 /\ g.real = f.real
<1>1. /\ ok /\ changes /\ head /\ body # <<>>
      /\ body[1] = CountOf(Uint32(Len(entries)))
      /\ Len(body) + Len(left) = Len(entries) + 1
      /\ \A k \in 2..Len(body) : body[k] = Encrypted(entries[k - 1], sec)
  BY DEF IInv, ToSave, Saving, Written, Headed
<1>2. /\ f.size = f.real /\ f.osPos = f.real
      /\ f.real = HeaderSize + EntryBytesUpTo(entries, Len(body) - 1)
      /\ f.pos = CountOffset => Longer(entries, Len(body) - 1)
  BY DEF IInv, Placed
<1>3. /\ body \in Seq(Chunk) /\ f \in Position /\ InOrder(f) /\ sec \in Secret
      /\ entries \in Seq(Entry)
  BY DEF IInv, TypeOK, Position
<1>4. Len(body) = Len(entries) + 1 /\ Len(body) - 1 = Len(entries) /\ Len(entries) \in Nat
  <2>1. Len(left) = 0 /\ Len(body) \in Nat /\ Len(entries) \in Nat
    BY <1>3
  <2> QED BY <1>1, <2>1
<1>5. body = Contents(entries, sec)
  BY <1>1, <1>3, <1>4, IsContents
<1>6. Whole(body)
  BY <1>3, <1>5, ContentsFields
<1>7. f.real >= HeaderSize
  <2> DEFINE w == EntryBytesUpTo(entries, Len(entries))
  <2>1. w \in Nat /\ f.real = HeaderSize + w
    BY <1>2, <1>3, <1>4, EntryBytesFields
  <2> HIDE DEF w
  <2> QED BY <2>1 DEF HeaderSize
<1>8. f.pos # CountOffset => CountOffset <= f.size
  BY <1>2, <1>3, <1>7 DEF HeaderSize, CountOffset, Position
<1>9. HashedData(f) # body => ~Catches(entries)
  <2> SUFFICES ASSUME HashedData(f) # body PROVE ~Catches(entries)
    OBVIOUS
  <2>1. HashStart(f, CountOffset).osPos = IF f.pos = CountOffset THEN f.osPos ELSE CountOffset
    BY <1>3, <1>8, HashStartFields
  <2>2. f.pos = CountOffset
    BY <2>1 DEF HashedData
  <2>3. Longer(entries, Len(entries))
    BY <1>2, <1>4, <2>2
  <2>4. ASSUME NEW k \in 2..Len(entries)
        PROVE  ~(EntrySize(entries[k].value) <= 4 + EntryBytesUpTo(entries, k - 1))
    <3> DEFINE w == EntryBytesUpTo(entries, k - 1)
               z == EntrySize(entries[k].value)
    <3>1. k \in 1..Len(entries) /\ k - 1 \in 0..Len(entries)
      BY <1>4
    <3>2. z > 4 + w
      BY <2>3, <3>1 DEF Longer
    <3>3. w \in Nat
      BY <1>3, <3>1, EntryBytesFields
    <3>4. z \in Nat
      BY <1>3, <3>1, ElementOfSeq, Lengths
    <3> HIDE DEF w, z
    <3>5. ~(z <= 4 + w)
      BY <3>2, <3>3, <3>4
    <3> QED BY <3>5 DEF w, z
  <2> QED BY <2>4 DEF Catches
<1> DEFINE h == HashEnd(f, CountOffset)
           g == Submitted(h, 8)
<1>10. h \in Position /\ h.real = f.real /\ h.size = f.size
  BY <1>3, <1>8, HashEndFields
<1> HIDE DEF h
<1>11. g \in Position /\ g.pos = 8 /\ g.osPos = 8 /\ g.size = f.size /\ g.real = f.real
  BY <1>10, SubmittedFields
<1> HIDE DEF g
<1>12. InOrder(g)
  BY <1>2, <1>3, <1>7, <1>11 DEF InOrder, HeaderSize, Position
<1>13. g \in Position /\ InOrder(g) /\ g.osPos = 8 /\ g.real = f.real
  BY <1>11, <1>12
<1>14. HashedData(f) = body \/ HashedData(f) = <<>>
  BY DEF HashedData
<1> QED BY <1>1, <1>2, <1>3, <1>5, <1>6, <1>7, <1>8, <1>9, <1>13, <1>14 DEF g, h

LEMMA FlushChecksumKeeps == IInv /\ FlushChecksum => IInv'
<1> SUFFICES ASSUME IInv, FlushChecksum PROVE IInv'
  OBVIOUS
<1> DEFINE g == Submitted(HashEnd(f, CountOffset), 8)
<1>1. /\ pc = "writeEntries" /\ left = <<>> /\ f' = Write(g, 32)
      /\ sum' = HashedData(f) /\ changes' = FALSE /\ pc' = after /\ left' = <<>>
      /\ UNCHANGED <<head, body, entries, sec, ok, count, after>>
  BY DEF FlushChecksum, FlushReturns, At
<1>2. /\ ok /\ body = Contents(entries, sec) /\ Whole(body) /\ head
      /\ HashedData(f) = body \/ HashedData(f) = <<>>
      /\ g \in Position /\ InOrder(g) /\ g.osPos = 8 /\ g.real = f.real
      /\ f \in Position /\ f.real >= HeaderSize
  BY <1>1, ToSum
<1> HIDE DEF g
<1>3. f' \in Position /\ InOrder(f') /\ f'.osPos = 40 /\ f'.real = f.real
  <2>1. /\ f' \in Position /\ InOrder(f') /\ f'.osPos = g.osPos + 32
        /\ f'.real = IF g.osPos + 32 <= g.real THEN g.real ELSE g.osPos + 32
    BY <1>1, <1>2, WriteFields
  <2> QED BY <1>2, <2>1 DEF HeaderSize, Position
<1>4. after \in {"idle", "ending"}
  BY DEF IInv, TypeOK
<1>5. sum' \in Seq(Chunk)
  BY <1>1, <1>2, TornSum DEF IInv, TypeOK
<1>6. TypeOK'
  BY <1>1, <1>3, <1>4, <1>5, TornSum DEF IInv, TypeOK, Position
<1>7. SumWhole'
  <2>1. CASE sum' = body
    <3>1. Whole(sum')
      BY <1>2, <2>1
    <3> QED BY <3>1 DEF SumWhole, Whole
  <2>2. CASE sum' = <<>>
    BY <2>2 DEF SumWhole
  <2> QED BY <1>1, <1>2, <2>1, <2>2
<1>8. Saved'
  <2>1. Contents(entries, sec)' = Contents(entries, sec)
    BY <1>1
  <2> QED BY <1>1, <1>2, <2>1 DEF Saved
<1>9. NothingKept' /\ FirstIsCount' /\ Headed'
  BY <1>1, <1>2, <1>3, <1>4 DEF IInv, NothingKept, FirstIsCount, Headed, Loading
<1>10. Fresh' /\ HeaderRead'
  BY <1>1, <1>3, <1>4 DEF Fresh, HeaderRead, Loading
<1>11. ToSave' /\ Written' /\ Placed'
  BY <1>1, <1>4 DEF ToSave, Written, Placed, Saving
<1> QED BY <1>3, <1>6, <1>7, <1>8, <1>9, <1>10, <1>11 DEF IInv

LEMMA FlushFailsKeeps == IInv /\ FlushFails => IInv'
<1> SUFFICES ASSUME IInv, FlushFails PROVE IInv'
  OBVIOUS
<1>1. /\ pc \in {"resize", "writeCount", "writeEntries"}
      /\ pc' = after /\ left' = <<>>
      /\ UNCHANGED <<head, entries, sec, ok, changes, count, after>>
  BY DEF FlushFails, FlushReturns, At, diskVars, dataVars
<1>2. /\ after \in {"idle", "ending"} /\ f \in Position /\ InOrder(f) /\ body \in Seq(Chunk)
      /\ sum \in Seq(Chunk) /\ ok /\ changes /\ f.osPos # 0
  BY <1>1 DEF IInv, TypeOK, Position, ToSave, Saving, Fresh
<1>3. /\ f' \in Position /\ InOrder(f') /\ f'.osPos # 0
      /\ body' \in Seq(Chunk) /\ sum' \in Seq(Chunk)
      /\ sum' = sum \/ sum' = <<Torn>>
      /\ FirstIsCount'
  <2>1. CASE f' = f /\ body' = body /\ sum' = sum
    BY <1>2, <2>1 DEF IInv, FirstIsCount
  <2>2. CASE /\ pc = "writeCount" \/ (pc = "writeEntries" /\ left # <<>>)
             /\ f' = OsWrite(f, 1) /\ body' = Append(body, Torn) /\ sum' = sum
    <3>1. /\ f' \in Position /\ InOrder(f') /\ f'.osPos = f.osPos + 1
          /\ f'.real = IF f.osPos + 1 <= f.real THEN f.real ELSE f.osPos + 1
      BY <1>2, <2>2, OsWriteFields
    <3>2. Torn \in Chunk
      BY DEF Chunk
    <3>3. /\ body' \in Seq(Chunk) /\ body' # <<>>
          /\ body # <<>> => body'[1] = body[1]
      <4>1. body # <<>> => Len(body) >= 1
        BY <1>2, EmptySeq
      <4> QED BY <1>2, <2>2, <3>2, <4>1, AppendProperties
    <3>4. FirstIsCount'
      <4>1. CASE pc = "writeCount"
        <5>1. f.osPos = CountOffset /\ f.real = CountOffset
          BY <4>1 DEF IInv, ToSave, Resized
        <5>2. ~(f'.real >= HeaderSize)
          BY <3>1, <5>1 DEF HeaderSize, CountOffset
        <5> QED BY <5>2 DEF FirstIsCount
      <4>2. CASE pc = "writeEntries"
        <5>1. /\ body # <<>> /\ Len(entries) \in Nat
              /\ body[1] = CountOf(Uint32(Len(entries)))
          BY <4>2 DEF IInv, Written, TypeOK
        <5>2. body[1] \in [count : 0..MaxEntries]
          BY <5>1, IsCount
        <5> QED BY <3>3, <5>1, <5>2 DEF FirstIsCount
      <4> QED BY <2>2, <4>1, <4>2
    <3> QED BY <1>2, <2>2, <3>1, <3>3, <3>4 DEF Position
  <2>3. CASE /\ pc = "writeEntries" /\ left = <<>>
             /\ \/ f' = HashStart(f, CountOffset) /\ sum' = sum
                \/ f' = Submitted(HashEnd(f, CountOffset), 8) /\ sum' = sum
                \/ f' = OsWrite(Submitted(HashEnd(f, CountOffset), 8), 1) /\ sum' = <<Torn>>
             /\ body' = body
    <3> DEFINE g == Submitted(HashEnd(f, CountOffset), 8)
    <3>1. /\ g \in Position /\ InOrder(g) /\ g.osPos = 8 /\ g.real = f.real
          /\ f.real >= HeaderSize
          /\ f.pos # CountOffset => CountOffset <= f.size
      BY <2>3, ToSum
    <3> HIDE DEF g
    <3>2. f' \in Position /\ InOrder(f') /\ f'.osPos # 0 /\ f'.real = f.real
      <4>1. CASE f' = HashStart(f, CountOffset)
        <5>1. /\ f' \in Position /\ InOrder(f') /\ f'.real = f.real
              /\ f'.osPos = IF f.pos = CountOffset THEN f.osPos ELSE CountOffset
          BY <1>2, <3>1, <4>1, HashStartFields
        <5> QED BY <1>2, <5>1 DEF CountOffset
      <4>2. CASE f' = g
        BY <3>1, <4>2
      <4>3. CASE f' = OsWrite(g, 1)
        <5>1. /\ f' \in Position /\ InOrder(f') /\ f'.osPos = g.osPos + 1
              /\ f'.real = IF g.osPos + 1 <= g.real THEN g.real ELSE g.osPos + 1
          BY <3>1, <4>3, OsWriteFields
        <5> QED BY <1>2, <3>1, <5>1 DEF HeaderSize, Position
      <4> QED BY <2>3, <4>1, <4>2, <4>3 DEF g
    <3>3. sum' = sum \/ sum' = <<Torn>>
      BY <2>3
    <3>4. FirstIsCount'
      BY <2>3, <3>2 DEF IInv, FirstIsCount
    <3> QED BY <1>2, <2>3, <3>2, <3>3, <3>4, TornSum
  <2> QED BY <2>1, <2>2, <2>3 DEF FlushFails, At, diskVars
<1>4. TypeOK'
  BY <1>1, <1>2, <1>3, Blank DEF IInv, TypeOK, Position
<1>5. SumWhole'
  BY <1>3 DEF IInv, SumWhole, Whole
<1>6. NothingKept' /\ Headed' /\ Saved'
  BY <1>1, <1>2 DEF IInv, NothingKept, Headed, Loading, Saved
<1>7. Fresh' /\ HeaderRead'
  BY <1>1, <1>2, <1>3 DEF Fresh, HeaderRead, Loading
<1>8. ToSave' /\ Written' /\ Placed'
  BY <1>1, <1>2 DEF ToSave, Written, Placed, Saving
<1> QED BY <1>3, <1>4, <1>5, <1>6, <1>7, <1>8 DEF IInv

LEMMA NextIInv == IInv /\ [Next]_vars => IInv'
<1> SUFFICES ASSUME IInv, [Next]_vars PROVE IInv'
  OBVIOUS
<1>1. CASE UNCHANGED vars
  <2>1. UNCHANGED <<head, sum, body, f, entries, sec, ok, changes, count, pc, after, left>>
    BY <1>1 DEF vars, diskVars, dataVars, callVars
  <2>2. TypeOK' /\ InOrder(f')
    BY <2>1 DEF IInv, TypeOK
  <2>3. NothingKept' /\ FirstIsCount' /\ SumWhole' /\ Headed' /\ Saved'
    BY <2>1 DEF IInv, NothingKept, FirstIsCount, SumWhole, Whole, Headed, Loading, Saved
  <2>4. Fresh' /\ HeaderRead' /\ ToSave' /\ Written'
    BY <2>1 DEF IInv, Fresh, HeaderRead, ToSave, Written, Loading, Saving
  <2>5. Placed'
    BY <2>1 DEF IInv, Placed
  <2> QED BY <2>2, <2>3, <2>4, <2>5 DEF IInv
<1>2. CASE MakeStorage \/ MakeHeader \/ MakeHeaderFails
  BY <1>2, MakeKeeps
<1>3. CASE Refresh \/ \E s \in Secret : Construct(s)
  BY <1>3, ConstructKeeps, RefreshKeeps
<1>4. CASE Load
  BY <1>4, LoadHeaderKeeps, LoadChecksumKeeps, LoadEntriesKeeps, LoadMeetsBadKeeps,
     LoadFailsKeeps, GoneKeeps DEF Load
<1>5. CASE Edit
  BY <1>5, EditShape, ResealedKeeps, RewritesKeeps
<1>6. CASE Flush \/ Destroy
  BY <1>6, BeginFlushKeeps DEF Flush, Destroy
<1>7. CASE Save
  BY <1>7, FlushResizeKeeps, FlushCountKeeps, FlushEntryKeeps, FlushChecksumKeeps,
     FlushFailsKeeps DEF Save
<1> QED BY <1>1, <1>2, <1>3, <1>4, <1>5, <1>6, <1>7, GoneKeeps DEF Next

\* The inductive invariant of a storage of settings, at every place of a load and a
\* flush (scfg.cpp:140-271).
THEOREM Invariant == Spec => []IInv
BY InitIInv, NextIInv, PTL DEF Spec

\* The fields of an scfg_file and its file keep their types, for any settings,
\* secrets and number that can be counted: an object that is not loaded takes as many
\* entries as that, a load adds no more than as many, and then nothing adds one.
THEOREM TypeCorrect == Spec => []TypeOK
<1>1. IInv => TypeOK
  BY DEF IInv
<1> QED BY <1>1, Invariant, PTL

\* An object without changes holds what the file holds under its own secret,
\* whatever failed before and in whatever order its methods were called, the two that
\* change the secret among them (scfg.cpp:306-628).
THEOREM NothingForgotten == Spec => []CleanMeansSaved
<1>1. IInv => CleanMeansSaved
  BY DEF IInv, Saved, CleanMeansSaved, Clean, At
<1> QED BY <1>1, Invariant, PTL

\* A flush writes at the end of the file, although it never seeks there, for any
\* number of entries of any sizes (scfg.cpp:237-271).
THEOREM AtTheEnd == Spec => []WritesAtEnd
<1>1. IInv => WritesAtEnd
  <2> SUFFICES ASSUME IInv, pc \in {"writeCount", "writeEntries"}
               PROVE  f.osPos = f.real /\ f.real = CountOffset + BytesUpTo(body, Len(body))
    BY DEF WritesAtEnd
  <2> DEFINE w == BytesUpTo(body, Len(body))
  <2>1. CASE pc = "writeCount"
    <3>1. body = <<>> /\ f.osPos = CountOffset /\ f.real = CountOffset
      BY <2>1 DEF IInv, ToSave, Resized
    <3>2. w = 0
      <4>1. DOMAIN <<>> = {} /\ Len(<<>>) = 0
        OBVIOUS
      <4>2. w = SumUpTo(<<>>, 0)
        BY <3>1, <4>1 DEF BytesUpTo
      <4>3. <<>> \in Seq(Nat)
        OBVIOUS
      <4> QED BY <4>2, <4>3, SumFields
    <3>3. f.real = CountOffset + w
      <4> HIDE DEF w
      <4> QED BY <3>1, <3>2 DEF CountOffset
    <3> QED BY <3>1, <3>3 DEF w
  <2>2. CASE pc = "writeEntries"
    <3> DEFINE v == EntryBytesUpTo(entries, Len(body) - 1)
    <3>1. f.osPos = f.real /\ f.real = HeaderSize + v
      BY <2>2 DEF IInv, Placed
    <3>2. /\ body # <<>> /\ body[1] = CountOf(Uint32(Len(entries)))
          /\ Len(body) + Len(left) = Len(entries) + 1
          /\ \A k \in 2..Len(body) : body[k] = Encrypted(entries[k - 1], sec)
      BY <2>2 DEF IInv, Written
    <3>3. /\ body \in Seq(Chunk) /\ entries \in Seq(Entry) /\ left \in Seq(Entry)
          /\ sec \in Secret
      BY DEF IInv, TypeOK
    <3>4. Len(body) \in Nat /\ Len(entries) \in Nat /\ Len(left) \in Nat /\ Len(body) # 0
      BY <3>2, <3>3, EmptySeq
    <3>5. Len(body) <= Len(entries) + 1 /\ Len(body) - 1 \in 0..Len(entries)
      BY <3>2, <3>4
    <3>6. w = 4 + v
      BY <3>2, <3>3, <3>5, BytesOfVersion
    <3>7. v \in Nat
      BY <3>3, <3>5, EntryBytesFields
    <3> HIDE DEF v, w
    <3>8. f.real = CountOffset + w
      BY <3>1, <3>6, <3>7 DEF HeaderSize, CountOffset
    <3> QED BY <3>1, <3>8 DEF w
  <2> QED BY <2>1, <2>2
<1> QED BY <1>1, Invariant, PTL

-----------------------------------------------------------------------------
(* The refinement of Store.                                                *)

AllLoadable ==
  \A k \in DOMAIN Counted(Tail(body)) : Loadable(Tail(body)[k].entry.value)

\* As many ciphers as are counted are the version a load finds.
LEMMA VersionFields ==
  ASSUME NEW es \in Seq(Entry), NEW x \in Secret,
         NEW c \in Seq(Cipher), Len(c) = Uint32(Len(es)),
         \A k \in 1..Len(c) : c[k] = Encrypted(es[k], x)
  PROVE  c = Abstract!Version(Counted(es), x)
<1> DEFINE u == Uint32(Len(es))
           v == [k \in 1..u |-> Encrypted(Counted(es)[k], x)]
<1>1. u \in Nat /\ Len(c) = u
  BY CutCount
<1>2. /\ Counted(es) \in Seq(Entry) /\ Len(Counted(es)) = u
      /\ \A k \in 1..u : Counted(es)[k] = es[k]
  BY CountedFields
<1> HIDE DEF u
<1>3. DOMAIN Counted(es) = 1..u
  BY <1>2
<1>4. \A k \in 1..u : Encrypted(Counted(es)[k], x) \in Cipher
  BY <1>2, ElementOfSeq DEF Encrypted, Cipher
<1>5. /\ v \in Seq(Cipher) /\ Len(v) = u
      /\ \A k \in 1..u : v[k] = Encrypted(Counted(es)[k], x)
  BY <1>1, <1>4
<1>6. Abstract!Version(Counted(es), x) = v
  BY <1>3 DEF Abstract!Version
<1> HIDE DEF v
<1>7. \A k \in 1..u : c[k] = v[k]
  BY <1>1, <1>2, <1>5
<1>8. c = v
  BY <1>1, <1>5, <1>7, SeqEqual
<1> QED BY <1>6, <1>8

LEMMA SameDisk == UNCHANGED <<head, sum, body>> => Durable' = Durable
BY DEF Durable

LEMMA NothingDurable ==
  ~head \/ sum # body \/ body = <<>> \/ body[1] = Torn \/ ~AllLoadable => Durable = {}
BY DEF Durable, AllLoadable

LEMMA WholeDurable ==
  Whole(body) /\ sum = body /\ head /\ AllLoadable => Durable = {Counted(Tail(body))}
<1> SUFFICES ASSUME Whole(body), sum = body, head, AllLoadable
             PROVE  Durable = {Counted(Tail(body))}
  OBVIOUS
<1>1. body # <<>> /\ body[1] # Torn
  BY WholeFields DEF Whole
<1> QED BY <1>1 DEF Durable, AllLoadable

LEMMA EmptyStorage ==
  body = <<CountOf(0)>> /\ sum = body /\ head => Durable = {<<>>}
<1> SUFFICES ASSUME body = <<CountOf(0)>>, sum = body, head PROVE Durable = {<<>>}
  OBVIOUS
<1>1. body # <<>> /\ body[1] # Torn /\ Tail(body) = <<>>
  BY Kinds
<1>2. Counted(Tail(body)) = <<>>
  BY <1>1, Blank, CountedFields
<1>3. AllLoadable
  BY <1>2 DEF AllLoadable
<1> QED BY <1>1, <1>2, <1>3 DEF Durable, AllLoadable

LEMMA EmptyStorageNext ==
  body' = <<CountOf(0)>> /\ sum' = body' /\ head' => Durable' = {<<>>}
<1>1. (body = <<CountOf(0)>> /\ sum = body /\ head => Durable = {<<>>})'
  BY EmptyStorage, PTL
<1> QED BY <1>1

LEMMA InitImplements == Init => Abstract!Init
<1> SUFFICES ASSUME Init PROVE Abstract!Init
  OBVIOUS
<1>1. Durable = {<<>>}
  BY EmptyStorage DEF Init
<1> QED BY <1>1 DEF Abstract!Init, Init

LEMMA MakeImplements ==
  ASSUME IInv, MakeStorage \/ MakeHeader \/ MakeHeaderFails
  PROVE  [Abstract!Next]_(Abstract!vars)
<1>1. /\ pc \in {"gone", "make"} /\ pc' \in {"gone", "make"}
      /\ UNCHANGED <<entries, sec, ok, changes>>
  BY DEF MakeStorage, MakeHeader, MakeHeaderFails, At, dataVars
<1>2. UNCHANGED Abstract!object
  BY <1>1 DEF Abstract!object
<1>3. CASE MakeStorage
  <2>1. Durable' = {}
    BY <1>3 DEF MakeStorage, Durable
  <2> QED BY <1>1, <1>2, <2>1 DEF Abstract!Next, Abstract!Wipe
<1>4. CASE MakeHeader
  <2>1. Durable' = {<<>>}
    BY <1>4, EmptyStorageNext DEF MakeHeader
  <2> QED BY <1>1, <1>2, <2>1 DEF Abstract!Next, Abstract!Create
<1>5. CASE MakeHeaderFails
  <2>1. Durable' = Durable
    BY <1>5, SameDisk DEF MakeHeaderFails, diskVars
  <2> QED BY <1>2, <2>1 DEF Abstract!vars
<1> QED BY <1>3, <1>4, <1>5

LEMMA ConstructImplements ==
  ASSUME IInv, NEW s \in Secret, Construct(s)
  PROVE  Abstract!Open
BY SameDisk DEF Construct, At, diskVars, Abstract!Open

\* The steps before an answer, and a flush that has nothing to do or not begun.
LEMMA Stutters ==
  ASSUME UNCHANGED <<head, sum, body, entries, sec, ok, changes>>,
         pc \notin {"gone", "make", "writeCount", "writeEntries"},
         pc' \notin {"gone", "make", "writeCount", "writeEntries"}
  PROVE  UNCHANGED Abstract!vars
BY SameDisk DEF Abstract!vars, Abstract!object

LEMMA NotLoadedImplements ==
  ASSUME pc \in {"loadHeader", "loadChecksum", "loadEntries"},
         entries' = entries \/ entries' = <<>>, Loaded(FALSE),
         UNCHANGED <<head, sum, body, sec, changes>>
  PROVE  Abstract!LoadFails
BY SameDisk DEF Loaded, Abstract!LoadFails

LEMMA LoadEntriesImplements == IInv /\ LoadEntries => Abstract!Load
<1> SUFFICES ASSUME IInv, LoadEntries PROVE Abstract!Load
  OBVIOUS
<1>1. /\ pc = "loadEntries" /\ pc' = "idle" /\ ok' = TRUE /\ entries' = entries \o Plain
      /\ UNCHANGED <<head, sum, body, sec, changes, count, after, left>>
  BY DEF LoadEntries, At, Loaded, diskVars, Plain
<1>2. /\ Whole(body) /\ sum = body /\ head /\ ~ok
      /\ count = Uint32(Len(body) - 1) /\ count \in Nat
      /\ OnDisk = Counted(Tail(body)) /\ OnDisk \in Seq(Cipher) /\ Len(OnDisk) = count
      /\ changes \/ entries = <<>>
  BY <1>1, ToLoad
<1>3. /\ Plain \in Seq(Entry) /\ Len(Plain) = count
      /\ \A k \in 1..count : OnDisk[k] = Encrypted(Plain[k], sec)
      /\ \A k \in 1..count : Loadable(Plain[k].value)
  BY PlainFields
<1>4. AllLoadable
  <2> SUFFICES ASSUME NEW k \in DOMAIN Counted(Tail(body))
               PROVE  Loadable(Tail(body)[k].entry.value)
    BY DEF AllLoadable
  <2>1. k \in 1..count
    BY <1>2
  <2>2. Tail(body) \in Seq(Cipher) /\ Len(Tail(body)) = Len(body) - 1
    BY <1>2, WholeFields
  <2>3. OnDisk[k] = Tail(body)[k]
    BY <1>2, <2>1, <2>2, CountedFields
  <2>4. Tail(body)[k] = Encrypted(Plain[k], sec)
    BY <1>3, <2>1, <2>3
  <2>5. Encrypted(Plain[k], sec).entry = Plain[k]
    BY DEF Encrypted
  <2> QED BY <1>3, <2>1, <2>4, <2>5
<1>5. Durable = {OnDisk} /\ Durable' = Durable
  BY <1>1, <1>2, <1>4, WholeDurable, SameDisk
<1>6. Abstract!Version(Plain, sec) = OnDisk
  <2> DEFINE v == [k \in 1..count |-> Encrypted(Plain[k], sec)]
  <2>1. \A k \in 1..count : Encrypted(Plain[k], sec) \in Cipher
    BY <1>2, <1>3, ElementOfSeq
  <2>2. v \in Seq(Cipher) /\ Len(v) = count /\ \A k \in 1..count : v[k] = OnDisk[k]
    BY <1>2, <1>3, <2>1
  <2>3. Abstract!Version(Plain, sec) = v
    <3>1. DOMAIN Plain = 1..count
      BY <1>3
    <3> QED BY <3>1 DEF Abstract!Version
  <2> HIDE DEF v
  <2>4. v = OnDisk
    BY <1>2, <2>2, SeqEqual
  <2> QED BY <2>3, <2>4
<1> DEFINE added == SubSeq(entries', Len(entries) + 1, Len(entries'))
<1>7. added = Plain
  <2>1. entries \in Seq(Entry) /\ entries' \in Seq(Entry)
    <3>1. entries \in Seq(Entry)
      BY DEF IInv, TypeOK
    <3>2. entries \o Plain \in Seq(Entry)
      BY <1>3, <3>1, ConcatProperties
    <3> QED BY <1>1, <3>1, <3>2
  <2>2. /\ Len(entries') = Len(entries) + Len(Plain)
        /\ \A k \in 1..Len(entries') :
             entries'[k] = IF k <= Len(entries) THEN entries[k] ELSE Plain[k - Len(entries)]
    <3>1. PICK t : t = entries \o Plain
      OBVIOUS
    <3>2. /\ Len(t) = Len(entries) + Len(Plain)
          /\ \A k \in 1..Len(t) :
               t[k] = IF k <= Len(entries) THEN entries[k] ELSE Plain[k - Len(entries)]
      <4>1. PICK p : p = Plain
        OBVIOUS
      <4>2. p \in Seq(Entry) /\ t = entries \o p
        BY <1>3, <3>1, <4>1
      <4>3. /\ Len(t) = Len(entries) + Len(p)
            /\ \A k \in 1..Len(t) :
                 t[k] = IF k <= Len(entries) THEN entries[k] ELSE p[k - Len(entries)]
        BY <2>1, <4>2
      <4> QED BY <4>1, <4>3
    <3> QED BY <1>1, <3>1, <3>2
  <2>3. Len(entries) \in Nat /\ Len(Plain) \in Nat
    BY <1>2, <1>3, <2>1
  <2>4. /\ added \in Seq(Entry) /\ Len(added) = Len(Plain)
        /\ \A k \in 1..Len(Plain) : added[k] = entries'[Len(entries) + k]
    BY <2>1, <2>2, <2>3
  <2> HIDE DEF added
  <2>5. ASSUME NEW k \in 1..Len(Plain) PROVE added[k] = Plain[k]
    <3>1. /\ Len(entries) + k \in 1..Len(entries') /\ ~(Len(entries) + k <= Len(entries))
          /\ (Len(entries) + k) - Len(entries) = k
      BY <2>2, <2>3
    <3>2. entries'[Len(entries) + k] = Plain[k]
      BY <2>2, <3>1
    <3> QED BY <2>4, <3>2
  <2> QED BY <1>3, <2>4, <2>5, SeqEqual
<1> HIDE DEF added
<1>8. /\ OnDisk \in Durable /\ entries' = entries \o added
      /\ Abstract!Version(added, sec) = OnDisk
  BY <1>1, <1>5, <1>6, <1>7
<1> QED BY <1>1, <1>2, <1>5, <1>8 DEF Abstract!Load, added

LEMMA GoneImplements == Destroyed \/ Crash \/ LoadTerminates => Abstract!Close
BY SameDisk DEF Destroyed, Crash, LoadTerminates, Gone, diskVars, Abstract!Close

LEMMA LoadImplements ==
  ASSUME IInv, Load
  PROVE  [Abstract!Next]_(Abstract!vars)
<1>1. CASE LoadHeader
  <2>1. pc = "loadHeader" /\ UNCHANGED <<head, sum, body, entries, sec, changes>>
    BY <1>1 DEF LoadHeader, At, diskVars
  <2>2. (pc' = "loadChecksum" /\ ok' = ok) \/ Loaded(FALSE)
    BY <1>1 DEF LoadHeader
  <2> QED BY <2>1, <2>2, Stutters, NotLoadedImplements DEF Abstract!Next
<1>2. CASE LoadChecksum
  <2>1. pc = "loadChecksum" /\ UNCHANGED <<head, sum, body, entries, sec, changes>>
    BY <1>2 DEF LoadChecksum, At, diskVars
  <2>2. (pc' = "loadEntries" /\ ok' = ok) \/ Loaded(FALSE)
    BY <1>2 DEF LoadChecksum
  <2> QED BY <2>1, <2>2, Stutters, NotLoadedImplements DEF Abstract!Next
<1>3. CASE LoadEntries
  BY <1>3, LoadEntriesImplements DEF Abstract!Next
<1>4. CASE LoadMeetsBad \/ LoadFails
  <2>1. /\ pc \in {"loadHeader", "loadChecksum", "loadEntries"}
        /\ entries' = entries \/ entries' = <<>>
        /\ Loaded(FALSE) /\ UNCHANGED <<head, sum, body, sec, changes>>
    BY <1>4 DEF LoadMeetsBad, LoadFails, At, diskVars
  <2> QED BY <2>1, NotLoadedImplements DEF Abstract!Next
<1>5. CASE LoadTerminates
  BY <1>5, GoneImplements DEF Abstract!Next
<1> QED BY <1>1, <1>2, <1>3, <1>4, <1>5 DEF Load

LEMMA EditImplements == IInv /\ Edit => Abstract!Reseal \/ Abstract!Edit
<1> SUFFICES ASSUME IInv, Edit PROVE Abstract!Reseal \/ Abstract!Edit
  OBVIOUS
<1>1. CASE Resealed
  <2>1. PICK s \in Secret : SetSecret(s)
    BY <1>1 DEF Resealed
  <2>2. /\ pc = "idle" /\ pc' = "idle" /\ changes' = (changes \/ ok)
        /\ UNCHANGED <<head, sum, body, entries, ok>>
    BY <2>1 DEF SetSecret, At, diskVars, callVars
  <2>3. Durable' = Durable
    BY <2>2, SameDisk
  <2> QED BY <2>2, <2>3 DEF Abstract!Reseal
<1>2. CASE Rewrites
  <2>1. PICK es : Changed(es) /\ Edited(es)
    BY <1>2 DEF Rewrites
  <2>2. /\ pc = "idle" /\ pc' = "idle" /\ entries' = es /\ changes' = TRUE
        /\ UNCHANGED <<head, sum, body, sec, ok>>
    BY <1>2, <2>1 DEF Rewrites, Changed, diskVars, callVars
  <2>3. Durable' = Durable
    BY <2>2, SameDisk
  <2>4. \/ \E e \in Entry : entries' = Append(entries, e)
        \/ /\ ok
           /\ \/ \E k \in DOMAIN entries, e \in Entry : entries' = [entries EXCEPT ![k] = e]
              \/ \E k \in DOMAIN entries :
                   entries' = SubSeq(entries, 1, k - 1) \o
                              SubSeq(entries, k + 1, Len(entries))
              \/ entries' = <<>>
    BY <2>1, <2>2, Zenon DEF Edited, Appended, ReplaceAt, RemoveAt
  <2> QED BY <2>2, <2>3, <2>4 DEF Abstract!Edit
<1> QED BY <1>1, <1>2, EditShape

LEMMA BeginFlushImplements ==
  ASSUME NEW return \in {"idle", "ending"}, BeginFlush(return)
  PROVE  UNCHANGED Abstract!vars
BY Stutters DEF BeginFlush, At, diskVars, dataVars

\* What is being written is nothing to a load, or already all that one takes.
RewriteIsWhole ==
  pc = "writeEntries" =>
    Durable = {} \/ Durable = {Abstract!Version(Counted(entries), sec)}

LEMMA Rewritten == IInv => RewriteIsWhole
<1> SUFFICES ASSUME IInv, pc = "writeEntries", Durable # {}
             PROVE  Durable = {Abstract!Version(Counted(entries), sec)}
  BY DEF RewriteIsWhole
<1>1. head /\ sum = body /\ body # <<>> /\ body[1] # Torn /\ AllLoadable
  BY NothingDurable
<1>2. /\ body \in Seq(Chunk) /\ left \in Seq(Entry) /\ sec \in Secret
      /\ entries \in Seq(Entry)
  BY DEF IInv, TypeOK
<1>3. sum # <<Torn>>
  BY <1>1
<1>4. Whole(body)
  BY <1>1, <1>3 DEF IInv, SumWhole
<1>5. /\ body[1] = CountOf(Uint32(Len(entries)))
      /\ \A k \in 2..Len(body) : body[k] = Encrypted(entries[k - 1], sec)
  BY DEF IInv, Written
<1> DEFINE es == Tail(body)
           u == Uint32(Len(es))
<1>6. /\ body[1].count = Uint32(Len(body) - 1) /\ Len(body) \in Nat /\ Len(body) >= 1
      /\ es \in Seq(Cipher) /\ Len(es) = Len(body) - 1
      /\ \A k \in 1..(Len(body) - 1) : es[k] = body[k + 1]
  BY <1>4, WholeFields
<1> HIDE DEF es
\* Both counts are one, and so are as many entries.
<1>7. Uint32(Len(entries)) = u
  BY <1>5, <1>6 DEF CountOf
<1>8. u \in Nat /\ u <= Len(es) /\ Len(es) \in Nat
  BY <1>6, CutCount
<1>9. /\ Counted(es) \in Seq(Cipher) /\ Len(Counted(es)) = u
      /\ \A k \in 1..u : Counted(es)[k] = es[k]
  BY <1>6, CountedFields
<1> HIDE DEF u
<1>10. ASSUME NEW k \in 1..u PROVE Counted(es)[k] = Encrypted(entries[k], sec)
  <2>1. k \in 1..(Len(body) - 1) /\ k + 1 \in 2..Len(body) /\ (k + 1) - 1 = k
    BY <1>6, <1>8
  <2> QED BY <1>5, <1>6, <1>9, <2>1
<1>11. Counted(es) = Abstract!Version(Counted(entries), sec)
  BY <1>2, <1>7, <1>9, <1>10, VersionFields
<1> QED BY <1>1, <1>4, <1>11, WholeDurable DEF es

LEMMA RewrittenNext == IInv' => RewriteIsWhole'
BY Rewritten, PTL

LEMMA FlushChecksumImplements == IInv /\ FlushChecksum => Abstract!Commit
<1> SUFFICES ASSUME IInv, FlushChecksum PROVE Abstract!Commit
  OBVIOUS
<1>1. /\ pc = "writeEntries" /\ left = <<>> /\ pc' = after
      /\ sum' = HashedData(f) /\ changes' = FALSE
      /\ UNCHANGED <<head, body, entries, sec, ok>>
  BY DEF FlushChecksum, FlushReturns, At
<1>2. /\ body = Contents(entries, sec) /\ Whole(body) /\ head
      /\ entries \in Seq(Entry) /\ sec \in Secret
      /\ HashedData(f) # body => ~Catches(entries)
  BY <1>1, ToSum
<1>3. after \in {"idle", "ending"}
  BY DEF IInv, TypeOK
<1> DEFINE es == Tail(body)
           now == Abstract!Version(Counted(entries), sec)
<1>4. /\ es \in Seq(Cipher) /\ Len(es) = Len(entries) /\ Len(entries) \in Nat
      /\ \A k \in 1..Len(entries) : es[k] = Encrypted(entries[k], sec)
  BY <1>2, TailOfContents
<1> HIDE DEF es
<1>5. /\ Uint32(Len(entries)) \in Nat /\ Uint32(Len(entries)) <= Len(entries)
      /\ Counted(es) \in Seq(Cipher) /\ Len(Counted(es)) = Uint32(Len(entries))
      /\ \A k \in 1..Uint32(Len(entries)) : Counted(es)[k] = es[k]
  BY <1>4, CutCount, CountedFields
<1>6. Counted(es) = now
  <2>1. \A k \in 1..Len(Counted(es)) : Counted(es)[k] = Encrypted(entries[k], sec)
    BY <1>4, <1>5
  <2> QED BY <1>2, <1>5, <2>1, VersionFields
<1> HIDE DEF now
<1>7. body # <<>> /\ body[1] # Torn
  BY <1>2, WholeFields DEF Whole
<1>8. CASE HashedData(f) = body /\ AllLoadable
  <2>1. Durable' = {now}
    BY <1>1, <1>2, <1>6, <1>7, <1>8 DEF Durable, AllLoadable, es
  <2> QED BY <1>1, <1>3, <2>1 DEF Abstract!Commit, now
<1>9. CASE HashedData(f) # body \/ ~AllLoadable
  <2>1. Durable' = {}
    BY <1>1, <1>9 DEF Durable, AllLoadable
  <2>2. Unsafe(entries)
    <3>1. CASE HashedData(f) # body
      BY <1>2, <3>1 DEF Unsafe
    <3>2. CASE ~AllLoadable
      <4>1. PICK k \in DOMAIN Counted(es) : ~Loadable(es[k].entry.value)
        BY <3>2 DEF AllLoadable, es
      <4>2. k \in 1..Len(entries) /\ k \in DOMAIN entries
        BY <1>2, <1>4, <1>5
      <4>3. es[k] = Encrypted(entries[k], sec)
        BY <1>4, <4>2
      <4>4. Encrypted(entries[k], sec).entry = entries[k]
        BY DEF Encrypted
      <4> QED BY <4>1, <4>2, <4>3, <4>4 DEF Unsafe
    <3> QED BY <1>9, <3>1, <3>2
  <2> QED BY <1>1, <1>3, <2>1, <2>2 DEF Abstract!Commit
<1> QED BY <1>8, <1>9

LEMMA FlushFailsImplements == IInv /\ FlushFails => [Abstract!Next]_(Abstract!vars)
<1> SUFFICES ASSUME IInv, FlushFails PROVE [Abstract!Next]_(Abstract!vars)
  OBVIOUS
<1>1. /\ pc' \in {"idle", "ending"} /\ UNCHANGED <<head, entries, sec, ok, changes>>
  <2>1. after \in {"idle", "ending"}
    BY DEF IInv, TypeOK
  <2> QED BY <2>1 DEF FlushFails, FlushReturns, diskVars, dataVars
<1>2. CASE pc = "resize"
  <2>1. UNCHANGED <<sum, body>>
    BY <1>2 DEF FlushFails, At, diskVars
  <2> QED BY <1>1, <1>2, <2>1, Stutters
<1>3. CASE pc \in {"writeCount", "writeEntries"}
  <2> DEFINE now == Abstract!Version(Counted(entries), sec)
  <2>1. Durable' = {} \/ Durable' = {now}
    <3>1. CASE pc = "writeCount"
      <4>1. body = <<>> /\ (body' = body \/ body' = Append(body, Torn))
        BY <3>1 DEF FlushFails, At, diskVars, IInv, ToSave
      <4>2. body' = <<>> \/ body'[1] = Torn
        BY <4>1
      <4> QED BY <4>2 DEF Durable
    <3>2. CASE pc = "writeEntries" /\ left # <<>>
      <4>1. sum' = sum /\ (body' = body \/ body' = Append(body, Torn))
        BY <3>2 DEF FlushFails, At, diskVars
      <4>2. CASE body' = body
        BY <1>1, <3>2, <4>1, <4>2, SameDisk, Rewritten DEF RewriteIsWhole
      <4>3. CASE body' = Append(body, Torn)
        <5>1. body # <<>> /\ body \in Seq(Chunk) /\ Torn \in Chunk
          BY <3>2 DEF IInv, Written, TypeOK, Chunk
        <5>2. Len(body) \in Nat \ {0}
          BY <5>1, EmptySeq
        <5>3. Len(body') = Len(body) + 1 /\ body'[Len(body) + 1] = Torn
          BY <4>3, <5>1, AppendProperties
        <5>4. sum' # body'
          <6> SUFFICES ASSUME sum = body' PROVE FALSE
            BY <4>1
          <6>1. Len(sum) = Len(body) + 1 /\ sum[Len(body) + 1] = Torn
            BY <5>3
          <6>2. sum # <<>> /\ sum # <<Torn>>
            BY <5>2, <6>1
          <6>3. Whole(sum)
            BY <6>2 DEF IInv, SumWhole
          <6>4. Len(body) + 1 \in 2..Len(sum)
            BY <5>2, <6>1
          <6>5. sum[Len(body) + 1] \in Cipher
            BY <6>3, <6>4 DEF Whole
          <6> QED BY <6>1, <6>5, Kinds
        <5> QED BY <5>4 DEF Durable
      <4> QED BY <4>1, <4>2, <4>3
    <3>3. CASE pc = "writeEntries" /\ left = <<>>
      <4>1. body' = body /\ (sum' = sum \/ sum' = <<Torn>>)
        BY <3>3 DEF FlushFails, At, diskVars
      <4>2. CASE sum' = sum
        BY <1>1, <3>3, <4>1, <4>2, SameDisk, Rewritten DEF RewriteIsWhole
      <4>3. CASE sum' = <<Torn>>
        <5>1. body'[1] = Torn \/ sum' # body'
          BY <4>3
        <5> QED BY <5>1 DEF Durable
      <4> QED BY <4>1, <4>2, <4>3
    <3> QED BY <1>3, <3>1, <3>2, <3>3
  <2> QED BY <1>1, <1>3, <2>1 DEF Abstract!Next, Abstract!SaveFails
<1> QED BY <1>2, <1>3 DEF FlushFails, At

LEMMA SaveImplements ==
  ASSUME IInv, IInv', Save
  PROVE  [Abstract!Next]_(Abstract!vars)
<1>1. CASE FlushResize
  <2>1. /\ pc = "resize" /\ pc' = "writeCount" /\ body' = <<>>
        /\ UNCHANGED <<entries, sec, ok, changes>>
    BY <1>1 DEF FlushResize, At, dataVars
  <2>2. ok /\ changes
    BY <2>1 DEF IInv, ToSave, Saving
  <2>3. Durable' = {}
    BY <2>1 DEF Durable
  <2> QED BY <2>1, <2>2, <2>3 DEF Abstract!Next, Abstract!BeginSave
<1>2. CASE FlushCount \/ FlushEntry
  <2>1. /\ pc \in {"writeCount", "writeEntries"} /\ pc' = "writeEntries"
        /\ UNCHANGED <<entries, sec, ok, changes>>
    BY <1>2 DEF FlushCount, FlushEntry, At, dataVars
  <2>2. Durable' = {} \/ Durable' = {Abstract!Version(Counted(entries), sec)}
    <3>1. /\ Abstract!Version(Counted(entries), sec)' =
               Abstract!Version(Counted(entries), sec)
      BY <2>1
    <3> QED BY <2>1, <3>1, RewrittenNext DEF RewriteIsWhole
  <2>3. UNCHANGED Abstract!object
    BY <2>1 DEF Abstract!object
  <2> QED BY <2>1, <2>2, <2>3 DEF Abstract!Next, Abstract!Rewrite
<1>3. CASE FlushChecksum
  BY <1>3, FlushChecksumImplements DEF Abstract!Next
<1>4. CASE FlushFails
  BY <1>4, FlushFailsImplements
<1> QED BY <1>1, <1>2, <1>3, <1>4 DEF Save

LEMMA NextImplements == IInv /\ IInv' /\ [Next]_vars => [Abstract!Next]_(Abstract!vars)
<1> SUFFICES ASSUME IInv, IInv', [Next]_vars
             PROVE  [Abstract!Next]_(Abstract!vars)
  OBVIOUS
<1>1. CASE UNCHANGED vars
  <2>1. UNCHANGED <<head, sum, body, entries, sec, ok, changes, pc>>
    BY <1>1 DEF vars, diskVars, dataVars, callVars
  <2> QED BY <2>1, SameDisk DEF Abstract!vars, Abstract!object
<1>2. CASE MakeStorage \/ MakeHeader \/ MakeHeaderFails
  BY <1>2, MakeImplements
<1>3. CASE \E s \in Secret : Construct(s)
  BY <1>3, ConstructImplements DEF Abstract!Next
<1>4. CASE Refresh
  <2>1. /\ pc = "idle" /\ pc' = "loadHeader"
        /\ UNCHANGED <<head, sum, body, entries, sec, ok, changes>>
    BY <1>4 DEF Refresh, At, diskVars, dataVars
  <2> QED BY <2>1, Stutters
<1>5. CASE Load
  BY <1>5, LoadImplements
<1>6. CASE Edit
  BY <1>6, EditImplements DEF Abstract!Next
<1>7. CASE Flush \/ Destroy
  BY <1>7, BeginFlushImplements DEF Flush, Destroy
<1>8. CASE Destroyed \/ Crash
  BY <1>8, GoneImplements DEF Abstract!Next
<1>9. CASE Save
  BY <1>9, SaveImplements
<1> QED BY <1>1, <1>2, <1>3, <1>4, <1>5, <1>6, <1>7, <1>8, <1>9 DEF Next

\* The storage of settings implements Store: whatever call fails and wherever the
\* process ends, the file holds one whole version of the entries under one secret or
\* nothing that loads, and a save without a failure puts the entries there but for
\* the two faults Unsafe names (scfg.cpp:131-342), for any settings and secrets and
\* any number of entries.
THEOREM Refinement == Spec => Promise
BY InitIInv, NextIInv, InitImplements, NextImplements, PTL
DEF Spec, Promise, Abstract!Spec
=============================================================================
