---------------------------- MODULE Sudb_proofs ----------------------------
(***************************************************************************)
(* Proofs about Sudb: types, that an object without changes is saved, where*)
(* a flush writes, and that the storage implements Store, for any accounts,*)
(* any number of entries, and wherever a call fails or the process ends.   *)
(***************************************************************************)
EXTENDS Sudb, SequenceTheorems, WellFoundedInduction, TLAPS

Position == [pos : Nat, size : Nat, osPos : Nat, real : Nat]

\* What the object knows of the file is behind what is.
InOrder(g) ==
  /\ g.pos <= g.size /\ g.size <= g.real
  /\ g.pos <= g.osPos /\ g.osPos <= g.real

\* s is a count and entries, as many unless they are more than can be counted.
Whole(s) ==
  /\ s # <<>>
  /\ Tail(s) \in Seq(Entry)
  /\ s = Contents(Tail(s))

\* Without an object there is nothing in memory.
NothingKept == pc \in {"gone", "make"} => entries = <<>> /\ ~ok /\ ~changes

\* Forty-four bytes begin with a count, and a checksum is that of a version, that
\* of nothing, or torn.
FirstIsCount ==
  f.real >= HeaderSize => body # <<>> /\ body[1] \in [count : 0..MaxEntries]
SumWhole == sum = <<>> \/ sum = <<Torn>> \/ Whole(sum)

Loading == pc \in {"loadChecksum", "loadEntries"}
Saving == pc \in {"resize", "writeCount", "writeEntries"}

\* What has been loaded had the signature.
Headed == ok \/ Loading => head

\* A file can be loaded from its beginning only: the object has not loaded then, and
\* what it has in memory are entries to be saved, no more than it may append.
Fresh ==
  pc \notin {"gone", "make"} /\ (f.osPos = 0 \/ Loading) =>
    /\ ~ok
    /\ changes \/ entries = <<>>
    /\ Len(entries) <= MaxEntries

\* The places of a load: the header is read, and then the checksum compared.
HeaderRead ==
  Loading =>
    /\ f.real >= HeaderSize /\ f.size >= HeaderSize /\ f.osPos >= CountOffset
    /\ count = body[1].count
    /\ pc = "loadChecksum" => f.pos = HeaderSize
    /\ pc = "loadEntries" => sum = body

\* The places of a flush.  tell() stays at 40 until the second entry.
Written ==
  /\ Saving => ok /\ changes
  /\ pc \in {"resize", "writeCount"} => left = entries
  /\ pc = "writeCount" => body = <<>> /\ f = Resized(f, CountOffset)
  /\ pc = "writeEntries" =>
       /\ body # <<>> /\ body \o left = Contents(entries)
       /\ f.size = f.real /\ f.osPos = f.real
       /\ f.real = HeaderSize + (Len(body) - 1) * EntrySize
       /\ IF Len(body) <= 2 THEN f.pos = CountOffset ELSE f.pos > CountOffset

\* At every place of every call.
Saved ==
  ok /\ ~changes =>
    \/ body = Contents(entries)
    \/ Len(Tail(body)) > MaxEntries /\ entries = Counted(Tail(body))

IInv ==
  /\ TypeOK
  /\ InOrder(f)
  /\ NothingKept /\ FirstIsCount /\ SumWhole /\ Headed
  /\ Fresh /\ HeaderRead
  /\ Written /\ Saved

-----------------------------------------------------------------------------
(* Reads, writes and hashes of a file, as far as the invariant needs them. *)

LEMMA ReadFields ==
  ASSUME NEW g \in Position, NEW n \in Nat, InOrder(g)
  PROVE  /\ Read(g, n) \in Position
         /\ InOrder(Read(g, n))
         /\ Read(g, n).real = g.real /\ Read(g, n).size = g.size
         /\ Read(g, n).osPos >= g.osPos /\ Read(g, n).pos >= g.pos
<1> DEFINE c == ReadCount(g, n)
           o == Smaller(c, g.real - g.osPos)
<1>1. c \in Nat /\ c <= g.size - g.pos
  BY DEF ReadCount, Smaller, InOrder, Position
<1> HIDE DEF c
<1>2. o \in Nat /\ o <= g.real - g.osPos /\ (o = c \/ o = g.real - g.osPos)
  BY <1>1 DEF Smaller, InOrder, Position
<1> HIDE DEF o
<1>3. Read(g, n) = [pos |-> g.pos + c, size |-> g.size, osPos |-> g.osPos + o,
                    real |-> g.real]
  <2>1. OsRead(g, c) = [pos |-> g.pos, size |-> g.size, osPos |-> g.osPos + o,
                        real |-> g.real]
    BY DEF OsRead, OsReads, o, Position
  <2>2. InRange(OsRead(g, c), g.pos + c)
    BY <1>1, <2>1 DEF InRange, Position
  <2> QED BY <2>1, <2>2 DEF Read, GoForward, c
<1> QED BY <1>1, <1>2, <1>3 DEF Position, InOrder

\* A header is read from the beginning.
LEMMA HeaderFields ==
  ASSUME NEW g \in Position, InOrder(g), g.osPos = 0,
         BytesRead(g, HeaderSize) = HeaderSize
  PROVE  /\ g.real >= HeaderSize /\ g.size >= HeaderSize
         /\ Read(g, HeaderSize).pos = HeaderSize
         /\ Read(g, HeaderSize).osPos = HeaderSize
<1>1. g.pos = 0 /\ g.size <= g.real
  BY DEF InOrder, Position
<1>2. ReadCount(g, HeaderSize) = HeaderSize /\ g.size >= HeaderSize
  BY <1>1 DEF BytesRead, OsReads, ReadCount, Smaller, HeaderSize, Position
<1>3. OsRead(g, HeaderSize) = [pos |-> 0, size |-> g.size, osPos |-> HeaderSize,
                               real |-> g.real]
  BY <1>1, <1>2 DEF OsRead, OsReads, Smaller, HeaderSize, Position
<1> QED BY <1>1, <1>2, <1>3 DEF Read, GoForward, InRange, HeaderSize, Position

LEMMA SubmittedFields ==
  ASSUME NEW g \in Position, NEW n \in Nat
  PROVE  /\ Submitted(g, n) \in Position
         /\ Submitted(g, n).pos = n /\ Submitted(g, n).osPos = n
         /\ Submitted(g, n).size = g.size /\ Submitted(g, n).real = g.real
BY DEF Submitted, Position

\* k entries are read, from behind the header.
LEMMA EntriesRead ==
  ASSUME NEW g \in Position, InOrder(g), g.size >= HeaderSize, NEW k \in Nat
  PROVE  LET h == Read(Submitted(g, HeaderSize), k * EntrySize) IN
         /\ h \in Position /\ InOrder(h) /\ h.real = g.real
         /\ h.osPos >= CountOffset
<1> DEFINE s == Submitted(g, HeaderSize)
           h == Read(s, k * EntrySize)
<1>1. /\ s \in Position /\ s.pos = HeaderSize /\ s.osPos = HeaderSize
      /\ s.size = g.size /\ s.real = g.real
  BY SubmittedFields DEF HeaderSize
<1>2. k * EntrySize \in Nat
  BY DEF EntrySize
<1> HIDE DEF s
<1>3. InOrder(s)
  BY <1>1 DEF InOrder, HeaderSize, Position
<1>4. h \in Position /\ InOrder(h) /\ h.real = s.real /\ h.osPos >= s.osPos
  BY <1>1, <1>2, <1>3, ReadFields
<1> HIDE DEF h
<1>5. h \in Position /\ InOrder(h) /\ h.real = g.real /\ h.osPos >= CountOffset
  BY <1>1, <1>4 DEF Position, HeaderSize, CountOffset
<1> QED BY <1>5 DEF h, s

LEMMA OsWriteFields ==
  ASSUME NEW g \in Position, NEW n \in Nat, InOrder(g)
  PROVE  /\ OsWrite(g, n) \in Position
         /\ InOrder(OsWrite(g, n))
         /\ OsWrite(g, n).pos = g.pos /\ OsWrite(g, n).size = g.size
         /\ OsWrite(g, n).osPos = g.osPos + n
         /\ OsWrite(g, n).real = IF g.osPos + n <= g.real THEN g.real ELSE g.osPos + n
<1>1. CASE g.osPos + n <= g.real
  BY <1>1 DEF OsWrite, Position, InOrder
<1>2. CASE ~(g.osPos + n <= g.real)
  BY <1>2 DEF OsWrite, Position, InOrder
<1> QED BY <1>1, <1>2

LEMMA WriteFields ==
  ASSUME NEW g \in Position, NEW n \in Nat, InOrder(g)
  PROVE  /\ Write(g, n) \in Position
         /\ InOrder(Write(g, n))
         /\ Write(g, n).pos = IF g.pos + n <= g.size THEN g.pos + n ELSE g.pos
         /\ Write(g, n).osPos = g.osPos + n
         /\ Write(g, n).real = IF g.osPos + n <= g.real THEN g.real ELSE g.osPos + n
         /\ Write(g, n).size = Write(g, n).real
<1> DEFINE w == OsWrite(g, n)
<1>1. /\ w \in Position /\ InOrder(w)
      /\ w.pos = g.pos /\ w.size = g.size /\ w.osPos = g.osPos + n
      /\ w.real = IF g.osPos + n <= g.real THEN g.real ELSE g.osPos + n
  BY OsWriteFields
<1> HIDE DEF w
<1>2. CASE g.pos + n <= g.size
  <2>1. GoForward(w, n) = [pos |-> g.pos + n, size |-> g.size, osPos |-> g.osPos + n,
                           real |-> w.real]
    BY <1>1, <1>2 DEF GoForward, InRange, Position
  <2>2. Write(g, n) = [pos |-> g.pos + n, size |-> w.real, osPos |-> g.osPos + n,
                       real |-> w.real]
    BY <2>1 DEF Write, CheckedSize, w
  <2> QED BY <1>1, <1>2, <2>2 DEF Position, InOrder
<1>3. CASE ~(g.pos + n <= g.size)
  <2>1. GoForward(w, n) = w
    BY <1>1, <1>3 DEF GoForward, InRange, Position
  <2>2. Write(g, n) = [pos |-> g.pos, size |-> w.real, osPos |-> g.osPos + n,
                       real |-> w.real]
    BY <1>1, <2>1 DEF Write, CheckedSize, w, Position
  <2> QED BY <1>1, <1>3, <2>2 DEF Position, InOrder
<1> QED BY <1>2, <1>3

\* blake3_file() seeks to the offset, or trusts tell().
LEMMA HashStartFields ==
  ASSUME NEW g \in Position, InOrder(g), g.pos # CountOffset => CountOffset <= g.size
  PROVE  /\ HashStart(g, CountOffset) \in Position
         /\ InOrder(HashStart(g, CountOffset))
         /\ HashStart(g, CountOffset).real = g.real
         /\ HashStart(g, CountOffset).size = g.size
         /\ HashStart(g, CountOffset).pos = CountOffset
         /\ HashStart(g, CountOffset).osPos =
              IF g.pos = CountOffset THEN g.osPos ELSE CountOffset
<1>1. CASE g.pos = CountOffset
  BY <1>1 DEF HashStart, Tell
<1>2. CASE g.pos # CountOffset
  <2>1. HashStart(g, CountOffset) = Submitted(g, CountOffset) /\ CountOffset \in Nat
    BY <1>2 DEF HashStart, Tell, CountOffset
  <2> DEFINE h == HashStart(g, CountOffset)
  <2>2. /\ h \in Position /\ h.pos = CountOffset /\ h.osPos = CountOffset
        /\ h.size = g.size /\ h.real = g.real
    BY <2>1, SubmittedFields
  <2> HIDE DEF h
  <2>3. /\ InOrder(h)
        /\ h.osPos = IF g.pos = CountOffset THEN g.osPos ELSE CountOffset
    BY <1>2, <2>2 DEF Position, InOrder
  <2> QED BY <2>2, <2>3 DEF h
<1> QED BY <1>1, <1>2

LEMMA HashEndFields ==
  ASSUME NEW g \in Position, InOrder(g), g.pos # CountOffset => CountOffset <= g.size
  PROVE  /\ HashEnd(g, CountOffset) \in Position
         /\ InOrder(HashEnd(g, CountOffset))
         /\ HashEnd(g, CountOffset).real = g.real
         /\ HashEnd(g, CountOffset).size = g.size
         /\ HashEnd(g, CountOffset).osPos >= CountOffset
<1> DEFINE h == HashStart(g, CountOffset)
<1>1. /\ h \in Position /\ InOrder(h) /\ h.real = g.real /\ h.size = g.size
      /\ h.osPos >= CountOffset
  <2>1. g.pos = CountOffset => g.osPos >= CountOffset
    BY DEF InOrder
  <2> QED BY <2>1, HashStartFields DEF CountOffset
<1>2. HashEnd(g, CountOffset) = Read(h, HashChunk) \/ HashEnd(g, CountOffset) = Read(h, h.size)
  BY DEF HashEnd
<1> HIDE DEF h
<1>3. ASSUME NEW n \in Nat
      PROVE  /\ Read(h, n) \in Position /\ InOrder(Read(h, n))
             /\ Read(h, n).real = g.real /\ Read(h, n).size = g.size
             /\ Read(h, n).osPos >= CountOffset
  <2>1. /\ Read(h, n) \in Position /\ InOrder(Read(h, n))
        /\ Read(h, n).real = g.real /\ Read(h, n).size = g.size
        /\ Read(h, n).osPos >= h.osPos
    BY <1>1, ReadFields
  <2> QED BY <1>1, <2>1 DEF CountOffset, Position
<1>4. HashChunk \in Nat /\ h.size \in Nat
  BY <1>1 DEF HashChunk, Position
<1> QED BY <1>2, <1>3, <1>4

-----------------------------------------------------------------------------
(* Sequences of entries and what is in the file.                           *)

\* A set of naturals has a least one.
LEMMA LeastNumber ==
  ASSUME NEW S \in SUBSET Nat, S # {}
  PROVE  \E x \in S : \A y \in S : x <= y
<1>1. PICK x \in S : \A y \in S : ~(<<y, x>> \in OpToRel(<, Nat))
  BY NatLessThanWellFounded, WFMin
<1>2. ASSUME NEW y \in S PROVE x <= y
  <2>1. <<y, x>> \in Nat \X Nat
    OBVIOUS
  <2>2. ~(y < x)
    BY <1>1, <2>1 DEF OpToRel
  <2> QED BY <2>2
<1> QED BY <1>2

\* The entry an edit finds.
LEMMA Found ==
  ASSUME NEW a, entries \in Seq(Entry), Holds(a)
  PROVE  /\ PositionOf(a) \in DOMAIN entries
         /\ entries[PositionOf(a)].account = a
<1> DEFINE I == {i \in 1..Len(entries) : entries[i].account = a}
<1>1. I \in SUBSET Nat /\ I # {} /\ DOMAIN entries = 1..Len(entries)
  BY DEF Holds
<1>2. PositionOf(a) = Min(I)
  BY <1>1 DEF PositionOf, SelectInSeq
<1>3. \E x \in I : \A y \in I : x <= y
  <2> HIDE DEF I
  <2> QED BY <1>1, LeastNumber
<1>4. Min(I) \in I
  BY <1>3 DEF Min
<1> QED BY <1>1, <1>2, <1>4

LEMMA Removed ==
  ASSUME NEW S, NEW es \in Seq(S), NEW k \in DOMAIN es
  PROVE  RemoveAt(es, k) \in Seq(S) /\ Len(RemoveAt(es, k)) = Len(es) - 1
<1> DEFINE l == SubSeq(es, 1, k - 1)
           r == SubSeq(es, k + 1, Len(es))
<1>1. /\ l \in Seq(S) /\ Len(l) = k - 1
      /\ r \in Seq(S) /\ Len(r) = Len(es) - k
      /\ k \in Nat /\ Len(es) \in Nat
  OBVIOUS
<1>2. RemoveAt(es, k) = l \o r
  BY DEF RemoveAt
<1> HIDE DEF l, r
<1>3. l \o r \in Seq(S) /\ Len(l \o r) = Len(l) + Len(r)
  BY <1>1, ConcatProperties
<1> QED BY <1>1, <1>2, <1>3

LEMMA Replaced ==
  ASSUME NEW S, NEW es \in Seq(S), NEW k \in DOMAIN es, NEW e \in S
  PROVE  ReplaceAt(es, k, e) \in Seq(S) /\ Len(ReplaceAt(es, k, e)) = Len(es)
<1>1. k \in 1..Len(es)
  BY LenProperties
<1> QED BY <1>1, ExceptSeq DEF ReplaceAt

\* The three kinds of chunks differ.
LEMMA TornIsOther == Torn \notin Entry /\ \A n : CountOf(n) # Torn
BY DEF Torn, Entry, CountOf

\* The number written is that of the entries, or a smaller one.
LEMMA CutCount ==
  ASSUME NEW n \in Nat
  PROVE  /\ Uint32(n) \in Nat /\ Uint32(n) <= MaxEntries /\ Uint32(n) <= n
         /\ n <= MaxEntries => Uint32(n) = n
<1>1. ASSUME NEW w \in Nat, w > 0
      PROVE  /\ n % w \in Nat /\ n % w < w /\ n % w <= n
             /\ n < w => n % w = n
  BY <1>1
<1>2. MaxEntries \in Nat
  BY SudbAssumption
<1> DEFINE w == MaxEntries + 1
<1>3. w \in Nat /\ w > 0 /\ \A k \in Nat : k < w <=> k <= MaxEntries
  BY <1>2
<1>4. Uint32(n) = n % w
  BY DEF Uint32
<1> HIDE DEF w
<1> QED BY <1>1, <1>3, <1>4

LEMMA CountedFields ==
  ASSUME NEW S, NEW es \in Seq(S)
  PROVE  /\ Counted(es) \in Seq(S) /\ Len(Counted(es)) = Uint32(Len(es))
         /\ \A k \in 1..Uint32(Len(es)) : Counted(es)[k] = es[k]
         /\ Len(es) <= MaxEntries => Counted(es) = es
<1> DEFINE u == Uint32(Len(es))
<1>1. u \in Nat /\ u <= Len(es) /\ (Len(es) <= MaxEntries => u = Len(es))
  BY CutCount
<1>2. Counted(es) = SubSeq(es, 1, u)
  BY DEF Counted
<1> HIDE DEF u
<1>3. /\ SubSeq(es, 1, u) \in Seq(S) /\ Len(SubSeq(es, 1, u)) = u
      /\ \A k \in 1..u : SubSeq(es, 1, u)[k] = es[k]
  BY <1>1
<1>4. SubSeq(es, 1, Len(es)) = es
  OBVIOUS
<1> QED BY <1>1, <1>2, <1>3, <1>4 DEF u

LEMMA ContentsFields ==
  ASSUME NEW es \in Seq(Entry)
  PROVE  /\ Contents(es) \in Seq(Chunk)
         /\ Len(Contents(es)) = Len(es) + 1 /\ Contents(es) # <<>>
         /\ Contents(es)[1] = CountOf(Uint32(Len(es)))
         /\ Contents(es)[1] \in [count : 0..MaxEntries]
         /\ \A k \in 1..Len(es) : Contents(es)[k + 1] = es[k]
         /\ Tail(Contents(es)) = es
         /\ Whole(Contents(es))
<1> DEFINE c == CountOf(Uint32(Len(es)))
<1>1. c \in [count : 0..MaxEntries] /\ c \in Chunk /\ Entry \subseteq Chunk
  <2>1. Uint32(Len(es)) \in 0..MaxEntries
    BY CutCount, SudbAssumption
  <2> QED BY <2>1 DEF CountOf, Chunk
<1> HIDE DEF c
<1>2. <<c>> \in Seq(Chunk) /\ es \in Seq(Chunk)
  BY <1>1, SeqMonotonic
<1>3. /\ <<c>> \o es \in Seq(Chunk) /\ Len(<<c>> \o es) = Len(es) + 1
      /\ (<<c>> \o es)[1] = c
      /\ \A k \in 1..Len(es) : (<<c>> \o es)[k + 1] = es[k]
  BY <1>2
<1>4. Contents(es) = <<c>> \o es
  BY DEF Contents, c
<1>5. Tail(Contents(es)) = es
  BY <1>2, <1>3, <1>4
<1>6. Contents(es) # <<>>
  BY <1>3, <1>4
<1>7. Whole(Contents(es))
  BY <1>5, <1>6 DEF Whole
<1> QED BY <1>1, <1>3, <1>4, <1>5, <1>6, <1>7 DEF c

LEMMA WholeFields ==
  ASSUME NEW s, Whole(s)
  PROVE  /\ s \in Seq(Chunk) /\ Len(s) = Len(Tail(s)) + 1
         /\ s[1] = CountOf(Uint32(Len(Tail(s)))) /\ s[1] # Torn
         /\ \A k \in 1..Len(Tail(s)) : s[k + 1] = Tail(s)[k]
<1>1. Tail(s) \in Seq(Entry) /\ s = Contents(Tail(s))
  BY DEF Whole
<1>2. /\ s \in Seq(Chunk) /\ Len(s) = Len(Tail(s)) + 1
      /\ s[1] = CountOf(Uint32(Len(Tail(s))))
      /\ \A k \in 1..Len(Tail(s)) : s[k + 1] = Tail(s)[k]
  BY <1>1, ContentsFields
<1> QED BY <1>1, <1>2, TornIsOther

-----------------------------------------------------------------------------
(* The invariant, action by action.                                        *)

\* The storage as it is made.
LEMMA Blank ==
  /\ Contents(<<>>) \in Seq(Chunk) /\ Whole(Contents(<<>>))
  /\ Contents(<<>>) # <<>> /\ Contents(<<>>)[1] \in [count : 0..MaxEntries]
  /\ <<>> \in Seq(Entry) /\ Len(<<>>) = 0 /\ 0 <= MaxEntries
<1>1. <<>> \in Seq(Entry) /\ Len(<<>>) = 0 /\ 0 <= MaxEntries
  BY SudbAssumption
<1> QED BY <1>1, ContentsFields

LEMMA OpenedFields ==
  ASSUME NEW n \in Nat
  PROVE  /\ OpenedFile(n) \in Position /\ InOrder(OpenedFile(n))
         /\ OpenedFile(n).osPos = 0 /\ OpenedFile(n).real = n
BY DEF OpenedFile, Position, InOrder

LEMMA ResizedFields ==
  ASSUME NEW n \in Nat
  PROVE  /\ Resized(f, n) \in Position /\ InOrder(Resized(f, n))
         /\ Resized(f, n).osPos = n /\ Resized(f, n).real = n
         /\ Resized(f, n).pos = n /\ Resized(f, n).size = n
BY DEF Resized, Position, InOrder

\* A torn checksum is a checksum.
LEMMA TornSum == <<Torn>> \in Seq(Chunk) /\ <<>> \in Seq(Chunk)
<1>1. Torn \in Chunk
  BY DEF Chunk
<1> QED BY <1>1

LEMMA InitIInv == Init => IInv
<1> SUFFICES ASSUME Init PROVE IInv
  OBVIOUS
<1> USE Blank DEF Init
<1>1. f \in Position /\ InOrder(f)
  BY OpenedFields DEF HeaderSize
<1>2. TypeOK
  <2>1. body \in Seq(Chunk) /\ sum \in Seq(Chunk)
    OBVIOUS
  <2>2. entries \in Seq(Entry) /\ Len(entries) <= 2 * MaxEntries /\ left \in Seq(Entry)
    BY SudbAssumption
  <2>3. count \in 0..MaxEntries
    BY SudbAssumption
  <2> QED BY <1>1, <2>1, <2>2, <2>3 DEF TypeOK, Position
<1>3. NothingKept /\ FirstIsCount /\ SumWhole /\ Headed /\ Saved
  BY DEF NothingKept, FirstIsCount, SumWhole, Headed, Loading, Saved
<1>4. Fresh /\ HeaderRead /\ Written
  BY DEF Fresh, HeaderRead, Written, Loading, Saving
<1> QED BY <1>1, <1>2, <1>3, <1>4 DEF IInv

LEMMA MakeKeeps ==
  ASSUME IInv, MakeStorage \/ MakeHeader \/ MakeHeaderFails
  PROVE  IInv'
<1>1. /\ pc' \in {"gone", "make"} /\ pc \in {"gone", "make"}
      /\ UNCHANGED <<dataVars, count, after, left>>
  BY DEF MakeStorage, MakeHeader, MakeHeaderFails, At
<1>2. /\ f' \in Position /\ InOrder(f')
      /\ body' \in Seq(Chunk) /\ sum' \in Seq(Chunk) /\ head' \in BOOLEAN
      /\ SumWhole'
      /\ f'.real >= HeaderSize => body' # <<>> /\ body'[1] \in [count : 0..MaxEntries]
  <2>1. CASE MakeStorage
    <3>1. f' \in Position /\ InOrder(f') /\ f'.real = 0
      BY <2>1, ResizedFields DEF MakeStorage
    <3>2. head' = FALSE /\ sum' = <<Torn>> /\ body' = <<>>
      BY <2>1 DEF MakeStorage
    <3>3. SumWhole'
      BY <3>2 DEF SumWhole
    <3>4. ~(f'.real >= HeaderSize)
      BY <3>1 DEF HeaderSize
    <3> QED BY <3>1, <3>2, <3>3, <3>4, TornSum
  <2>2. CASE MakeHeader
    <3>1. HeaderSize \in Nat
      BY DEF HeaderSize
    <3>2. Whole(sum')
      BY <2>2, Blank DEF MakeHeader, Whole
    <3>3. SumWhole'
      BY <3>2 DEF SumWhole, Whole
    <3>4. f' \in Position /\ InOrder(f')
      BY <2>2, <3>1, OpenedFields DEF MakeHeader
    <3>5. head' = TRUE /\ sum' = Contents(<<>>) /\ body' = Contents(<<>>)
      BY <2>2 DEF MakeHeader
    <3> QED BY <3>3, <3>4, <3>5, Blank
  <2>3. CASE MakeHeaderFails
    <3>1. PICK part \in 0..1 : f' = OpenedFile(part)
      BY <2>3 DEF MakeHeaderFails
    <3>2. f' \in Position /\ InOrder(f') /\ f'.real = part
      BY <3>1, OpenedFields
    <3>3. UNCHANGED <<head, sum, body>>
      BY <2>3 DEF MakeHeaderFails, diskVars
    <3>4. SumWhole'
      BY <3>3 DEF SumWhole, Whole, IInv
    <3> QED BY <3>2, <3>3, <3>4 DEF HeaderSize, IInv, TypeOK
  <2> QED BY <2>1, <2>2, <2>3
<1>3. TypeOK'
  BY <1>1, <1>2 DEF IInv, TypeOK, Position, dataVars
<1>4. NothingKept' /\ FirstIsCount' /\ Headed' /\ Saved'
  BY <1>1, <1>2 DEF IInv, NothingKept, FirstIsCount, Headed, Loading, Saved, dataVars
<1>5. Fresh' /\ HeaderRead' /\ Written'
  BY <1>1 DEF Fresh, HeaderRead, Written, Loading, Saving
<1> QED BY <1>2, <1>3, <1>4, <1>5 DEF IInv

LEMMA ConstructKeeps == IInv /\ Construct => IInv'
<1> SUFFICES ASSUME IInv, Construct PROVE IInv'
  OBVIOUS
<1>1. /\ pc = "gone" /\ pc' = "loadHeader"
      /\ UNCHANGED <<head, sum, body, entries, ok, changes, count, after, left>>
  BY DEF Construct, At, diskVars, dataVars
<1>2. f' \in Position /\ InOrder(f') /\ f'.real = f.real
  BY OpenedFields DEF Construct, IInv, TypeOK
<1>3. TypeOK'
  BY <1>1, <1>2 DEF IInv, TypeOK, Position
<1>4. NothingKept' /\ FirstIsCount' /\ SumWhole' /\ Headed' /\ Saved'
  BY <1>1, <1>2
  DEF IInv, NothingKept, FirstIsCount, SumWhole, Whole, Headed, Loading, Saved
<1>5. Fresh' /\ HeaderRead' /\ Written'
  BY <1>1, Blank DEF IInv, NothingKept, Fresh, HeaderRead, Written, Loading, Saving
<1> QED BY <1>2, <1>3, <1>4, <1>5 DEF IInv

LEMMA RefreshKeeps == IInv /\ Refresh => IInv'
<1> SUFFICES ASSUME IInv, Refresh PROVE IInv'
  OBVIOUS
<1>1. /\ pc = "idle" /\ pc' = "loadHeader"
      /\ UNCHANGED <<head, sum, body, f, entries, ok, changes, count, after, left>>
  BY DEF Refresh, At, diskVars, dataVars
<1>2. TypeOK' /\ InOrder(f')
  BY <1>1 DEF IInv, TypeOK
<1>3. NothingKept' /\ FirstIsCount' /\ SumWhole' /\ Headed' /\ Saved'
  BY <1>1 DEF IInv, NothingKept, FirstIsCount, SumWhole, Whole, Headed, Loading, Saved
<1>4. Fresh' /\ HeaderRead' /\ Written'
  BY <1>1 DEF IInv, Fresh, HeaderRead, Written, Loading, Saving
<1> QED BY <1>2, <1>3, <1>4 DEF IInv

\* A load that ends without an answer, at any of its places.
LEMMA NotLoadedKeeps ==
  ASSUME IInv, pc \in {"loadHeader", "loadChecksum", "loadEntries"},
         f' \in Position, InOrder(f'), f'.real = f.real,
         f'.osPos = 0 => f.osPos = 0,
         entries' = entries \/ entries' = <<>>, Loaded(FALSE),
         UNCHANGED <<head, sum, body, changes, count, after, left>>
  PROVE  IInv'
<1>1. pc' = "idle" /\ ok' = FALSE
  BY DEF Loaded
<1>2. /\ entries' \in Seq(Entry) /\ Len(entries') <= 2 * MaxEntries
      /\ Len(entries) <= MaxEntries => Len(entries') <= MaxEntries
  <2>1. entries \in Seq(Entry) /\ Len(entries) <= 2 * MaxEntries /\ MaxEntries \in Nat
    BY SudbAssumption DEF IInv, TypeOK
  <2>2. CASE entries' = <<>>
    BY <2>1, <2>2, Blank
  <2> QED BY <2>1, <2>2
<1>3. TypeOK'
  BY <1>1, <1>2 DEF IInv, TypeOK, Position
<1>4. NothingKept' /\ FirstIsCount' /\ SumWhole' /\ Headed' /\ Saved'
  BY <1>1 DEF IInv, NothingKept, FirstIsCount, SumWhole, Whole, Headed, Loading, Saved
<1>5. Fresh' /\ HeaderRead' /\ Written'
  BY <1>1, <1>2 DEF IInv, Fresh, HeaderRead, Written, Loading, Saving
<1> QED BY <1>3, <1>4, <1>5 DEF IInv

LEMMA LoadHeaderKeeps == IInv /\ LoadHeader => IInv'
<1> SUFFICES ASSUME IInv, LoadHeader PROVE IInv'
  OBVIOUS
<1> DEFINE Good == BytesRead(f, HeaderSize) = HeaderSize /\ f.osPos = 0 /\ head
<1>1. /\ pc = "loadHeader" /\ f' = Read(f, HeaderSize)
      /\ UNCHANGED <<head, sum, body, entries, changes, after, left>>
      /\ IF Good THEN count' = body[1].count /\ pc' = "loadChecksum" /\ UNCHANGED ok
         ELSE Loaded(FALSE) /\ UNCHANGED count
  BY DEF LoadHeader, At, diskVars
<1>2. f \in Position /\ InOrder(f)
  BY DEF IInv, TypeOK, Position
<1>3. f' \in Position /\ InOrder(f') /\ f'.real = f.real /\ f'.size = f.size
      /\ f'.osPos >= f.osPos
  BY <1>1, <1>2, ReadFields DEF HeaderSize
<1>4. CASE Good
  <2>1. /\ f.real >= HeaderSize /\ f.size >= HeaderSize
        /\ f'.pos = HeaderSize /\ f'.osPos = HeaderSize
    BY <1>1, <1>2, <1>4, HeaderFields
  <2>2. /\ count' = body[1].count /\ pc' = "loadChecksum" /\ ok' = ok /\ f.osPos = 0 /\ head
    BY <1>1, <1>4
  <2> HIDE DEF Good
  <2>3. count' \in 0..MaxEntries
    BY <2>1, <2>2 DEF IInv, FirstIsCount
  <2>4. TypeOK'
    BY <1>1, <1>3, <2>2, <2>3 DEF IInv, TypeOK, Position
  <2>5. NothingKept' /\ FirstIsCount' /\ SumWhole' /\ Headed' /\ Saved'
    BY <1>1, <1>3, <2>2
    DEF IInv, NothingKept, FirstIsCount, SumWhole, Whole, Headed, Loading, Saved
  <2>6. Fresh'
    BY <1>1, <2>2 DEF IInv, Fresh, Loading
  <2>7. HeaderRead' /\ Written'
    BY <1>1, <1>3, <2>1, <2>2
    DEF IInv, HeaderRead, Written, Loading, Saving, CountOffset, HeaderSize
  <2> QED BY <1>3, <2>4, <2>5, <2>6, <2>7 DEF IInv
<1>5. CASE ~Good
  <2>1. f'.osPos = 0 => f.osPos = 0
    BY <1>2, <1>3 DEF Position
  <2> QED BY <1>1, <1>3, <1>5, <2>1, NotLoadedKeeps
<1> QED BY <1>4, <1>5

LEMMA LoadChecksumKeeps == IInv /\ LoadChecksum => IInv'
<1> SUFFICES ASSUME IInv, LoadChecksum PROVE IInv'
  OBVIOUS
<1>1. /\ pc = "loadChecksum" /\ f' = HashEnd(f, CountOffset)
      /\ UNCHANGED <<head, sum, body, entries, changes, count, after, left>>
      /\ IF HashedData(f) = sum THEN pc' = "loadEntries" /\ UNCHANGED ok ELSE Loaded(FALSE)
  BY DEF LoadChecksum, At, diskVars
<1>2. /\ f \in Position /\ InOrder(f) /\ f.pos = HeaderSize
      /\ f.size >= HeaderSize /\ f.real >= HeaderSize
      /\ count = body[1].count /\ Loading
  BY <1>1 DEF IInv, TypeOK, Position, HeaderRead, Loading
<1>3. f.pos # CountOffset /\ CountOffset <= f.size
  BY <1>2 DEF HeaderSize, CountOffset, Position
<1>4. /\ f' \in Position /\ InOrder(f') /\ f'.real = f.real /\ f'.size = f.size
      /\ f'.osPos >= CountOffset
  BY <1>1, <1>2, <1>3, HashEndFields
<1>5. HashedData(f) = body
  BY <1>2, <1>3, HashStartFields DEF HashedData
<1>6. CASE sum = body
  <2>1. pc' = "loadEntries" /\ ok' = ok
    BY <1>1, <1>5, <1>6
  <2>2. TypeOK'
    BY <1>1, <1>4, <2>1 DEF IInv, TypeOK, Position
  <2>3. NothingKept' /\ FirstIsCount' /\ SumWhole' /\ Headed' /\ Saved'
    BY <1>1, <1>4, <2>1
    DEF IInv, NothingKept, FirstIsCount, SumWhole, Whole, Headed, Loading, Saved
  <2>4. Fresh'
    BY <1>1, <1>2, <2>1 DEF IInv, Fresh, Loading
  <2>5. HeaderRead' /\ Written'
    BY <1>1, <1>2, <1>4, <1>6, <2>1 DEF IInv, HeaderRead, Written, Loading, Saving
  <2> QED BY <1>4, <2>2, <2>3, <2>4, <2>5 DEF IInv
<1>7. CASE sum # body
  <2>1. f'.osPos # 0
    BY <1>4 DEF CountOffset
  <2>2. Loaded(FALSE)
    BY <1>1, <1>5, <1>7
  <2> QED BY <1>1, <1>4, <2>1, <2>2, NotLoadedKeeps
<1> QED BY <1>6, <1>7

\* Under its checksum the file is whole, and its count is that of its entries, cut.
LEMMA ToLoad ==
  ASSUME IInv, pc = "loadEntries"
  PROVE  /\ Whole(body) /\ sum = body /\ head /\ ~ok
         /\ SubSeq(body, 2, count + 1) = Counted(Tail(body))
         /\ Counted(Tail(body)) \in Seq(Entry) /\ Len(Counted(Tail(body))) = count
         /\ changes \/ entries = <<>>
         /\ Len(entries) <= MaxEntries
         /\ f \in Position /\ InOrder(f) /\ f.real >= HeaderSize
         /\ f.size >= HeaderSize /\ f.osPos >= CountOffset
<1>1. /\ sum = body /\ head /\ ~ok /\ count = body[1].count
      /\ changes \/ entries = <<>>
      /\ Len(entries) <= MaxEntries
      /\ f \in Position /\ InOrder(f) /\ f.real >= HeaderSize
      /\ f.size >= HeaderSize /\ f.osPos >= CountOffset
  BY DEF IInv, TypeOK, Position, Headed, Fresh, HeaderRead, Loading
<1>2. body # <<>> /\ body[1] \in [count : 0..MaxEntries]
  BY <1>1 DEF IInv, FirstIsCount
<1>3. sum # <<Torn>>
  BY <1>1, <1>2 DEF Torn
<1>4. Whole(body)
  BY <1>1, <1>2, <1>3 DEF IInv, SumWhole
<1> DEFINE es == Tail(body)
<1>5. /\ body[1] = CountOf(Uint32(Len(es))) /\ Len(body) = Len(es) + 1
      /\ body \in Seq(Chunk) /\ \A k \in 1..Len(es) : body[k + 1] = es[k]
  BY <1>4, WholeFields
<1>6. es \in Seq(Entry)
  BY <1>4 DEF Whole
<1> HIDE DEF es
<1>7. count = Uint32(Len(es))
  BY <1>1, <1>5 DEF CountOf
<1>8. count \in Nat /\ count <= Len(es) /\ Len(es) \in Nat
  BY <1>6, <1>7, CutCount
<1>9. /\ Counted(es) \in Seq(Entry) /\ Len(Counted(es)) = count
      /\ \A k \in 1..count : Counted(es)[k] = es[k]
  BY <1>6, <1>7, CountedFields
<1>10. SubSeq(body, 2, count + 1) = Counted(es)
  <2> DEFINE new == SubSeq(body, 2, count + 1)
  <2>1. /\ new \in Seq(Chunk) /\ Len(new) = count
        /\ \A k \in 1..count : new[k] = body[k + 1]
    BY <1>5, <1>8
  <2> HIDE DEF new
  <2>2. ASSUME NEW k \in 1..count PROVE new[k] = Counted(es)[k]
    <3>1. k \in 1..Len(es)
      BY <1>8
    <3>2. new[k] = es[k]
      BY <1>5, <2>1, <3>1
    <3> QED BY <1>9, <3>2
  <2>3. Counted(es) \in Seq(Chunk)
    <3>1. Entry \subseteq Chunk
      BY DEF Chunk
    <3> QED BY <1>9, <3>1, SeqMonotonic
  <2>4. new = Counted(es)
    BY <1>9, <2>1, <2>2, <2>3, SeqEqual
  <2> QED BY <2>4 DEF new
<1> QED BY <1>1, <1>4, <1>9, <1>10 DEF es

LEMMA LoadEntriesKeeps == IInv /\ LoadEntries => IInv'
<1> SUFFICES ASSUME IInv, LoadEntries PROVE IInv'
  OBVIOUS
<1>1. /\ pc = "loadEntries"
      /\ UNCHANGED <<head, sum, body, changes, count, after, left>>
  BY DEF LoadEntries, At, diskVars
<1> DEFINE new == SubSeq(body, 2, count + 1)
<1>2. /\ Whole(body) /\ head /\ new = Counted(Tail(body)) /\ new \in Seq(Entry)
      /\ Len(new) = count
      /\ changes \/ entries = <<>>
      /\ Len(entries) <= MaxEntries
  BY <1>1, ToLoad
<1>3. f \in Position /\ InOrder(f) /\ f.size >= HeaderSize /\ f.osPos >= CountOffset
  BY <1>1, ToLoad
<1>4. count \in 0..MaxEntries /\ entries \in Seq(Entry) /\ Len(entries) \in Nat
  BY DEF IInv, TypeOK
<1>5. /\ f' \in Position /\ InOrder(f') /\ f'.real = f.real
      /\ f'.osPos >= CountOffset
  <2>1. CASE f' = f
    BY <1>3, <2>1
  <2>2. CASE f' = Read(Submitted(f, HeaderSize), count * EntrySize)
    BY <1>3, <1>4, <2>2, EntriesRead
  <2> QED BY <1>1, <2>1, <2>2 DEF LoadEntries
<1>6. f'.osPos # 0
  BY <1>5 DEF CountOffset
<1>7. CASE Loaded(TRUE) /\ entries' = entries \o new
  <2> HIDE DEF new
  <2>1. pc' = "idle" /\ ok' = TRUE
    BY <1>7 DEF Loaded
  <2>2. entries' \in Seq(Entry) /\ Len(entries') = Len(entries) + count
    <3>1. new \in Seq(Entry) /\ entries \in Seq(Entry)
      BY <1>2, <1>4
    <3>2. /\ entries \o new \in Seq(Entry)
          /\ Len(entries \o new) = Len(entries) + Len(new)
      BY <3>1, ConcatProperties
    <3> QED BY <1>2, <1>7, <3>2
  <2>3. Len(entries') <= 2 * MaxEntries
    BY <1>2, <1>4, <2>2, SudbAssumption
  <2>4. TypeOK'
    BY <1>1, <1>5, <2>1, <2>2, <2>3 DEF IInv, TypeOK, Position
  <2>5. Saved'
    <3> SUFFICES ASSUME ~changes
                 PROVE  \/ body = Contents(entries')
                        \/ Len(Tail(body)) > MaxEntries /\ entries' = Counted(Tail(body))
      BY <1>1 DEF Saved
    <3>1. entries' = Counted(Tail(body))
      BY <1>2, <1>7, ConcatEmptySeq
    <3>2. Tail(body) \in Seq(Entry) /\ body = Contents(Tail(body))
      BY <1>2 DEF Whole
    <3>3. Len(Tail(body)) <= MaxEntries => Counted(Tail(body)) = Tail(body)
      BY <3>2, CountedFields
    <3>4. Len(Tail(body)) <= MaxEntries \/ Len(Tail(body)) > MaxEntries
      BY <3>2, SudbAssumption
    <3> QED BY <3>1, <3>2, <3>3, <3>4
  <2>6. NothingKept' /\ FirstIsCount' /\ SumWhole' /\ Headed'
    BY <1>1, <1>2, <1>5, <2>1
    DEF IInv, NothingKept, FirstIsCount, SumWhole, Whole, Headed, Loading
  <2>7. Fresh' /\ HeaderRead' /\ Written'
    BY <1>1, <1>6, <2>1 DEF Fresh, HeaderRead, Written, Loading, Saving
  <2> QED BY <1>5, <2>4, <2>5, <2>6, <2>7 DEF IInv
<1>8. CASE Loaded(FALSE) /\ entries' = <<>>
  BY <1>1, <1>5, <1>6, <1>8, NotLoadedKeeps
<1>9. CASE count = 0
  <2>1. Loaded(TRUE) /\ entries' = entries
    BY <1>9 DEF LoadEntries
  <2>2. entries' = entries \o new
    <3>1. new = <<>>
      BY <1>2, <1>9, EmptySeq
    <3> QED BY <1>4, <2>1, <3>1, ConcatEmptySeq
  <2> QED BY <1>7, <2>1, <2>2
<1>10. CASE count # 0
  BY <1>7, <1>8, <1>10 DEF LoadEntries
<1> QED BY <1>9, <1>10

LEMMA LoadFailsKeeps == IInv /\ LoadFails => IInv'
<1> SUFFICES ASSUME IInv, LoadFails PROVE IInv'
  OBVIOUS
<1>1. /\ Loaded(FALSE)
      /\ UNCHANGED <<head, sum, body, changes, count, after, left>>
  BY DEF LoadFails, diskVars
<1>2. f \in Position /\ InOrder(f)
  BY DEF IInv, TypeOK, Position
<1>3. CASE pc = "loadHeader"
  <2>1. f' = f /\ entries' = entries
    BY <1>3 DEF LoadFails, At
  <2> QED BY <1>1, <1>2, <1>3, <2>1, NotLoadedKeeps
<1>4. CASE pc = "loadChecksum"
  <2>1. f' = HashStart(f, CountOffset) /\ entries' = entries
    BY <1>4 DEF LoadFails, At
  <2>2. f.pos # CountOffset /\ CountOffset <= f.size
    BY <1>2, <1>4 DEF IInv, HeaderRead, Loading, HeaderSize, CountOffset, Position
  <2>3. f' \in Position /\ InOrder(f') /\ f'.real = f.real /\ f'.osPos = CountOffset
    BY <1>2, <2>1, <2>2, HashStartFields
  <2>4. f'.osPos # 0
    BY <2>3 DEF CountOffset
  <2> QED BY <1>1, <1>4, <2>1, <2>3, <2>4, NotLoadedKeeps
<1>5. CASE pc = "loadEntries"
  <2>1. PICK k \in 0..(count - 1) : f' = Read(Submitted(f, HeaderSize), k * EntrySize)
    BY <1>5 DEF LoadFails, At
  <2>2. entries' = <<>>
    BY <1>5 DEF LoadFails, At
  <2>3. k \in Nat /\ f.size >= HeaderSize
    BY <1>5, ToLoad DEF IInv, TypeOK
  <2>4. /\ f' \in Position /\ InOrder(f') /\ f'.real = f.real
        /\ f'.osPos >= CountOffset
    BY <1>2, <2>1, <2>3, EntriesRead
  <2>5. f'.osPos # 0
    BY <2>4 DEF CountOffset
  <2> QED BY <1>1, <1>5, <2>2, <2>4, <2>5, NotLoadedKeeps
<1> QED BY <1>3, <1>4, <1>5 DEF LoadFails, At

\* What an edit makes of the entries.
Appended(es, e) ==
  /\ es = Append(entries, e)
  /\ Len(entries) < MaxEntries

Edited(es) ==
  \/ \E e \in Entry : Appended(es, e)
  \/ ok /\ \E k \in DOMAIN entries, e \in Entry : es = ReplaceAt(entries, k, e)
  \/ ok /\ \E k \in DOMAIN entries : es = RemoveAt(entries, k)
  \/ ok /\ es = <<>>

LEMMA EditShape ==
  ASSUME IInv, Edit
  PROVE  pc = "idle" /\ \E es : Changed(es) /\ Edited(es)
<1>1. entries \in Seq(Entry)
  BY DEF IInv, TypeOK
<1>2. ASSUME NEW a \in Accounts, Holds(a)
      PROVE  /\ ok /\ PositionOf(a) \in DOMAIN entries
             /\ entries[PositionOf(a)] \in Entry
  <2>1. PositionOf(a) \in DOMAIN entries
    BY <1>1, <1>2, Found
  <2>2. entries[PositionOf(a)] \in Entry
    BY <1>1, <2>1
  <2> QED BY <1>2, <2>1, <2>2 DEF Holds
<1>3. ASSUME NEW a \in Accounts, Holds(a), NEW e \in Entry
      PROVE  Edited(ReplaceAt(entries, PositionOf(a), e))
  BY <1>2, <1>3, Zenon DEF Edited
<1>4. ASSUME NEW e \in Entry, NEW b \in Accounts, NEW s \in Secrets
      PROVE  [e EXCEPT !.account = b] \in Entry /\ [e EXCEPT !.secret = s] \in Entry
  BY DEF Entry
<1>5. ASSUME NEW a \in Accounts, NEW s \in Secrets, AppendEntry(a, s)
      PROVE  pc = "idle" /\ \E es : Changed(es) /\ Edited(es)
  <2> DEFINE e == EntryOf(a, s)
  <2>1. e \in Entry
    BY DEF EntryOf, Entry
  <2> HIDE DEF e
  <2>2. /\ pc = "idle" /\ Changed(Append(entries, e))
        /\ Len(entries) < MaxEntries
    BY <1>5 DEF AppendEntry, At, e
  <2>3. Appended(Append(entries, e), e)
    BY <2>2 DEF Appended
  <2> QED BY <2>1, <2>2, <2>3, Zenon DEF Edited
<1>6. ASSUME NEW a \in Accounts, NEW s \in Secrets, ModifyPassword(a, s) \/ ModifyArc(a, s)
      PROVE  pc = "idle" /\ \E es : Changed(es) /\ Edited(es)
  <2> DEFINE e == [entries[PositionOf(a)] EXCEPT !.secret = s]
  <2>1. Holds(a) /\ pc = "idle" /\ Changed(ReplaceAt(entries, PositionOf(a), e))
    BY <1>6 DEF ModifyPassword, ModifyArc, Modify, At
  <2>2. e \in Entry
    BY <1>2, <1>4, <2>1
  <2> HIDE DEF e
  <2> QED BY <1>3, <2>1, <2>2, Zenon
<1>7. ASSUME NEW a \in Accounts, NEW b \in Accounts, ModifyName(a, b)
      PROVE  pc = "idle" /\ \E es : Changed(es) /\ Edited(es)
  <2> DEFINE e == [entries[PositionOf(a)] EXCEPT !.account = b]
  <2>1. Holds(a) /\ pc = "idle" /\ Changed(ReplaceAt(entries, PositionOf(a), e))
    BY <1>7 DEF ModifyName, Modify, At
  <2>2. e \in Entry
    <3>1. entries[PositionOf(a)] \in Entry
      BY <1>2, <2>1
    <3> QED BY <3>1 DEF Entry
  <2> HIDE DEF e
  <2> QED BY <1>3, <2>1, <2>2, Zenon
<1>8. ASSUME NEW a \in Accounts, EraseEntry(a)
      PROVE  pc = "idle" /\ \E es : Changed(es) /\ Edited(es)
  <2>1. Holds(a) /\ pc = "idle" /\ Changed(RemoveAt(entries, PositionOf(a)))
    BY <1>8 DEF EraseEntry, At
  <2>2. ok /\ PositionOf(a) \in DOMAIN entries
    BY <1>2, <2>1
  <2> QED BY <2>1, <2>2, Zenon DEF Edited
<1>9. ASSUME EraseAll
      PROVE  pc = "idle" /\ \E es : Changed(es) /\ Edited(es)
  <2>1. pc = "idle" /\ ok /\ Changed(<<>>)
    BY <1>9 DEF EraseAll, At
  <2>2. Edited(<<>>)
    BY <2>1, Zenon DEF Edited
  <2> QED BY <2>1, <2>2, Zenon
<1> QED BY <1>5, <1>6, <1>7, <1>8, <1>9 DEF Edit

LEMMA EditKeeps == IInv /\ Edit => IInv'
<1> SUFFICES ASSUME IInv, Edit PROVE IInv'
  OBVIOUS
<1>1. PICK es : Changed(es) /\ Edited(es)
  BY EditShape
<1>2. /\ pc = "idle" /\ pc' = "idle" /\ entries' = es /\ changes' = TRUE
      /\ UNCHANGED <<head, sum, body, f, ok, count, after, left>>
  BY <1>1, EditShape DEF Changed, diskVars, callVars
<1>3. /\ entries \in Seq(Entry) /\ Len(entries) <= 2 * MaxEntries
      /\ Len(entries) \in Nat /\ MaxEntries \in Nat
  BY SudbAssumption DEF IInv, TypeOK
<1>4. /\ es \in Seq(Entry) /\ Len(es) <= 2 * MaxEntries
      /\ ok \/ Len(es) <= MaxEntries
  <2>1. ASSUME NEW e \in Entry, Appended(es, e)
        PROVE  es \in Seq(Entry) /\ Len(es) <= MaxEntries /\ Len(es) <= 2 * MaxEntries
    <3>1. es \in Seq(Entry) /\ Len(es) = Len(entries) + 1 /\ Len(entries) < MaxEntries
      BY <1>3, <2>1, AppendProperties DEF Appended
    <3> QED BY <1>3, <3>1
  <2>2. ASSUME ok, NEW k \in DOMAIN entries, NEW e \in Entry, es = ReplaceAt(entries, k, e)
        PROVE  es \in Seq(Entry) /\ Len(es) <= 2 * MaxEntries
    BY <1>3, <2>2, Replaced
  <2>3. ASSUME ok, NEW k \in DOMAIN entries, es = RemoveAt(entries, k)
        PROVE  es \in Seq(Entry) /\ Len(es) <= 2 * MaxEntries
    <3>1. es \in Seq(Entry) /\ Len(es) = Len(entries) - 1
      BY <1>3, <2>3, Removed
    <3> QED BY <1>3, <3>1
  <2>4. CASE ok /\ es = <<>>
    BY <1>3, <2>4, Blank
  <2> QED BY <1>1, <2>1, <2>2, <2>3, <2>4 DEF Edited
<1>5. TypeOK'
  BY <1>2, <1>4 DEF IInv, TypeOK
<1>6. NothingKept' /\ FirstIsCount' /\ SumWhole' /\ Headed' /\ Saved'
  BY <1>2 DEF IInv, NothingKept, FirstIsCount, SumWhole, Whole, Headed, Loading, Saved
<1>7. Fresh' /\ HeaderRead' /\ Written'
  BY <1>2, <1>4 DEF IInv, Fresh, HeaderRead, Written, Loading, Saving
<1> QED BY <1>2, <1>5, <1>6, <1>7 DEF IInv

LEMMA BeginFlushKeeps ==
  ASSUME IInv, NEW return \in {"idle", "ending"}, BeginFlush(return)
  PROVE  IInv'
<1>1. /\ pc = "idle" /\ after' = return
      /\ UNCHANGED <<head, sum, body, f, entries, ok, changes, count>>
      /\ IF ok /\ changes THEN pc' = "resize" /\ left' = entries
         ELSE pc' = return /\ UNCHANGED left
  BY DEF BeginFlush, At, diskVars, dataVars
<1>2. TypeOK'
  BY <1>1 DEF IInv, TypeOK
<1>3. NothingKept' /\ FirstIsCount' /\ SumWhole' /\ Headed' /\ Saved'
  BY <1>1 DEF IInv, NothingKept, FirstIsCount, SumWhole, Whole, Headed, Loading, Saved
<1>4. Fresh' /\ HeaderRead' /\ Written'
  BY <1>1 DEF IInv, Fresh, HeaderRead, Written, Loading, Saving
<1> QED BY <1>1, <1>2, <1>3, <1>4 DEF IInv

LEMMA GoneKeeps == IInv /\ (Destroyed \/ Crash) => IInv'
<1> SUFFICES ASSUME IInv, Destroyed \/ Crash PROVE IInv'
  OBVIOUS
<1>1. Gone /\ UNCHANGED <<head, sum, body>>
  BY DEF Destroyed, Crash, diskVars
<1>2. /\ pc' = "gone" /\ after' = "idle" /\ left' = <<>>
      /\ entries' = <<>> /\ ok' = FALSE /\ changes' = FALSE /\ count' = 0
  BY <1>1 DEF Gone
<1>3. f' \in Position /\ InOrder(f') /\ f'.real = f.real
  BY <1>1, OpenedFields DEF Gone, IInv, TypeOK
<1>4. TypeOK'
  <2>1. entries' \in Seq(Entry) /\ left' \in Seq(Entry) /\ Len(entries') <= 2 * MaxEntries
    BY <1>2, Blank, SudbAssumption
  <2>2. count' \in 0..MaxEntries
    BY <1>2, SudbAssumption
  <2> QED BY <1>1, <1>2, <1>3, <2>1, <2>2 DEF IInv, TypeOK, Position
<1>5. NothingKept' /\ FirstIsCount' /\ SumWhole' /\ Headed' /\ Saved'
  BY <1>1, <1>2, <1>3
  DEF IInv, NothingKept, FirstIsCount, SumWhole, Whole, Headed, Loading, Saved
<1>6. Fresh' /\ HeaderRead' /\ Written'
  BY <1>2 DEF Fresh, HeaderRead, Written, Loading, Saving
<1> QED BY <1>3, <1>4, <1>5, <1>6 DEF IInv

LEMMA FlushResizeKeeps == IInv /\ FlushResize => IInv'
<1> SUFFICES ASSUME IInv, FlushResize PROVE IInv'
  OBVIOUS
<1>1. /\ pc = "resize" /\ pc' = "writeCount" /\ f' = Resized(f, CountOffset) /\ body' = <<>>
      /\ UNCHANGED <<head, sum, entries, ok, changes, count, after, left>>
  BY DEF FlushResize, At, dataVars
<1>2. f' \in Position /\ InOrder(f') /\ f'.real = CountOffset /\ f'.osPos = CountOffset
  BY <1>1, ResizedFields DEF CountOffset
<1>3. ok /\ changes /\ left = entries
  BY <1>1 DEF IInv, Written, Saving
<1>4. TypeOK'
  BY <1>1, <1>2, TornSum DEF IInv, TypeOK, Position
<1>5. NothingKept' /\ FirstIsCount' /\ SumWhole' /\ Headed' /\ Saved'
  BY <1>1, <1>2, <1>3
  DEF IInv, NothingKept, FirstIsCount, SumWhole, Whole, Headed, Loading, Saved,
      HeaderSize, CountOffset
<1>6. Fresh' /\ HeaderRead'
  BY <1>1, <1>2 DEF Fresh, HeaderRead, Loading, CountOffset
<1>7. Written'
  BY <1>1, <1>3 DEF Written, Saving, Resized
<1> QED BY <1>2, <1>4, <1>5, <1>6, <1>7 DEF IInv

LEMMA FlushCountKeeps == IInv /\ FlushCount => IInv'
<1> SUFFICES ASSUME IInv, FlushCount PROVE IInv'
  OBVIOUS
<1> DEFINE c == CountOf(Uint32(Len(entries)))
<1>1. /\ pc = "writeCount" /\ pc' = "writeEntries" /\ f' = Write(f, 4)
      /\ body' = Append(body, c)
      /\ UNCHANGED <<head, sum, entries, ok, changes, count, after, left>>
  BY DEF FlushCount, At, dataVars
<1>2. /\ ok /\ changes /\ left = entries /\ body = <<>> /\ f = Resized(f, CountOffset)
  BY <1>1 DEF IInv, Written, Saving
<1>3. /\ f \in Position /\ InOrder(f) /\ f.pos = CountOffset /\ f.size = CountOffset
      /\ f.osPos = CountOffset /\ f.real = CountOffset
  BY <1>2, ResizedFields DEF CountOffset
<1>4. /\ f' \in Position /\ InOrder(f') /\ f'.pos = CountOffset
      /\ f'.osPos = HeaderSize /\ f'.real = HeaderSize /\ f'.size = HeaderSize
  <2>1. /\ f' \in Position /\ InOrder(f')
        /\ f'.pos = IF f.pos + 4 <= f.size THEN f.pos + 4 ELSE f.pos
        /\ f'.osPos = f.osPos + 4 /\ f'.size = f'.real
        /\ f'.real = IF f.osPos + 4 <= f.real THEN f.real ELSE f.osPos + 4
    BY <1>1, <1>3, WriteFields
  <2> QED BY <1>3, <2>1 DEF CountOffset, HeaderSize
<1>5. Uint32(Len(entries)) \in 0..MaxEntries
  <2>1. Len(entries) \in Nat
    BY DEF IInv, TypeOK
  <2> QED BY <2>1, CutCount, SudbAssumption
<1>6. c \in [count : 0..MaxEntries] /\ c \in Chunk
  BY <1>5 DEF CountOf, Chunk
<1> HIDE DEF c
<1>7. body' = <<c>> /\ Len(body') = 1 /\ body'[1] = c /\ body' # <<>> /\ body' \in Seq(Chunk)
  BY <1>1, <1>2, <1>6
<1>8. body' \o left' = Contents(entries')
  BY <1>1, <1>2, <1>7 DEF Contents, c
<1>9. TypeOK'
  BY <1>1, <1>4, <1>7 DEF IInv, TypeOK, Position
<1>10. NothingKept' /\ FirstIsCount' /\ SumWhole' /\ Headed' /\ Saved'
  BY <1>1, <1>2, <1>6, <1>7
  DEF IInv, NothingKept, FirstIsCount, SumWhole, Whole, Headed, Loading, Saved
<1>11. Fresh' /\ HeaderRead'
  BY <1>1, <1>4 DEF Fresh, HeaderRead, Loading, HeaderSize
<1>12. Written'
  BY <1>1, <1>2, <1>4, <1>7, <1>8 DEF Written, Saving, HeaderSize, EntrySize, CountOffset
<1> QED BY <1>4, <1>9, <1>10, <1>11, <1>12 DEF IInv

LEMMA FlushEntryKeeps == IInv /\ FlushEntry => IInv'
<1> SUFFICES ASSUME IInv, FlushEntry PROVE IInv'
  OBVIOUS
<1> DEFINE e == Head(left)
           n == Len(body)
<1>1. /\ pc = "writeEntries" /\ pc' = "writeEntries" /\ f' = Write(f, EntrySize)
      /\ left # <<>> /\ body' = Append(body, e) /\ left' = Tail(left)
      /\ UNCHANGED <<head, sum, entries, ok, changes, count, after>>
  BY DEF FlushEntry, At, dataVars
<1>2. /\ ok /\ changes /\ body # <<>> /\ body \o left = Contents(entries)
      /\ f.size = f.real /\ f.osPos = f.real
      /\ f.real = HeaderSize + (n - 1) * EntrySize
      /\ IF n <= 2 THEN f.pos = CountOffset ELSE f.pos > CountOffset
  BY <1>1 DEF IInv, Written, Saving
<1>3. /\ body \in Seq(Chunk) /\ left \in Seq(Entry) /\ left \in Seq(Chunk)
      /\ f \in Position /\ InOrder(f)
  <2>1. Entry \subseteq Chunk
    BY DEF Chunk
  <2>2. left \in Seq(Entry)
    BY DEF IInv, TypeOK
  <2> QED BY <2>1, <2>2, SeqMonotonic DEF IInv, TypeOK, Position
<1>4. n \in Nat /\ n >= 1
  BY <1>2, <1>3, EmptySeq
<1>5. e \in Entry /\ e \in Chunk /\ Tail(left) \in Seq(Entry)
  BY <1>1, <1>3, HeadTailProperties
<1> HIDE DEF e
<1>6. /\ body' \in Seq(Chunk) /\ body' # <<>> /\ Len(body') = n + 1 /\ body'[1] = body[1]
  BY <1>1, <1>3, <1>4, <1>5, AppendProperties
<1>7. body' \o left' = Contents(entries')
  <2>1. left = <<e>> \o Tail(left) /\ Tail(left) \in Seq(Chunk)
    BY <1>1, <1>3 DEF e
  <2>2. body' = body \o <<e>>
    BY <1>1, <1>3, <1>5, AppendIsConcat
  <2>3. (body \o <<e>>) \o Tail(left) = body \o (<<e>> \o Tail(left))
    BY <1>3, <1>5, <2>1, ConcatAssociative
  <2> QED BY <1>1, <1>2, <2>1, <2>2, <2>3
<1> HIDE DEF n
<1>8. /\ f' \in Position /\ InOrder(f')
      /\ f'.pos = IF f.pos + EntrySize <= f.size THEN f.pos + EntrySize ELSE f.pos
      /\ f'.osPos = f.osPos + EntrySize
      /\ f'.real = f.osPos + EntrySize /\ f'.size = f'.real
  <2>1. EntrySize \in Nat /\ EntrySize > 0
    BY DEF EntrySize
  <2>2. /\ f' \in Position /\ InOrder(f')
        /\ f'.pos = IF f.pos + EntrySize <= f.size THEN f.pos + EntrySize ELSE f.pos
        /\ f'.osPos = f.osPos + EntrySize /\ f'.size = f'.real
        /\ f'.real = IF f.osPos + EntrySize <= f.real THEN f.real ELSE f.osPos + EntrySize
    BY <1>1, <1>3, <2>1, WriteFields
  <2> QED BY <1>2, <1>3, <2>1, <2>2 DEF Position
<1>9. /\ f'.real = HeaderSize + (Len(body') - 1) * EntrySize
      /\ f'.size = f'.real /\ f'.osPos = f'.real /\ f'.osPos # 0
      /\ f'.real >= HeaderSize
  BY <1>2, <1>4, <1>6, <1>8 DEF HeaderSize, EntrySize
<1>10. IF Len(body') <= 2 THEN f'.pos = CountOffset ELSE f'.pos > CountOffset
  <2>1. f.pos \in Nat /\ f.size = HeaderSize + (n - 1) * EntrySize
    BY <1>2, <1>3 DEF Position
  <2>2. CASE n = 1
    BY <1>2, <1>6, <1>8, <2>1, <2>2 DEF HeaderSize, EntrySize, CountOffset
  <2>3. CASE n = 2
    BY <1>2, <1>6, <1>8, <2>1, <2>3 DEF HeaderSize, EntrySize, CountOffset
  <2>4. CASE n > 2
    <3>1. f.pos > CountOffset
      BY <1>2, <1>4, <2>4
    <3>2. f'.pos > CountOffset
      BY <1>8, <2>1, <3>1 DEF EntrySize, CountOffset
    <3> QED BY <1>4, <1>6, <2>4, <3>2
  <2> QED BY <1>4, <2>2, <2>3, <2>4
<1>11. TypeOK'
  BY <1>1, <1>5, <1>6, <1>8 DEF IInv, TypeOK, Position
<1>12. FirstIsCount'
  <2>1. f.real >= HeaderSize
    BY <1>2, <1>4 DEF HeaderSize, EntrySize
  <2> QED BY <1>6, <2>1 DEF IInv, FirstIsCount
<1>13. NothingKept' /\ SumWhole' /\ Headed' /\ Saved'
  BY <1>1, <1>2 DEF IInv, NothingKept, SumWhole, Whole, Headed, Loading, Saved
<1>14. Fresh' /\ HeaderRead'
  BY <1>1, <1>9 DEF Fresh, HeaderRead, Loading
<1>15. Written'
  BY <1>1, <1>2, <1>6, <1>7, <1>9, <1>10 DEF Written, Saving
<1> QED BY <1>8, <1>11, <1>12, <1>13, <1>14, <1>15 DEF IInv

\* A flush that has written its entries: what it hashes, and where the checksum goes.
LEMMA ToSum ==
  ASSUME IInv, pc = "writeEntries", left = <<>>
  PROVE  /\ ok /\ changes /\ body = Contents(entries) /\ Whole(body) /\ head
         /\ entries \in Seq(Entry)
         /\ f \in Position /\ InOrder(f) /\ f.real >= HeaderSize /\ f.size = f.real
         /\ f.pos # CountOffset => CountOffset <= f.size
         /\ HashedData(f) = body \/ HashedData(f) = <<>>
         /\ Len(entries) >= 2 => HashedData(f) = body
         /\ LET g == Submitted(HashEnd(f, CountOffset), 8) IN
              g \in Position /\ InOrder(g) /\ g.osPos = 8 /\ g.real = f.real
<1>1. /\ ok /\ changes /\ head /\ body # <<>> /\ body \o left = Contents(entries)
      /\ f.size = f.real /\ f.osPos = f.real
      /\ f.real = HeaderSize + (Len(body) - 1) * EntrySize
      /\ IF Len(body) <= 2 THEN f.pos = CountOffset ELSE f.pos > CountOffset
  BY DEF IInv, Written, Saving, Headed
<1>2. /\ body \in Seq(Chunk) /\ f \in Position /\ InOrder(f)
      /\ entries \in Seq(Entry)
  BY DEF IInv, TypeOK, Position
<1>3. body = Contents(entries)
  BY <1>1, <1>2, ConcatEmptySeq
<1>4. /\ Len(body) = Len(entries) + 1 /\ Len(entries) \in Nat /\ Whole(body)
  BY <1>2, <1>3, ContentsFields
<1>5. f.real >= HeaderSize
  BY <1>1, <1>4 DEF HeaderSize, EntrySize
<1>6. f.pos # CountOffset => CountOffset <= f.size
  BY <1>1, <1>2, <1>5 DEF HeaderSize, CountOffset, Position
<1>7. Len(entries) >= 2 => HashedData(f) = body
  <2>1. Len(entries) >= 2 => f.pos # CountOffset
    BY <1>1, <1>2, <1>4 DEF CountOffset, Position
  <2>2. HashStart(f, CountOffset).osPos = IF f.pos = CountOffset THEN f.osPos ELSE CountOffset
    BY <1>2, <1>6, HashStartFields
  <2> QED BY <2>1, <2>2 DEF HashedData
<1> DEFINE h == HashEnd(f, CountOffset)
           g == Submitted(h, 8)
<1>8. h \in Position /\ h.real = f.real /\ h.size = f.size
  BY <1>2, <1>6, HashEndFields
<1> HIDE DEF h
<1>9. g \in Position /\ g.pos = 8 /\ g.osPos = 8 /\ g.size = f.size /\ g.real = f.real
  BY <1>8, SubmittedFields
<1> HIDE DEF g
<1>10. InOrder(g)
  BY <1>1, <1>2, <1>5, <1>9 DEF InOrder, HeaderSize, Position
<1>11. g \in Position /\ InOrder(g) /\ g.osPos = 8 /\ g.real = f.real
  BY <1>9, <1>10
<1> QED BY <1>1, <1>2, <1>3, <1>4, <1>5, <1>6, <1>7, <1>11 DEF HashedData, g, h

LEMMA FlushChecksumKeeps == IInv /\ FlushChecksum => IInv'
<1> SUFFICES ASSUME IInv, FlushChecksum PROVE IInv'
  OBVIOUS
<1> DEFINE g == Submitted(HashEnd(f, CountOffset), 8)
<1>1. /\ pc = "writeEntries" /\ left = <<>> /\ f' = Write(g, 32)
      /\ sum' = HashedData(f) /\ changes' = FALSE /\ pc' = after /\ left' = <<>>
      /\ UNCHANGED <<head, body, entries, ok, count, after>>
  BY DEF FlushChecksum, FlushReturns, At
<1>2. /\ ok /\ body = Contents(entries) /\ Whole(body) /\ head
      /\ HashedData(f) = body \/ HashedData(f) = <<>>
      /\ g \in Position /\ InOrder(g) /\ g.osPos = 8 /\ g.real = f.real
      /\ f \in Position /\ f.real >= HeaderSize
  BY <1>1, ToSum
<1> HIDE DEF g
<1>3. f' \in Position /\ InOrder(f') /\ f'.osPos = 40 /\ f'.real = f.real
  <2>1. /\ f' \in Position /\ InOrder(f') /\ f'.osPos = g.osPos + 32
        /\ f'.real = IF g.osPos + 32 <= g.real THEN g.real ELSE g.osPos + 32
    BY <1>1, <1>2, WriteFields
  <2> QED BY <1>2, <2>1 DEF HeaderSize, Position
<1>4. after \in {"idle", "ending"}
  BY DEF IInv, TypeOK
<1>5. TypeOK'
  BY <1>1, <1>2, <1>3, <1>4, TornSum DEF IInv, TypeOK, Position
<1>6. SumWhole'
  <2>1. CASE sum' = body
    <3>1. Whole(sum')
      BY <1>2, <2>1
    <3> QED BY <3>1 DEF SumWhole, Whole
  <2>2. CASE sum' = <<>>
    BY <2>2 DEF SumWhole
  <2> QED BY <1>1, <1>2, <2>1, <2>2
<1>7. NothingKept' /\ FirstIsCount' /\ Headed' /\ Saved'
  BY <1>1, <1>2, <1>3, <1>4 DEF IInv, NothingKept, FirstIsCount, Headed, Loading, Saved
<1>8. Fresh' /\ HeaderRead' /\ Written'
  BY <1>1, <1>3, <1>4 DEF Fresh, HeaderRead, Written, Loading, Saving
<1> QED BY <1>3, <1>5, <1>6, <1>7, <1>8 DEF IInv

LEMMA FlushFailsKeeps == IInv /\ FlushFails => IInv'
<1> SUFFICES ASSUME IInv, FlushFails PROVE IInv'
  OBVIOUS
<1>1. /\ pc \in {"resize", "writeCount", "writeEntries"}
      /\ pc' = after /\ left' = <<>>
      /\ UNCHANGED <<head, entries, ok, changes, count, after>>
  BY DEF FlushFails, FlushReturns, At, diskVars, dataVars
<1>2. /\ after \in {"idle", "ending"} /\ f \in Position /\ InOrder(f) /\ body \in Seq(Chunk)
      /\ sum \in Seq(Chunk) /\ ok /\ changes /\ f.osPos # 0
  BY <1>1 DEF IInv, TypeOK, Position, Written, Saving, Fresh
<1>3. /\ f' \in Position /\ InOrder(f') /\ f'.osPos # 0
      /\ body' \in Seq(Chunk) /\ sum' \in Seq(Chunk)
      /\ sum' = sum \/ sum' = <<Torn>>
      /\ FirstIsCount'
  <2>1. CASE f' = f /\ body' = body /\ sum' = sum
    BY <1>2, <2>1 DEF IInv, FirstIsCount
  <2>2. CASE /\ pc = "writeCount" \/ (pc = "writeEntries" /\ left # <<>>)
             /\ f' = OsWrite(f, 1) /\ body' = Append(body, Torn) /\ sum' = sum
    <3>1. /\ f' \in Position /\ InOrder(f') /\ f'.osPos = f.osPos + 1
          /\ f'.real = IF f.osPos + 1 <= f.real THEN f.real ELSE f.osPos + 1
      BY <1>2, <2>2, OsWriteFields
    <3>2. Torn \in Chunk
      BY DEF Chunk
    <3>3. /\ body' \in Seq(Chunk) /\ body' # <<>>
          /\ body # <<>> => body'[1] = body[1]
      <4>1. body # <<>> => Len(body) >= 1
        BY <1>2, EmptySeq
      <4> QED BY <1>2, <2>2, <3>2, <4>1, AppendProperties
    <3>4. FirstIsCount'
      <4>1. CASE pc = "writeCount"
        <5>1. f.osPos = CountOffset /\ f.real = CountOffset
          BY <4>1 DEF IInv, Written, Resized
        <5>2. ~(f'.real >= HeaderSize)
          BY <3>1, <5>1 DEF HeaderSize, CountOffset
        <5> QED BY <5>2 DEF FirstIsCount
      <4>2. CASE pc = "writeEntries"
        <5>1. body # <<>> /\ f.real = HeaderSize + (Len(body) - 1) * EntrySize
          BY <4>2 DEF IInv, Written
        <5>2. Len(body) \in Nat \ {0}
          BY <1>2, <5>1, EmptySeq
        <5>3. f.real >= HeaderSize
          BY <5>1, <5>2 DEF HeaderSize, EntrySize
        <5> QED BY <3>3, <5>1, <5>3 DEF IInv, FirstIsCount
      <4> QED BY <2>2, <4>1, <4>2
    <3> QED BY <1>2, <2>2, <3>1, <3>3, <3>4 DEF Position
  <2>3. CASE /\ pc = "writeEntries" /\ left = <<>>
             /\ \/ f' = HashStart(f, CountOffset) /\ sum' = sum
                \/ f' = Submitted(HashEnd(f, CountOffset), 8) /\ sum' = sum
                \/ f' = OsWrite(Submitted(HashEnd(f, CountOffset), 8), 1) /\ sum' = <<Torn>>
             /\ body' = body
    <3> DEFINE g == Submitted(HashEnd(f, CountOffset), 8)
    <3>1. /\ g \in Position /\ InOrder(g) /\ g.osPos = 8 /\ g.real = f.real
          /\ f.real >= HeaderSize
          /\ f.pos # CountOffset => CountOffset <= f.size
      BY <2>3, ToSum
    <3> HIDE DEF g
    <3>2. f' \in Position /\ InOrder(f') /\ f'.osPos # 0 /\ f'.real = f.real
      <4>1. CASE f' = HashStart(f, CountOffset)
        <5>1. /\ f' \in Position /\ InOrder(f') /\ f'.real = f.real
              /\ f'.osPos = IF f.pos = CountOffset THEN f.osPos ELSE CountOffset
          BY <1>2, <3>1, <4>1, HashStartFields
        <5> QED BY <1>2, <5>1 DEF CountOffset
      <4>2. CASE f' = g
        BY <3>1, <4>2
      <4>3. CASE f' = OsWrite(g, 1)
        <5>1. /\ f' \in Position /\ InOrder(f') /\ f'.osPos = g.osPos + 1
              /\ f'.real = IF g.osPos + 1 <= g.real THEN g.real ELSE g.osPos + 1
          BY <3>1, <4>3, OsWriteFields
        <5> QED BY <1>2, <3>1, <5>1 DEF HeaderSize, Position
      <4> QED BY <2>3, <4>1, <4>2, <4>3 DEF g
    <3>3. sum' = sum \/ sum' = <<Torn>>
      BY <2>3
    <3>4. FirstIsCount'
      BY <2>3, <3>2 DEF IInv, FirstIsCount
    <3> QED BY <1>2, <2>3, <3>2, <3>3, <3>4, TornSum
  <2> QED BY <2>1, <2>2, <2>3 DEF FlushFails, At, diskVars
<1>4. TypeOK'
  BY <1>1, <1>2, <1>3, Blank DEF IInv, TypeOK, Position
<1>5. SumWhole'
  BY <1>3 DEF IInv, SumWhole, Whole
<1>6. NothingKept' /\ Headed' /\ Saved'
  BY <1>1, <1>2 DEF IInv, NothingKept, Headed, Loading, Saved
<1>7. Fresh' /\ HeaderRead' /\ Written'
  BY <1>1, <1>2, <1>3 DEF Fresh, HeaderRead, Written, Loading, Saving
<1> QED BY <1>3, <1>4, <1>5, <1>6, <1>7 DEF IInv

LEMMA NextIInv == IInv /\ [Next]_vars => IInv'
<1> SUFFICES ASSUME IInv, [Next]_vars PROVE IInv'
  OBVIOUS
<1>1. CASE UNCHANGED vars
  BY <1>1 DEF vars, diskVars, dataVars, callVars, IInv, TypeOK, InOrder, NothingKept,
     FirstIsCount, SumWhole, Whole, Headed, Loading, Fresh, HeaderRead, Written, Saving,
     Saved
<1>2. CASE MakeStorage \/ MakeHeader \/ MakeHeaderFails
  BY <1>2, MakeKeeps
<1>3. CASE Construct \/ Refresh
  BY <1>3, ConstructKeeps, RefreshKeeps
<1>4. CASE Load
  BY <1>4, LoadHeaderKeeps, LoadChecksumKeeps, LoadEntriesKeeps, LoadFailsKeeps DEF Load
<1>5. CASE Flush \/ Destroy
  BY <1>5, BeginFlushKeeps DEF Flush, Destroy
<1>6. CASE Save
  BY <1>6, FlushResizeKeeps, FlushCountKeeps, FlushEntryKeeps, FlushChecksumKeeps,
     FlushFailsKeeps DEF Save
<1> QED BY <1>1, <1>2, <1>3, <1>4, <1>5, <1>6, EditKeeps, GoneKeeps DEF Next

\* The inductive invariant of a storage of accounts, at every place of a load and a
\* flush (sudb.cpp:88-183, 279-314).
THEOREM Invariant == Spec => []IInv
BY InitIInv, NextIInv, PTL DEF Spec

\* The fields of an sudb_file and its file keep their types, for any accounts and
\* any number that can be counted: an object that is not loaded takes as many entries
\* as that, a load adds no more than as many, and then nothing adds one.
THEOREM TypeCorrect == Spec => []TypeOK
<1>1. IInv => TypeOK
  BY DEF IInv
<1> QED BY <1>1, Invariant, PTL

\* An object without changes holds what the file holds, whatever failed before and
\* in whatever order the methods were called (sudb.cpp:316-913).
THEOREM NothingForgotten == Spec => []CleanMeansSaved
<1>1. IInv => CleanMeansSaved
  BY DEF IInv, Saved, CleanMeansSaved
<1> QED BY <1>1, Invariant, PTL

\* A flush writes at the end of the file, although it never seeks there
\* (sudb.cpp:279-314), and for any number of entries.
THEOREM AtTheEnd == Spec => []WritesAtEnd
<1>1. IInv => WritesAtEnd
  <2> SUFFICES ASSUME IInv, pc \in {"writeCount", "writeEntries"}
               PROVE  f.osPos = f.real /\ f.real = CountOffset + SizeOf(body)
    BY DEF WritesAtEnd
  <2>1. CASE pc = "writeCount"
    BY <2>1 DEF IInv, Written, Resized, SizeOf, CountOffset
  <2>2. CASE pc = "writeEntries"
    <3>1. /\ f.osPos = f.real /\ body # <<>>
          /\ f.real = HeaderSize + (Len(body) - 1) * EntrySize
      BY <2>2 DEF IInv, Written
    <3>2. Len(body) \in Nat
      BY DEF IInv, TypeOK
    <3> QED BY <3>1, <3>2 DEF SizeOf, HeaderSize, EntrySize, CountOffset
  <2> QED BY <2>1, <2>2
<1> QED BY <1>1, Invariant, PTL

-----------------------------------------------------------------------------
(* The refinement of Store.                                                *)

LEMMA PlainVersion ==
  ASSUME NEW es \in Seq(Entry)
  PROVE  \A s : Abstract!Version(es, s) = es
BY DEF Abstract!Version, Plain

LEMMA SameDisk == UNCHANGED <<head, sum, body>> => Durable' = Durable
BY DEF Durable

LEMMA NothingDurable ==
  ~head \/ sum # body \/ body = <<>> \/ body[1] = Torn => Durable = {}
BY DEF Durable

LEMMA WholeDurable ==
  Whole(body) /\ sum = body /\ head => Durable = {Counted(Tail(body))}
<1> SUFFICES ASSUME Whole(body), sum = body, head PROVE Durable = {Counted(Tail(body))}
  OBVIOUS
<1>1. body # <<>> /\ body[1] # Torn
  BY WholeFields DEF Whole
<1> QED BY <1>1 DEF Durable

\* Of nothing, nothing is left out.
LEMMA CountedBlank == Counted(<<>>) = <<>>
BY Blank, CountedFields

LEMMA InitImplements == Init => Abstract!Init
<1> SUFFICES ASSUME Init PROVE Abstract!Init
  OBVIOUS
<1>1. Whole(body) /\ sum = body /\ head /\ Tail(body) = <<>>
  BY Blank, ContentsFields DEF Init
<1>2. Durable = {<<>>}
  BY <1>1, WholeDurable, CountedBlank
<1> QED BY <1>2 DEF Abstract!Init, Init

LEMMA MakeImplements ==
  ASSUME IInv, MakeStorage \/ MakeHeader \/ MakeHeaderFails
  PROVE  [Abstract!Next]_(Abstract!vars)
<1>1. /\ pc \in {"gone", "make"} /\ pc' \in {"gone", "make"}
      /\ UNCHANGED <<entries, ok, changes>>
  BY DEF MakeStorage, MakeHeader, MakeHeaderFails, At, dataVars
<1>2. UNCHANGED Abstract!object
  BY <1>1 DEF Abstract!object
<1>3. CASE MakeStorage
  <2>1. Durable' = {}
    BY <1>3 DEF MakeStorage, Durable
  <2> QED BY <1>1, <1>2, <2>1 DEF Abstract!Next, Abstract!Wipe
<1>4. CASE MakeHeader
  <2>1. Whole(body)' /\ (sum = body)' /\ head' /\ Tail(body') = <<>>
    <3>1. Whole(Contents(<<>>)) /\ Tail(Contents(<<>>)) = <<>>
      BY Blank, ContentsFields
    <3>2. head' = TRUE /\ sum' = Contents(<<>>) /\ body' = Contents(<<>>)
      BY <1>4 DEF MakeHeader
    <3> QED BY <3>1, <3>2 DEF Whole
  <2>2. Durable' = {<<>>}
    <3>1. body' # <<>> /\ body'[1] # Torn
      BY <2>1, WholeFields DEF Whole
    <3> QED BY <2>1, <3>1, CountedBlank DEF Durable
  <2> QED BY <1>1, <1>2, <2>2 DEF Abstract!Next, Abstract!Create
<1>5. CASE MakeHeaderFails
  <2>1. Durable' = Durable
    BY <1>5, SameDisk DEF MakeHeaderFails, diskVars
  <2> QED BY <1>2, <2>1 DEF Abstract!vars
<1> QED BY <1>3, <1>4, <1>5

LEMMA ConstructImplements == IInv /\ Construct => Abstract!Open
BY SameDisk DEF Construct, At, diskVars, dataVars, Abstract!Open

\* The steps before an answer, and a flush that has nothing to do or not begun.
LEMMA Stutters ==
  ASSUME UNCHANGED <<head, sum, body, entries, ok, changes>>,
         pc \notin {"gone", "make", "writeCount", "writeEntries"},
         pc' \notin {"gone", "make", "writeCount", "writeEntries"}
  PROVE  UNCHANGED Abstract!vars
BY SameDisk DEF Abstract!vars, Abstract!object

LEMMA NotLoadedImplements ==
  ASSUME pc \in {"loadHeader", "loadChecksum", "loadEntries"},
         entries' = entries \/ entries' = <<>>, Loaded(FALSE),
         UNCHANGED <<head, sum, body, changes>>
  PROVE  Abstract!LoadFails
BY SameDisk DEF Loaded, Abstract!LoadFails

LEMMA LoadEntriesImplements ==
  ASSUME IInv, IInv', LoadEntries
  PROVE  Abstract!Load \/ Abstract!LoadFails
<1>1. /\ pc = "loadEntries"
      /\ UNCHANGED <<head, sum, body, changes, count, after, left>>
  BY DEF LoadEntries, At, diskVars
<1> DEFINE new == SubSeq(body, 2, count + 1)
<1>2. /\ Whole(body) /\ sum = body /\ head /\ ~ok
      /\ new = Counted(Tail(body)) /\ new \in Seq(Entry) /\ Len(new) = count
      /\ changes \/ entries = <<>>
  BY <1>1, ToLoad
<1>3. Durable = {new} /\ Durable' = Durable
  BY <1>1, <1>2, WholeDurable, SameDisk
<1>4. entries \in Seq(Entry) /\ entries' \in Seq(Entry)
  BY DEF IInv, TypeOK
<1>5. CASE Loaded(TRUE) /\ entries' = entries \o new
  <2> HIDE DEF new
  <2> DEFINE added == SubSeq(entries', Len(entries) + 1, Len(entries'))
  <2>1. added = new
    <3>1. /\ Len(entries') = Len(entries) + Len(new)
          /\ \A k \in 1..Len(entries') :
               entries'[k] = IF k <= Len(entries) THEN entries[k] ELSE new[k - Len(entries)]
      BY <1>2, <1>4, <1>5, ConcatProperties
    <3>2. Len(entries) \in Nat /\ Len(new) \in Nat
      BY <1>2, <1>4
    <3>3. /\ added \in Seq(Entry) /\ Len(added) = Len(new)
          /\ \A k \in 1..Len(new) : added[k] = entries'[Len(entries) + k]
      BY <1>4, <3>1, <3>2
    <3> HIDE DEF added
    <3>4. ASSUME NEW k \in 1..Len(new) PROVE added[k] = new[k]
      <4>1. /\ Len(entries) + k \in 1..Len(entries')
            /\ ~(Len(entries) + k <= Len(entries))
            /\ (Len(entries) + k) - Len(entries) = k
        BY <3>1, <3>2
      <4>2. entries'[Len(entries) + k] = new[k]
        BY <3>1, <4>1
      <4> QED BY <3>3, <4>2
    <3> QED BY <1>2, <3>3, <3>4, SeqEqual
  <2> HIDE DEF added
  <2>2. Abstract!Version(added, "none") = new
    BY <1>2, <2>1, PlainVersion
  <2>3. pc' = "idle" /\ ok' = TRUE
    BY <1>5 DEF Loaded
  <2>4. /\ new \in Durable /\ entries' = entries \o added
        /\ Abstract!Version(added, "none") = new
    BY <1>3, <1>5, <2>1, <2>2
  <2> QED BY <1>1, <1>2, <1>3, <2>3, <2>4 DEF Abstract!Load, added
<1>6. CASE Loaded(FALSE) /\ entries' = <<>>
  BY <1>1, <1>6, NotLoadedImplements
<1>7. CASE count = 0
  <2>1. Loaded(TRUE) /\ entries' = entries
    BY <1>7 DEF LoadEntries
  <2>2. entries' = entries \o new
    <3>1. new = <<>>
      BY <1>2, <1>7, EmptySeq
    <3> QED BY <1>4, <2>1, <3>1, ConcatEmptySeq
  <2> QED BY <1>5, <2>1, <2>2
<1>8. CASE count # 0
  BY <1>5, <1>6, <1>8 DEF LoadEntries
<1> QED BY <1>7, <1>8

LEMMA LoadImplements ==
  ASSUME IInv, IInv', Load
  PROVE  [Abstract!Next]_(Abstract!vars)
<1>1. CASE LoadHeader
  <2>1. pc = "loadHeader" /\ UNCHANGED <<head, sum, body, entries, changes>>
    BY <1>1 DEF LoadHeader, At, diskVars
  <2>2. (pc' = "loadChecksum" /\ ok' = ok) \/ Loaded(FALSE)
    BY <1>1 DEF LoadHeader
  <2> QED BY <2>1, <2>2, Stutters, NotLoadedImplements DEF Abstract!Next
<1>2. CASE LoadChecksum
  <2>1. pc = "loadChecksum" /\ UNCHANGED <<head, sum, body, entries, changes>>
    BY <1>2 DEF LoadChecksum, At, diskVars
  <2>2. (pc' = "loadEntries" /\ ok' = ok) \/ Loaded(FALSE)
    BY <1>2 DEF LoadChecksum
  <2> QED BY <2>1, <2>2, Stutters, NotLoadedImplements DEF Abstract!Next
<1>3. CASE LoadEntries
  BY <1>3, LoadEntriesImplements DEF Abstract!Next
<1>4. CASE LoadFails
  <2>1. /\ pc \in {"loadHeader", "loadChecksum", "loadEntries"}
        /\ entries' = entries \/ entries' = <<>>
        /\ Loaded(FALSE) /\ UNCHANGED <<head, sum, body, changes>>
    BY <1>4 DEF LoadFails, At, diskVars
  <2> QED BY <2>1, NotLoadedImplements DEF Abstract!Next
<1> QED BY <1>1, <1>2, <1>3, <1>4 DEF Load

LEMMA EditImplements == IInv /\ Edit => Abstract!Edit
<1> SUFFICES ASSUME IInv, Edit PROVE Abstract!Edit
  OBVIOUS
<1>1. PICK es : Changed(es) /\ Edited(es)
  BY EditShape
<1>2. /\ pc = "idle" /\ pc' = "idle" /\ entries' = es /\ changes' = TRUE
      /\ UNCHANGED <<head, sum, body, ok>>
  BY <1>1, EditShape DEF Changed, diskVars, callVars
<1>3. Durable' = Durable
  BY <1>2, SameDisk
<1>4. \/ \E e \in Entry : entries' = Append(entries, e)
      \/ /\ ok
         /\ \/ \E k \in DOMAIN entries, e \in Entry : entries' = [entries EXCEPT ![k] = e]
            \/ \E k \in DOMAIN entries :
                 entries' = SubSeq(entries, 1, k - 1) \o
                            SubSeq(entries, k + 1, Len(entries))
            \/ entries' = <<>>
  BY <1>1, <1>2, Zenon DEF Edited, Appended, ReplaceAt, RemoveAt
<1> QED BY <1>2, <1>3, <1>4 DEF Abstract!Edit

LEMMA BeginFlushImplements ==
  ASSUME NEW return \in {"idle", "ending"}, BeginFlush(return)
  PROVE  UNCHANGED Abstract!vars
BY Stutters DEF BeginFlush, At, diskVars, dataVars

LEMMA GoneImplements == Destroyed \/ Crash => Abstract!Close
BY SameDisk DEF Destroyed, Crash, Gone, diskVars, Abstract!Close

\* What is being written is nothing to a load, or already all that one takes.
RewriteIsWhole == pc = "writeEntries" => Durable = {} \/ Durable = {Counted(entries)}

LEMMA Rewritten == IInv => RewriteIsWhole
<1> SUFFICES ASSUME IInv, pc = "writeEntries", Durable # {}
             PROVE  Durable = {Counted(entries)}
  BY DEF RewriteIsWhole
<1>1. head /\ sum = body /\ body # <<>> /\ body[1] # Torn
  BY NothingDurable
<1>2. /\ body \in Seq(Chunk) /\ left \in Seq(Entry) /\ left \in Seq(Chunk)
      /\ entries \in Seq(Entry)
  <2>1. Entry \subseteq Chunk
    BY DEF Chunk
  <2>2. left \in Seq(Entry)
    BY DEF IInv, TypeOK
  <2> QED BY <2>1, <2>2, SeqMonotonic DEF IInv, TypeOK
<1>3. sum # <<Torn>>
  BY <1>1
<1>4. Whole(body)
  BY <1>1, <1>3 DEF IInv, SumWhole
<1>5. body \o left = Contents(entries)
  BY DEF IInv, Written
<1> DEFINE es == Tail(body)
           u == Uint32(Len(es))
<1>6. /\ body[1] = CountOf(u) /\ Len(body) = Len(es) + 1
      /\ \A k \in 1..Len(es) : body[k + 1] = es[k]
  BY <1>4, WholeFields
<1>7. es \in Seq(Entry) /\ Len(es) \in Nat
  BY <1>4 DEF Whole
<1> HIDE DEF es
<1>8. /\ Len(Contents(entries)) = Len(entries) + 1
      /\ Contents(entries)[1] = CountOf(Uint32(Len(entries)))
      /\ \A k \in 1..Len(entries) : Contents(entries)[k + 1] = entries[k]
  BY <1>2, ContentsFields
<1>9. /\ Len(body \o left) = Len(body) + Len(left) /\ Len(left) \in Nat
      /\ \A k \in 1..Len(body) : (body \o left)[k] = body[k]
  <2>1. Len(body) \in Nat /\ Len(left) \in Nat
    BY <1>2, <1>6, <1>7
  <2> QED BY <1>2, <2>1, ConcatProperties
\* Both counts are one, and so are as many entries.
<1>10. Uint32(Len(entries)) = u /\ Len(es) <= Len(entries)
  <2>1. (body \o left)[1] = body[1]
    BY <1>6, <1>7, <1>9
  <2>2. Contents(entries)[1] = CountOf(u)
    BY <1>5, <1>6, <2>1
  <2>3. Uint32(Len(entries)) = u
    BY <1>8, <2>2 DEF CountOf
  <2> QED BY <1>2, <1>5, <1>6, <1>7, <1>8, <1>9, <2>3
<1>11. ASSUME NEW k \in 1..Len(es)
       PROVE  es[k] = entries[k]
  <2>1. k + 1 \in 1..Len(body) /\ k \in 1..Len(entries)
    BY <1>2, <1>6, <1>7, <1>10
  <2> QED BY <1>5, <1>6, <1>8, <1>9, <2>1
<1>12. u \in Nat /\ u <= Len(es)
  BY <1>7, CutCount
<1>13. /\ Counted(es) \in Seq(Entry) /\ Len(Counted(es)) = u
       /\ \A k \in 1..u : Counted(es)[k] = es[k]
  BY <1>7, CountedFields
<1> HIDE DEF u
<1>14. /\ Counted(entries) \in Seq(Entry) /\ Len(Counted(entries)) = u
       /\ \A k \in 1..u : Counted(entries)[k] = entries[k]
  BY <1>2, <1>10, CountedFields
<1>15. ASSUME NEW k \in 1..u PROVE Counted(es)[k] = Counted(entries)[k]
  BY <1>7, <1>11, <1>12, <1>13, <1>14
<1>16. Counted(es) = Counted(entries)
  BY <1>13, <1>14, <1>15, SeqEqual
<1> QED BY <1>1, <1>4, <1>16, WholeDurable DEF es

LEMMA RewrittenNext == IInv' => RewriteIsWhole'
BY Rewritten, PTL

LEMMA CurrentVersion ==
  IInv => Abstract!Version(Counted(entries), "none") = Counted(entries)
<1> SUFFICES ASSUME IInv
             PROVE  Abstract!Version(Counted(entries), "none") = Counted(entries)
  OBVIOUS
<1>1. Counted(entries) \in Seq(Entry)
  BY CountedFields DEF IInv, TypeOK
<1> QED BY <1>1, PlainVersion

LEMMA FlushChecksumImplements == IInv /\ FlushChecksum => Abstract!Commit
<1> SUFFICES ASSUME IInv, FlushChecksum PROVE Abstract!Commit
  OBVIOUS
<1>1. /\ pc = "writeEntries" /\ left = <<>> /\ pc' = after
      /\ sum' = HashedData(f) /\ changes' = FALSE
      /\ UNCHANGED <<head, body, entries, ok>>
  BY DEF FlushChecksum, FlushReturns, At
<1>2. /\ body = Contents(entries) /\ Whole(body) /\ head
      /\ entries \in Seq(Entry)
      /\ HashedData(f) = body \/ HashedData(f) = <<>>
      /\ Len(entries) >= 2 => HashedData(f) = body
  BY <1>1, ToSum
<1>3. after \in {"idle", "ending"}
  BY DEF IInv, TypeOK
<1>4. body # <<>> /\ body[1] # Torn /\ Tail(body) = entries /\ Len(entries) \in Nat
  BY <1>2, WholeFields, ContentsFields DEF Whole
<1>5. CASE HashedData(f) = body
  <2>1. Durable' = {Counted(entries)}
    BY <1>1, <1>2, <1>4, <1>5 DEF Durable
  <2> QED BY <1>1, <1>3, <2>1, CurrentVersion DEF Abstract!Commit
<1>6. CASE HashedData(f) # body
  <2>1. Durable' = {}
    BY <1>1, <1>2, <1>4, <1>6 DEF Durable
  <2>2. FewEntries(entries)
    BY <1>2, <1>4, <1>6 DEF FewEntries
  <2> QED BY <1>1, <1>3, <2>1, <2>2 DEF Abstract!Commit
<1> QED BY <1>5, <1>6

LEMMA FlushFailsImplements == IInv /\ FlushFails => [Abstract!Next]_(Abstract!vars)
<1> SUFFICES ASSUME IInv, FlushFails PROVE [Abstract!Next]_(Abstract!vars)
  OBVIOUS
<1>1. /\ pc' \in {"idle", "ending"} /\ UNCHANGED <<head, entries, ok, changes>>
  <2>1. after \in {"idle", "ending"}
    BY DEF IInv, TypeOK
  <2> QED BY <2>1 DEF FlushFails, FlushReturns, diskVars, dataVars
<1>2. CASE pc = "resize"
  <2>1. UNCHANGED <<sum, body>>
    BY <1>2 DEF FlushFails, At, diskVars
  <2> QED BY <1>1, <1>2, <2>1, Stutters
<1>3. CASE pc \in {"writeCount", "writeEntries"}
  <2>1. Durable' = {} \/ Durable' = {Counted(entries)}
    <3>1. CASE pc = "writeCount"
      <4>1. body = <<>> /\ (body' = body \/ body' = Append(body, Torn))
        BY <3>1 DEF FlushFails, At, diskVars, IInv, Written
      <4>2. body' = <<>> \/ body'[1] = Torn
        BY <4>1
      <4> QED BY <4>2 DEF Durable
    <3>2. CASE pc = "writeEntries" /\ left # <<>>
      <4>1. sum' = sum /\ (body' = body \/ body' = Append(body, Torn))
        BY <3>2 DEF FlushFails, At, diskVars
      <4>2. CASE body' = body
        BY <1>1, <3>2, <4>1, <4>2, SameDisk, Rewritten DEF RewriteIsWhole
      <4>3. CASE body' = Append(body, Torn)
        <5>1. body # <<>> /\ body \in Seq(Chunk) /\ Torn \in Chunk
          BY <3>2 DEF IInv, Written, TypeOK, Chunk
        <5>2. Len(body) \in Nat \ {0}
          BY <5>1, EmptySeq
        <5>3. Len(body') = Len(body) + 1 /\ body'[Len(body) + 1] = Torn
          BY <4>3, <5>1, AppendProperties
        <5>4. sum' # body'
          <6> SUFFICES ASSUME sum = body' PROVE FALSE
            BY <4>1
          <6>1. Len(sum) = Len(body) + 1 /\ sum[Len(body) + 1] = Torn
            BY <5>3
          <6>2. sum # <<>> /\ sum # <<Torn>>
            BY <5>2, <6>1
          <6>3. Whole(sum)
            BY <6>2 DEF IInv, SumWhole
          <6>4. Tail(sum) \in Seq(Entry) /\ Len(sum) = Len(Tail(sum)) + 1
            BY <6>3, WholeFields DEF Whole
          <6>5. sum[Len(body) + 1] = Tail(sum)[Len(body)]
            <7>1. Len(body) \in 1..Len(Tail(sum))
              BY <5>2, <6>1, <6>4
            <7> QED BY <6>3, <7>1, WholeFields
          <6>6. Tail(sum)[Len(body)] \in Entry
            BY <5>2, <6>1, <6>4, ElementOfSeq
          <6> QED BY <6>1, <6>5, <6>6, TornIsOther
        <5> QED BY <5>4 DEF Durable
      <4> QED BY <4>1, <4>2, <4>3
    <3>3. CASE pc = "writeEntries" /\ left = <<>>
      <4>1. body' = body /\ (sum' = sum \/ sum' = <<Torn>>)
        BY <3>3 DEF FlushFails, At, diskVars
      <4>2. CASE sum' = sum
        BY <1>1, <3>3, <4>1, <4>2, SameDisk, Rewritten DEF RewriteIsWhole
      <4>3. CASE sum' = <<Torn>>
        <5>1. body'[1] = Torn \/ sum' # body'
          BY <4>3
        <5> QED BY <5>1 DEF Durable
      <4> QED BY <4>1, <4>2, <4>3
    <3> QED BY <1>3, <3>1, <3>2, <3>3
  <2>2. Abstract!Version(Counted(entries), "none") = Counted(entries)
    BY CurrentVersion
  <2> QED BY <1>1, <1>3, <2>1, <2>2 DEF Abstract!Next, Abstract!SaveFails
<1> QED BY <1>2, <1>3 DEF FlushFails, At

LEMMA SaveImplements ==
  ASSUME IInv, IInv', Save
  PROVE  [Abstract!Next]_(Abstract!vars)
<1>1. CASE FlushResize
  <2>1. /\ pc = "resize" /\ pc' = "writeCount" /\ body' = <<>>
        /\ UNCHANGED <<entries, ok, changes>>
    BY <1>1 DEF FlushResize, At, dataVars
  <2>2. ok /\ changes
    BY <2>1 DEF IInv, Written, Saving
  <2>3. Durable' = {}
    BY <2>1 DEF Durable
  <2> QED BY <2>1, <2>2, <2>3 DEF Abstract!Next, Abstract!BeginSave
<1>2. CASE FlushCount \/ FlushEntry
  <2>1. /\ pc \in {"writeCount", "writeEntries"} /\ pc' = "writeEntries"
        /\ UNCHANGED <<entries, ok, changes>>
    BY <1>2 DEF FlushCount, FlushEntry, At, dataVars
  <2>2. Durable' = {} \/ Durable' = {Counted(entries)}
    BY <2>1, RewrittenNext DEF RewriteIsWhole
  <2>3. UNCHANGED Abstract!object
    BY <2>1 DEF Abstract!object
  <2> QED BY <2>1, <2>2, <2>3, CurrentVersion DEF Abstract!Next, Abstract!Rewrite
<1>3. CASE FlushChecksum
  BY <1>3, FlushChecksumImplements DEF Abstract!Next
<1>4. CASE FlushFails
  BY <1>4, FlushFailsImplements
<1> QED BY <1>1, <1>2, <1>3, <1>4 DEF Save

LEMMA NextImplements == IInv /\ IInv' /\ [Next]_vars => [Abstract!Next]_(Abstract!vars)
<1> SUFFICES ASSUME IInv, IInv', [Next]_vars
             PROVE  [Abstract!Next]_(Abstract!vars)
  OBVIOUS
<1>1. CASE UNCHANGED vars
  BY <1>1, SameDisk
  DEF vars, diskVars, dataVars, callVars, Abstract!vars, Abstract!object
<1>2. CASE MakeStorage \/ MakeHeader \/ MakeHeaderFails
  BY <1>2, MakeImplements
<1>3. CASE Construct
  BY <1>3, ConstructImplements DEF Abstract!Next
<1>4. CASE Refresh
  <2>1. /\ pc = "idle" /\ pc' = "loadHeader"
        /\ UNCHANGED <<head, sum, body, entries, ok, changes>>
    BY <1>4 DEF Refresh, At, diskVars, dataVars
  <2> QED BY <2>1, Stutters
<1>5. CASE Load
  BY <1>5, LoadImplements
<1>6. CASE Edit
  BY <1>6, EditImplements DEF Abstract!Next
<1>7. CASE Flush \/ Destroy
  BY <1>7, BeginFlushImplements DEF Flush, Destroy
<1>8. CASE Destroyed \/ Crash
  BY <1>8, GoneImplements DEF Abstract!Next
<1>9. CASE Save
  BY <1>9, SaveImplements
<1> QED BY <1>1, <1>2, <1>3, <1>4, <1>5, <1>6, <1>7, <1>8, <1>9 DEF Next

\* The storage of accounts implements Store: whatever call fails and wherever the
\* process ends, the file holds one whole version of the entries or nothing that
\* loads, and a save without a failure puts two or more entries there
\* (sudb.cpp:116-369, 522-913), for any accounts and any number of entries.
THEOREM Refinement == Spec => Promise
BY InitIInv, NextIInv, InitImplements, NextImplements, PTL
DEF Spec, Promise, Abstract!Spec
=============================================================================
