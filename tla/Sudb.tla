-------------------------------- MODULE Sudb --------------------------------
(***************************************************************************)
(* Class sudb_file (extensions/sudb.cpp): a storage of accounts, loaded    *)
(* into memory by the constructor and written back by flush(), which the   *)
(* destructor calls too.  One thread uses the object; the process may end  *)
(* between any two system calls (Crash), and starts again.                 *)
(*                                                                         *)
(* The file.  Bytes 0-7 are the signature and the magic value, 8-39 the    *)
(* checksum, which is the BLAKE3 hash of the rest, 40-43 the number of     *)
(* entries, and then come the entries, 152 bytes each.  Here head says that*)
(* the first eight bytes are right, sum is the checksum, and body the      *)
(* sequence of what follows: the count, the entries, Torn where a write    *)
(* stopped half way (one byte of it).  A hash stands for what was hashed.  *)
(* Positions are those of module FilePosition, in bytes.                   *)
(*                                                                         *)
(* A definition named X_Y is X with the fault Y.                           *)
(***************************************************************************)
EXTENDS HashFile, Sequences, SequencesExt

CONSTANTS
  Accounts,     \* account names (their hashes)
  Secrets,      \* the rest of an entry: password hash, salt, hash of the
                \* recovery code
  MaxEntries,   \* the largest number of entries that is counted
  OsFails,      \* whether a system call on the file may fail
  Crashes       \* whether the process may end in the middle

ASSUME SudbAssumption ==
  /\ MaxEntries \in Nat
  /\ OsFails \in BOOLEAN
  /\ Crashes \in BOOLEAN

VARIABLES
  head, sum, body,   \* the file
  f,                 \* _Myfile
  entries,           \* _Myentries
  ok, changes,       \* _Myok, _Mychanges
  count,             \* _Myheader._Mydata._Count
  pc,                \* the call's place; "gone" without an object
  after,             \* where flush() returns to: "idle", or "ending" in the
                     \* destructor
  left               \* the entries a flush has yet to write

diskVars == <<head, sum, body>>
dataVars == <<entries, ok, changes>>
callVars == <<pc, after, left>>
vars == <<diskVars, f, dataVars, count, callVars>>

HeaderSize == 44
EntrySize == 152
CountOffset == 40

Torn == [torn |-> TRUE]
CountOf(n) == [count |-> n]
EntryOf(a, s) == [account |-> a, secret |-> s]
Entry == [account : Accounts, secret : Secrets]

\* The count is cut to its four bytes: of more than MaxEntries entries it names a
\* part, the front.
Uint32(n) == n % (MaxEntries + 1)
Contents(es) == <<CountOf(Uint32(Len(es)))>> \o es
Counted(es) == SubSeq(es, 1, Uint32(Len(es)))

\* The storage as make_storage() leaves it; no object yet.
Init ==
  /\ head = TRUE /\ body = Contents(<<>>) /\ sum = Contents(<<>>)
  /\ f = OpenedFile(HeaderSize)
  /\ entries = <<>> /\ ok = FALSE /\ changes = FALSE /\ count = 0
  /\ pc = "gone" /\ after = "idle" /\ left = <<>>

At(label) == pc = label

\* Once the object is gone so are its members.
Gone ==
  /\ pc' = "gone" /\ after' = "idle" /\ left' = <<>>
  /\ entries' = <<>> /\ ok' = FALSE /\ changes' = FALSE /\ count' = 0
  /\ f' = OpenedFile(f.real)

-----------------------------------------------------------------------------
(* make_storage(), of a storage nobody has open.                           *)

\* clear()
MakeStorage ==
  /\ At("gone")
  /\ pc' = "make"
  /\ head' = FALSE /\ sum' = <<Torn>> /\ body' = <<>>
  /\ f' = Resized(f, 0)
  /\ UNCHANGED <<dataVars, count, after, left>>

MakeHeader ==
  /\ At("make")
  /\ head' = TRUE /\ sum' = Contents(<<>>) /\ body' = Contents(<<>>)
  /\ f' = OpenedFile(HeaderSize)
  /\ pc' = "gone"
  /\ UNCHANGED <<dataVars, count, after, left>>

MakeHeaderFails ==
  /\ At("make") /\ OsFails
  /\ pc' = "gone"
  /\ \E part \in 0..1 : f' = OpenedFile(part)
  /\ UNCHANGED <<diskVars, dataVars, count, after, left>>

-----------------------------------------------------------------------------
(* _Load_file(), by the constructor and by refresh(), which goes on from   *)
(* the position it finds.                                                  *)

Construct ==
  /\ At("gone")
  /\ pc' = "loadHeader"
  /\ f' = OpenedFile(f.real)
  /\ UNCHANGED <<diskVars, dataVars, count, after, left>>

Refresh ==
  /\ At("idle")
  /\ pc' = "loadHeader"
  /\ UNCHANGED <<diskVars, f, dataVars, count, after, left>>

Loaded(answer) == ok' = answer /\ pc' = "idle"

\* 44 bytes from the beginning of a storage are a header; from anywhere else
\* they are not.
LoadHeader ==
  /\ At("loadHeader")
  /\ f' = Read(f, HeaderSize)
  /\ IF BytesRead(f, HeaderSize) = HeaderSize /\ f.osPos = 0 /\ head
       THEN count' = body[1].count /\ pc' = "loadChecksum" /\ UNCHANGED ok
       ELSE Loaded(FALSE) /\ UNCHANGED count
  /\ UNCHANGED <<diskVars, entries, changes, after, left>>

\* What blake3_file(_Myfile, 40) hashes.
HashedData(g) ==
  IF HashStart(g, CountOffset).osPos = CountOffset THEN body ELSE <<>>

LoadChecksum_Ignored ==
  /\ At("loadChecksum")
  /\ f' = HashEnd(f, CountOffset)
  /\ pc' = "loadEntries"
  /\ UNCHANGED <<diskVars, dataVars, count, after, left>>

LoadChecksum ==
  /\ At("loadChecksum")
  /\ f' = HashEnd(f, CountOffset)
  /\ IF HashedData(f) = sum
       THEN pc' = "loadEntries" /\ UNCHANGED ok
       ELSE Loaded(FALSE)
  /\ UNCHANGED <<diskVars, entries, changes, count, after, left>>

\* The entries are appended to those that are there; when one is missing all
\* of them go.
LoadEntries ==
  /\ At("loadEntries")
  /\ IF count = 0
       THEN Loaded(TRUE) /\ UNCHANGED <<f, entries>>
       ELSE /\ f' = Read(Submitted(f, HeaderSize), count * EntrySize)
            /\ IF HeaderSize + count * EntrySize <= f.real
                 THEN /\ entries' = entries \o SubSeq(body, 2, count + 1)
                      /\ Loaded(TRUE)
                 ELSE entries' = <<>> /\ Loaded(FALSE)
  /\ UNCHANGED <<diskVars, changes, count, after, left>>

\* A read fails at one of the three places; at the last one the entries go.
LoadFails ==
  /\ OsFails
  /\ \/ At("loadHeader") /\ UNCHANGED <<f, entries>>
     \/ At("loadChecksum") /\ f' = HashStart(f, CountOffset) /\ UNCHANGED entries
     \/ /\ At("loadEntries") /\ count > 0
        /\ \E k \in 0..(count - 1) :
             f' = Read(Submitted(f, HeaderSize), k * EntrySize)
        /\ entries' = <<>>
  /\ Loaded(FALSE)
  /\ UNCHANGED <<diskVars, changes, count, after, left>>

-----------------------------------------------------------------------------
(* The entries in memory.                                                  *)

Holds(a) == ok /\ \E k \in DOMAIN entries : entries[k].account = a
PositionOf(a) == SelectInSeq(entries, LAMBDA e : e.account = a)

Changed(es) ==
  /\ entries' = es
  /\ changes' = TRUE
  /\ UNCHANGED <<diskVars, f, ok, count, callVars>>

AppendEntry_NoLimit(a, s) ==
  /\ At("idle")
  /\ ~Holds(a)
  /\ Changed(Append(entries, EntryOf(a, s)))

\* ok() is not asked: without it no entry is found, and the new one is taken.  The
\* limit (2^32 - 1) is one of the entries in memory, to which a load adds more.
AppendEntry(a, s) ==
  /\ At("idle")
  /\ ~Holds(a)
  /\ Len(entries) < MaxEntries
  /\ Changed(Append(entries, EntryOf(a, s)))

Modify(a, e) ==
  /\ At("idle") /\ Holds(a)
  /\ e # entries[PositionOf(a)]
  /\ Changed(ReplaceAt(entries, PositionOf(a), e))

\* Nobody asks whether the new name is taken.
ModifyName(a, new) ==
  At("idle") /\ Holds(a)
    /\ Modify(a, [entries[PositionOf(a)] EXCEPT !.account = new])

ModifyPassword(a, new) ==
  At("idle") /\ Holds(a)
    /\ Modify(a, [entries[PositionOf(a)] EXCEPT !.secret = new])

\* modify_entry_arc() draws a new code, and never finds that nothing changed.
ModifyArc(a, new) ==
  /\ At("idle") /\ Holds(a)
  /\ Changed(ReplaceAt(entries, PositionOf(a),
                       [entries[PositionOf(a)] EXCEPT !.secret = new]))

EraseEntry(a) ==
  /\ At("idle") /\ Holds(a)
  /\ Changed(RemoveAt(entries, PositionOf(a)))

EraseAll ==
  /\ At("idle") /\ ok /\ entries # <<>>
  /\ Changed(<<>>)

-----------------------------------------------------------------------------
(* flush(), _Flush_buffers() and the destructor.                           *)

FlushReturns ==
  /\ pc' = after
  /\ left' = <<>>

BeginFlush(return) ==
  /\ At("idle")
  /\ IF ok /\ changes
       THEN pc' = "resize" /\ left' = entries
       ELSE pc' = return /\ UNCHANGED left
  /\ after' = return
  /\ UNCHANGED <<diskVars, f, dataVars, count>>

Flush == BeginFlush("idle")
Destroy == BeginFlush("ending")

Destroyed ==
  /\ At("ending")
  /\ Gone
  /\ UNCHANGED diskVars

FlushResize_InPlace ==
  /\ At("resize")
  /\ f' = Submitted(f, CountOffset)
  /\ pc' = "writeCount"
  /\ UNCHANGED <<diskVars, dataVars, count, after, left>>

FlushResize ==
  /\ At("resize")
  /\ f' = Resized(f, CountOffset)
  /\ body' = <<>>
  /\ pc' = "writeCount"
  /\ UNCHANGED <<head, sum, dataVars, count, after, left>>

FlushCount ==
  /\ At("writeCount")
  /\ f' = Write(f, 4)
  /\ body' = Append(body, CountOf(Uint32(Len(entries))))
  /\ pc' = "writeEntries"
  /\ UNCHANGED <<head, sum, dataVars, count, after, left>>

FlushEntry ==
  /\ At("writeEntries") /\ left # <<>>
  /\ f' = Write(f, EntrySize)
  /\ body' = Append(body, Head(left))
  /\ left' = Tail(left)
  /\ UNCHANGED <<head, sum, dataVars, count, pc, after>>

\* The checksum: computed here, written over the old one after a seek.
FlushChecksum ==
  /\ At("writeEntries") /\ left = <<>>
  /\ f' = Write(Submitted(HashEnd(f, CountOffset), 8), 32)
  /\ sum' = HashedData(f)
  /\ changes' = FALSE
  /\ FlushReturns
  /\ UNCHANGED <<head, body, entries, ok, count, after>>

\* A system call fails: resize, a read of blake3_file(), or a write, which may
\* leave a part behind.  The changes stay to be saved.
FlushFails_Forgets ==
  /\ OsFails
  /\ pc \in {"resize", "writeCount", "writeEntries"}
  /\ FlushReturns
  /\ changes' = FALSE
  /\ UNCHANGED <<diskVars, f, entries, ok, count, after>>

FlushFails ==
  /\ OsFails
  /\ \/ /\ At("resize")
        /\ UNCHANGED <<diskVars, f>>
     \/ /\ At("writeCount") \/ (At("writeEntries") /\ left # <<>>)
        /\ \/ UNCHANGED <<f, body>>
           \/ f' = OsWrite(f, 1) /\ body' = Append(body, Torn)
        /\ UNCHANGED <<head, sum>>
     \/ /\ At("writeEntries") /\ left = <<>>
        /\ \/ f' = HashStart(f, CountOffset) /\ UNCHANGED sum
           \/ f' = Submitted(HashEnd(f, CountOffset), 8) /\ UNCHANGED sum
           \/ f' = OsWrite(Submitted(HashEnd(f, CountOffset), 8), 1) /\ sum' = <<Torn>>
        /\ UNCHANGED <<head, body>>
  /\ FlushReturns
  /\ UNCHANGED <<dataVars, count, after>>

\* The process ends.
Crash ==
  /\ Crashes
  /\ pc # "gone"
  /\ Gone
  /\ UNCHANGED diskVars

Load == LoadHeader \/ LoadChecksum \/ LoadEntries \/ LoadFails

Edit ==
  \/ \E a \in Accounts, s \in Secrets :
       AppendEntry(a, s) \/ ModifyPassword(a, s) \/ ModifyArc(a, s)
  \/ \E a, b \in Accounts : ModifyName(a, b)
  \/ \E a \in Accounts : EraseEntry(a)
  \/ EraseAll

Save ==
  \/ FlushResize \/ FlushCount \/ FlushEntry \/ FlushChecksum \/ FlushFails

Next ==
  \/ MakeStorage \/ MakeHeader \/ MakeHeaderFails
  \/ Construct \/ Refresh \/ Load
  \/ Edit
  \/ Flush \/ Destroy \/ Destroyed \/ Save
  \/ Crash

Spec == Init /\ [][Next]_vars

-----------------------------------------------------------------------------
Chunk == {Torn} \cup [count : 0..MaxEntries] \cup Entry

TypeOK ==
  /\ head \in BOOLEAN
  /\ body \in Seq(Chunk) /\ sum \in Seq(Chunk)
  /\ f \in [pos : Nat, size : Nat, osPos : Nat, real : Nat]
  /\ entries \in Seq(Entry) /\ Len(entries) <= 2 * MaxEntries
  /\ ok \in BOOLEAN /\ changes \in BOOLEAN
  /\ count \in 0..MaxEntries
  /\ pc \in {"gone", "make", "loadHeader", "loadChecksum", "loadEntries",
             "idle", "resize", "writeCount", "writeEntries", "ending"}
  /\ after \in {"idle", "ending"}
  /\ left \in Seq(Entry)

\* An object without changes holds what the file holds: no failure of a flush or
\* of a load, and no order of calls, makes it forget that something is unsaved.  What
\* it holds of a file with more entries than are counted is the front.
CleanMeansSaved ==
  At("idle") /\ ok /\ ~changes =>
    \/ body = Contents(entries)
    \/ Len(Tail(body)) > MaxEntries /\ entries = Counted(Tail(body))

\* The bytes of a count and entries.
SizeOf(chunks) ==
  IF chunks = <<>> THEN 0 ELSE 4 + (Len(chunks) - 1) * EntrySize

\* While a flush writes, the file pointer is at the end of the file, whatever
\* tell() says, and the file has nothing beyond what the flush wrote.
WritesAtEnd ==
  pc \in {"writeCount", "writeEntries"} =>
    f.osPos = f.real /\ f.real = CountOffset + SizeOf(body)

-----------------------------------------------------------------------------
(* What the storage promises.                                              *)

\* The version a load would find: the entries under a checksum that is theirs.
Durable ==
  IF head /\ sum = body /\ body # <<>> /\ body[1] # Torn
    THEN {Counted(Tail(body))} ELSE {}

Plain(e, s) == e
FewEntries(es) == Len(es) < 2

Abstract == INSTANCE Store WITH
  Sealed <- Plain, Fragile <- FewEntries, Kept <- Counted,
  durable <- Durable, open <- pc \notin {"gone", "make"}, memory <- entries,
  seal <- "none", loaded <- ok, dirty <- changes,
  saving <- pc \in {"writeCount", "writeEntries"}

\* Whatever fails, and wherever the process ends, the file holds one whole version
\* or nothing: a load gives that version and never half of one, only a save of a
\* loaded storage with changes touches it, a save that succeeds puts all the
\* entries there if there are two or more, and not more than are counted, and the
\* changes are unsaved till then.
Promise == Abstract!Spec

-----------------------------------------------------------------------------
(* What a comment of the code says and the code does not do.               *)

\* sudb.hpp:142, of flush(): "saves the changes".
SavesTheChanges == At("idle") /\ ok /\ ~changes => sum = body
=============================================================================
