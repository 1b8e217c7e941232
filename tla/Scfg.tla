-------------------------------- MODULE Scfg --------------------------------
(***************************************************************************)
(* Class scfg_file (extensions/scfg.cpp): a storage of settings, each of   *)
(* them encrypted with the AES-256 GCM key and the initialization vector of*)
(* the object (_Mysec).  It is loaded, edited and flushed as an sudb_file  *)
(* is (module Sudb), and the file has the same header; but an entry is     *)
(* 2 bytes with the length of its cipher, 8 bytes with the hash of its id, *)
(* and the cipher, so that entries have different sizes and a load needs   *)
(* the secret of the last flush.                                           *)
(*                                                                         *)
(* The file is head, sum and body as in Sudb.  A hash stands for what was  *)
(* hashed, a cipher for its plain text and its secret.  Decrypting anything*)
(* but a whole cipher with its own secret fails.                           *)
(*                                                                         *)
(* A definition named X_Y is X with the fault Y.                           *)
(***************************************************************************)
EXTENDS HashFile, Sequences, SequencesExt

CONSTANTS
  Ids,         \* entry ids (their hashes)
  Values,      \* texts, as [bytes |-> their size in UTF-8,
               \*            counted |-> what count_utf16_bytes() says of it]
  Keys, Ivs,   \* AES keys and initialization vectors
  LengthLimit, \* values of the 2-byte length of a cipher: 2^16 in the code
  MaxEntries,  \* the largest number of entries that is counted
  OsFails,     \* whether a system call on the file may fail
  Crashes      \* whether the process may end in the middle

\* count_utf16_bytes() counts 3 bytes for each half of a surrogate pair, which
\* is 4 bytes of UTF-8.
ASSUME ScfgAssumption ==
  /\ Values \subseteq [bytes : Nat, counted : Nat]
  /\ \A v \in Values : v.bytes <= v.counted /\ (v.bytes = 0 => v.counted = 0)
  /\ LengthLimit \in Nat /\ LengthLimit > 16
  /\ MaxEntries \in Nat
  /\ OsFails \in BOOLEAN
  /\ Crashes \in BOOLEAN

VARIABLES
  head, sum, body,   \* the file
  f,                 \* _Myfile
  entries,           \* _Myentries
  sec,               \* _Mysec
  ok, changes,       \* _Myok, _Mychanges
  count,             \* _Myheader._Mydata._Count
  pc,                \* the call's place; "gone" without an object
  after,             \* where flush() returns to: "idle", or "ending" in the
                     \* destructor
  left               \* the entries a flush has yet to write

diskVars == <<head, sum, body>>
dataVars == <<entries, sec, ok, changes>>
callVars == <<pc, after, left>>
vars == <<diskVars, f, dataVars, count, callVars>>

HeaderSize == 44
CountOffset == 40
TagSize == 16

Secret == [key : Keys, iv : Ivs]
Entry == [id : Ids, value : Values]
EntryOf(i, v) == [id |-> i, value |-> v]

\* What is in the file after the checksum.
Torn == [torn |-> TRUE]
CountOf(n) == [count |-> n]
Encrypted(e, s) == [entry |-> e, sec |-> s]

\* The count is cut to its four bytes: of more than MaxEntries entries it names a
\* part, the front.
Uint32(n) == n % (MaxEntries + 1)
Contents(es, s) ==
  <<CountOf(Uint32(Len(es)))>> \o [k \in DOMAIN es |-> Encrypted(es[k], s)]
Counted(es) == SubSeq(es, 1, Uint32(Len(es)))

CipherSize(v) == v.counted + TagSize
EntrySize(v) == 10 + CipherSize(v)
StoredLength(v) == CipherSize(v) % LengthLimit

\* The storage as make_storage() leaves it; no object yet.
Init ==
  /\ head = TRUE /\ body = <<CountOf(0)>> /\ sum = <<CountOf(0)>>
  /\ f = OpenedFile(HeaderSize)
  /\ entries = <<>> /\ ok = FALSE /\ changes = FALSE /\ count = 0
  /\ sec \in Secret
  /\ pc = "gone" /\ after = "idle" /\ left = <<>>

At(label) == pc = label

\* Once the object is gone so are its members; sec is then whatever the next
\* constructor is not going to look at.
Gone ==
  /\ pc' = "gone" /\ after' = "idle" /\ left' = <<>>
  /\ entries' = <<>> /\ ok' = FALSE /\ changes' = FALSE /\ count' = 0
  /\ UNCHANGED sec
  /\ f' = OpenedFile(f.real)

-----------------------------------------------------------------------------
(* make_storage(), of a storage nobody has open.                           *)

\* clear()
MakeStorage ==
  /\ At("gone")
  /\ pc' = "make"
  /\ head' = FALSE /\ sum' = <<Torn>> /\ body' = <<>>
  /\ f' = Resized(f, 0)
  /\ UNCHANGED <<dataVars, count, after, left>>

MakeHeader ==
  /\ At("make")
  /\ head' = TRUE /\ sum' = <<CountOf(0)>> /\ body' = <<CountOf(0)>>
  /\ f' = OpenedFile(HeaderSize)
  /\ pc' = "gone"
  /\ UNCHANGED <<dataVars, count, after, left>>

MakeHeaderFails ==
  /\ At("make") /\ OsFails
  /\ pc' = "gone"
  /\ \E part \in 0..1 : f' = OpenedFile(part)
  /\ UNCHANGED <<diskVars, dataVars, count, after, left>>

-----------------------------------------------------------------------------
(* _Load_file(), by the constructor and by refresh(), which goes on from   *)
(* the position it finds.                                                  *)

Construct(s) ==
  /\ At("gone")
  /\ pc' = "loadHeader"
  /\ sec' = s
  /\ f' = OpenedFile(f.real)
  /\ UNCHANGED <<diskVars, entries, ok, changes, count, after, left>>

Refresh ==
  /\ At("idle")
  /\ pc' = "loadHeader"
  /\ UNCHANGED <<diskVars, f, dataVars, count, after, left>>

Loaded(answer) == ok' = answer /\ pc' = "idle"

\* 44 bytes from the beginning of a storage are a header; from anywhere else
\* they are not.
LoadHeader ==
  /\ At("loadHeader")
  /\ f' = Read(f, HeaderSize)
  /\ IF BytesRead(f, HeaderSize) = HeaderSize /\ f.osPos = 0 /\ head
       THEN count' = body[1].count /\ pc' = "loadChecksum" /\ UNCHANGED ok
       ELSE Loaded(FALSE) /\ UNCHANGED count
  /\ UNCHANGED <<diskVars, entries, sec, changes, after, left>>

\* What blake3_file() hashes.
HashedData(g) ==
  IF HashStart(g, CountOffset).osPos = CountOffset THEN body ELSE <<>>

LoadChecksum ==
  /\ At("loadChecksum")
  /\ f' = HashEnd(f, CountOffset)
  /\ IF HashedData(f) = sum
       THEN pc' = "loadEntries" /\ UNCHANGED ok
       ELSE Loaded(FALSE)
  /\ UNCHANGED <<diskVars, entries, sec, changes, count, after, left>>

\* The loader takes an entry whose stored length is that of the cipher, whose
\* cipher ends with its tag, whose plain text is not empty, and whose secret is
\* the object's.
Loadable(v) ==
  /\ StoredLength(v) = CipherSize(v)
  /\ v.counted = v.bytes
  /\ v.bytes > 0

IsEntry(c) == "entry" \in DOMAIN c
Decrypts(c, s) == IsEntry(c) /\ c.sec = s /\ Loadable(c.entry.value)

\* decrypt_symmetric() makes a string of the stored length less 16: below 16
\* that is more than a string can have, and the exception meets a noexcept.
Overruns(c) == IsEntry(c) /\ StoredLength(c.entry.value) \in 1..(TagSize - 1)

ChunkSize(c) ==
  IF IsEntry(c) THEN EntrySize(c.entry.value)
  ELSE IF c = Torn THEN 1 ELSE 4

\* The sum of the first n numbers of a sequence.
SumUpTo(sizes, n) ==
  LET upTo[k \in 0..Len(sizes)] ==
        IF k = 0 THEN 0 ELSE upTo[k - 1] + sizes[k]
  IN  upTo[n]

\* The bytes of the first n chunks, and of the first n entries once encrypted.
BytesUpTo(chunks, n) == SumUpTo([k \in DOMAIN chunks |-> ChunkSize(chunks[k])], n)
EntryBytesUpTo(es, n) == SumUpTo([k \in DOMAIN es |-> EntrySize(es[k].value)], n)

OnDisk == SubSeq(body, 2, count + 1)
BadEntry == SelectInSeq(OnDisk, LAMBDA c : ~Decrypts(c, sec))  \* 0: none
LoadedUpTo(k) == Read(Submitted(f, HeaderSize), BytesUpTo(OnDisk, k))

\* The entries are appended to those that are there.
LoadEntries_AnyKey ==
  /\ At("loadEntries")
  /\ entries' = entries \o [k \in DOMAIN OnDisk |-> OnDisk[k].entry]
  /\ f' = LoadedUpTo(count)
  /\ Loaded(TRUE)
  /\ UNCHANGED <<diskVars, sec, changes, count, after, left>>

LoadEntries ==
  /\ At("loadEntries")
  /\ BadEntry = 0 /\ Len(body) > count
  /\ entries' = entries \o [k \in DOMAIN OnDisk |-> OnDisk[k].entry]
  /\ f' = IF count = 0 THEN f ELSE LoadedUpTo(count)
  /\ Loaded(TRUE)
  /\ UNCHANGED <<diskVars, sec, changes, count, after, left>>

\* One entry is missing or does not decrypt, and all of them go.
LoadMeetsBad ==
  /\ At("loadEntries")
  /\ BadEntry # 0 \/ Len(body) <= count
  /\ BadEntry # 0 => ~Overruns(OnDisk[BadEntry])
  /\ entries' = <<>>
  /\ f' = LoadedUpTo(IF BadEntry # 0 THEN BadEntry ELSE Len(OnDisk))
  /\ Loaded(FALSE)
  /\ UNCHANGED <<diskVars, sec, changes, count, after, left>>

LoadTerminates ==
  /\ At("loadEntries")
  /\ BadEntry # 0 /\ Overruns(OnDisk[BadEntry])
  /\ Gone
  /\ UNCHANGED diskVars

\* A read fails at one of the three places; at the last one the entries go.
LoadFails ==
  /\ OsFails
  /\ \/ At("loadHeader") /\ UNCHANGED <<f, entries>>
     \/ At("loadChecksum") /\ f' = HashStart(f, CountOffset) /\ UNCHANGED entries
     \/ /\ At("loadEntries") /\ count > 0
        /\ \E k \in 0..(count - 1) :
             (BadEntry # 0 => k < BadEntry) /\ f' = LoadedUpTo(k)
        /\ entries' = <<>>
  /\ Loaded(FALSE)
  /\ UNCHANGED <<diskVars, sec, changes, count, after, left>>

-----------------------------------------------------------------------------
(* The secret and the entries in memory.                                   *)

\* Without ok() the secret is taken, and nothing is to be saved.
SetSecret(s) ==
  /\ At("idle")
  /\ sec' = s
  /\ changes' = (changes \/ ok)
  /\ UNCHANGED <<diskVars, f, entries, ok, count, callVars>>

SetKey_NoMark(k) ==
  /\ At("idle")
  /\ sec' = [sec EXCEPT !.key = k]
  /\ UNCHANGED <<diskVars, f, entries, ok, changes, count, callVars>>

SetKey(k) == SetSecret([sec EXCEPT !.key = k])
SetIv(i) == SetSecret([sec EXCEPT !.iv = i])

Holds(i) == ok /\ \E k \in DOMAIN entries : entries[k].id = i
PositionOf(i) == SelectInSeq(entries, LAMBDA e : e.id = i)

Changed(es) ==
  /\ entries' = es
  /\ changes' = TRUE
  /\ UNCHANGED <<diskVars, f, sec, ok, count, callVars>>

AppendEntry_NoLimit(i, v) ==
  /\ At("idle")
  /\ ~Holds(i)
  /\ Changed(Append(entries, EntryOf(i, v)))

\* ok() is not asked: without it no entry is found, and the new one is taken.  The
\* limit (2^32 - 1) is one of the entries in memory, to which a load adds more.
AppendEntry(i, v) ==
  /\ At("idle")
  /\ ~Holds(i)
  /\ Len(entries) < MaxEntries
  /\ Changed(Append(entries, EntryOf(i, v)))

Modify(i, e) ==
  /\ At("idle") /\ Holds(i)
  /\ e # entries[PositionOf(i)]
  /\ Changed(ReplaceAt(entries, PositionOf(i), e))

\* modify_entry() and modify_entry_id(); nobody asks whether the id is taken.
ModifyValue(i, new) ==
  At("idle") /\ Holds(i)
    /\ Modify(i, [entries[PositionOf(i)] EXCEPT !.value = new])

ModifyId(i, new) ==
  At("idle") /\ Holds(i)
    /\ Modify(i, [entries[PositionOf(i)] EXCEPT !.id = new])

EraseEntry(i) ==
  /\ At("idle") /\ Holds(i)
  /\ Changed(RemoveAt(entries, PositionOf(i)))

EraseAll ==
  /\ At("idle") /\ ok /\ entries # <<>>
  /\ Changed(<<>>)

-----------------------------------------------------------------------------
(* flush(), _Flush_buffers() and the destructor.                           *)

FlushReturns ==
  /\ pc' = after
  /\ left' = <<>>

BeginFlush(return) ==
  /\ At("idle")
  /\ IF ok /\ changes
       THEN pc' = "resize" /\ left' = entries
       ELSE pc' = return /\ UNCHANGED left
  /\ after' = return
  /\ UNCHANGED <<diskVars, f, dataVars, count>>

Flush == BeginFlush("idle")
Destroy == BeginFlush("ending")

Destroyed ==
  /\ At("ending")
  /\ Gone
  /\ UNCHANGED diskVars

FlushResize_InPlace ==
  /\ At("resize")
  /\ f' = Submitted(f, CountOffset)
  /\ pc' = "writeCount"
  /\ UNCHANGED <<diskVars, dataVars, count, after, left>>

FlushResize ==
  /\ At("resize")
  /\ f' = Resized(f, CountOffset)
  /\ body' = <<>>
  /\ pc' = "writeCount"
  /\ UNCHANGED <<head, sum, dataVars, count, after, left>>

FlushCount ==
  /\ At("writeCount")
  /\ f' = Write(f, 4)
  /\ body' = Append(body, CountOf(Uint32(Len(entries))))
  /\ pc' = "writeEntries"
  /\ UNCHANGED <<head, sum, dataVars, count, after, left>>

FlushEntry ==
  /\ At("writeEntries") /\ left # <<>>
  /\ f' = Write(f, EntrySize(Head(left).value))
  /\ body' = Append(body, Encrypted(Head(left), sec))
  /\ left' = Tail(left)
  /\ UNCHANGED <<head, sum, dataVars, count, pc, after>>

\* The checksum: computed here, written over the old one after a seek.
FlushChecksum ==
  /\ At("writeEntries") /\ left = <<>>
  /\ f' = Write(Submitted(HashEnd(f, CountOffset), 8), 32)
  /\ sum' = HashedData(f)
  /\ changes' = FALSE
  /\ FlushReturns
  /\ UNCHANGED <<head, body, entries, sec, ok, count, after>>

\* A system call or an encryption fails; a write may leave a part behind.  The
\* changes stay to be saved.
FlushFails ==
  /\ OsFails
  /\ \/ /\ At("resize")
        /\ UNCHANGED <<diskVars, f>>
     \/ /\ At("writeCount") \/ (At("writeEntries") /\ left # <<>>)
        /\ \/ UNCHANGED <<f, body>>
           \/ f' = OsWrite(f, 1) /\ body' = Append(body, Torn)
        /\ UNCHANGED <<head, sum>>
     \/ /\ At("writeEntries") /\ left = <<>>
        /\ \/ f' = HashStart(f, CountOffset) /\ UNCHANGED sum
           \/ f' = Submitted(HashEnd(f, CountOffset), 8) /\ UNCHANGED sum
           \/ /\ f' = OsWrite(Submitted(HashEnd(f, CountOffset), 8), 1)
              /\ sum' = <<Torn>>
        /\ UNCHANGED <<head, body>>
  /\ FlushReturns
  /\ UNCHANGED <<dataVars, count, after>>

\* The process ends.
Crash ==
  /\ Crashes
  /\ pc # "gone"
  /\ Gone
  /\ UNCHANGED diskVars

Load ==
  \/ LoadHeader \/ LoadChecksum
  \/ LoadEntries \/ LoadMeetsBad \/ LoadTerminates
  \/ LoadFails

Edit ==
  \/ \E k \in Keys : SetKey(k)
  \/ \E i \in Ivs : SetIv(i)
  \/ \E i \in Ids, v \in Values : AppendEntry(i, v) \/ ModifyValue(i, v)
  \/ \E i, j \in Ids : ModifyId(i, j)
  \/ \E i \in Ids : EraseEntry(i)
  \/ EraseAll

Save ==
  \/ FlushResize \/ FlushCount \/ FlushEntry \/ FlushChecksum \/ FlushFails

Next ==
  \/ MakeStorage \/ MakeHeader \/ MakeHeaderFails
  \/ \E s \in Secret : Construct(s)
  \/ Refresh \/ Load
  \/ Edit
  \/ Flush \/ Destroy \/ Destroyed \/ Save
  \/ Crash

Spec == Init /\ [][Next]_vars

-----------------------------------------------------------------------------
Chunk == {Torn} \cup [count : 0..MaxEntries] \cup [entry : Entry, sec : Secret]

TypeOK ==
  /\ head \in BOOLEAN
  /\ body \in Seq(Chunk) /\ sum \in Seq(Chunk)
  /\ f \in [pos : Nat, size : Nat, osPos : Nat, real : Nat]
  /\ entries \in Seq(Entry) /\ Len(entries) <= 2 * MaxEntries
  /\ sec \in Secret
  /\ ok \in BOOLEAN /\ changes \in BOOLEAN
  /\ count \in 0..MaxEntries
  /\ pc \in {"gone", "make", "loadHeader", "loadChecksum", "loadEntries",
             "idle", "resize", "writeCount", "writeEntries", "ending"}
  /\ after \in {"idle", "ending"}
  /\ left \in Seq(Entry)

Clean == At("idle") /\ ok /\ ~changes

\* An object without changes holds what the file holds, under the secret that
\* the file is encrypted with: no change of key, failure or order of calls makes
\* it forget that something is unsaved.  What it holds of a file with more entries
\* than are counted is the front.
CleanMeansSaved ==
  Clean =>
    \/ body = Contents(entries, sec)
    \/ /\ Len(Tail(body)) > MaxEntries
       /\ Counted(Tail(body)) = Tail(Contents(entries, sec))

\* While a flush writes, the file pointer is at the end of the file, whatever
\* tell() says, and the file has nothing beyond what the flush wrote.
WritesAtEnd ==
  pc \in {"writeCount", "writeEntries"} =>
    f.osPos = f.real /\ f.real = CountOffset + BytesUpTo(body, Len(body))

-----------------------------------------------------------------------------
(* What the storage promises.                                              *)

\* The version a load would find: the entries under a checksum that is theirs, as many
\* as the count says, when the loader can take every value.
Durable ==
  IF /\ head /\ sum = body
     /\ body # <<>> /\ body[1] # Torn
     /\ \A k \in DOMAIN Counted(Tail(body)) : Loadable(Tail(body)[k].entry.value)
    THEN {Counted(Tail(body))} ELSE {}

\* Once an entry is no longer than what was written since the count, tell() moves
\* on from 40, and the checksum is right.
Catches(es) ==
  \E k \in 2..Len(es) : EntrySize(es[k].value) <= 4 + EntryBytesUpTo(es, k - 1)

\* The checksum is wrong, or a value cannot be read back: it is empty, or has a
\* surrogate pair, or its cipher is too long for the length field.
Unsafe(es) == ~Catches(es) \/ \E k \in DOMAIN es : ~Loadable(es[k].value)

Abstract == INSTANCE Store WITH
  Sealed <- Encrypted, Fragile <- Unsafe, Kept <- Counted,
  durable <- Durable, open <- pc \notin {"gone", "make"}, memory <- entries,
  seal <- sec, loaded <- ok, dirty <- changes,
  saving <- pc \in {"writeCount", "writeEntries"}

\* Whatever fails, and wherever the process ends, the file holds one whole version
\* under one secret, or nothing: a load gives that version and needs that secret,
\* a new secret counts as a change until everything is saved under it, and a save
\* puts all the entries there, readable, but for those two faults and for entries that
\* are more than can be counted.
Promise == Abstract!Spec
=============================================================================
