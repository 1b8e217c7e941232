# Secure-Data-Storage: a verification project

TLA+ models of sdsdll, the library of Secure-Data-Storage
(`src/sdsdll/sdsdll/src/`), TLC configurations that check them on small
instances, and TLAPS proofs of what holds for every instance. Line numbers are
those of the modelled commit; paths are below `src/sdsdll/sdsdll/src/`.

## 1. The system

sdsdll is a Windows library: threads and a thread pool, files, two storages
built on files (accounts and configuration), and wrappers of cryptographic
libraries and of the operating system.

| component | state | operations | interacts with |
|---|---|---|---|
| `thread` (system/execution/thread.cpp) | atomic `_State`, task queue, handle; the kernel's suspend count | submit_task, suspend, resume, terminate, terminate_and_wait, destruction; the worker's loop | a worker of its own, the kernel |
| `shared_queue`, `shared_lock` | a list and an SRW lock | empty, full, push, pop, clear | caller and worker of a thread |
| `thread_pool`, `_Thread_list` | doubly linked list of threads, `_Mystate` | increase_threads, decrease_threads, submit_task, suspend, resume, close | the threads, whose states change while it walks |
| `file`, `_Filepos` (filesystem/file.cpp) | handle, cached position, cached size | open, close, seek, resize, clear, read, write, get, put | the system's file pointer and size |
| `sudb_file` (extensions/sudb.cpp) | header, entries, `_Myok`, `_Mychanges` | make_storage, load, refresh, append, modify, erase, flush, destruction | `file`, `blake3_file` |
| `scfg_file` (extensions/scfg.cpp) | the same, with encrypted entries of any length | the same, and set_key, set_iv | `file`, `blake3_file`, a cipher |
| `process`, `_Handle_wrapper` (system/execution/process.cpp, system/handle) | handle, number, name, privileges | create, create_elevated, open, close, terminate, move, destruction | the system's table of processes and handles, which other programs change |
| `path` (filesystem/path.cpp) | a string | assignment, append, fix, replacement and removal of parts, questions, current_path, make_path | the system's current directory |
| `_Sbo_buffer` (core/optimization/sbo.hpp) | size, a union of an array and a pointer | construction, _Resize, _Release, _Get, destruction | the allocator; temporary buffers of paths and ciphers |
| service, sync_event, registry, power, tpm, directory, status, shortcut | one handle each, or nothing | one system call each | the operating system |
| ciphers, hashes, passwords, signatures, random, iv, key, salt, arc | a context of the library behind | set key, set iv, encrypt, decrypt; append, complete | Botan, OpenSSL, BLAKE3, xxHash |
| encoding, time_zone | none | conversions, comparisons | |
| allocator, ebco, bytes, traits, singleton | none, or an array | allocation, copies | |

### What is hard

* A thread and its caller share an atomic, a queue and the kernel's suspend
  count, with no lock around the three. SuspendThread stops the worker anywhere.
* The pool walks its list by thread states that change during the walk, and
  frees nodes on the way.
* A file believes in a position and a size that are caches, refreshed at some
  calls only; the storages are built on where reads and writes really happen.
* A storage is rewritten in place: a failing call or the end of the process
  leaves a part of it.
* The small buffer keeps elements and a pointer in the same memory, and decides by
  the size alone which of them is there.
* A process is found by name, opened by number and asked by name again, while
  processes end and the system gives numbers and handles to others.
* A path is a string that each method takes apart anew; slashes of two kinds, dots
  in any place and terminators are all legal in it.

`PROJECT.json` lists every such place under `hazards`, with the properties that
watch it, or the reason why none does.

## 2. The modules

A name `X_Y` is `X` with the fault `Y`. Such definitions are used by nothing in
the models; they confirm that a property notices that fault.

### TaskRunner: what a worker promises

The abstract specification: tasks are accepted into a bounded FIFO, started one
at a time, finished, or thrown away all together. A task is the ordinal of its
submission. `Ordered` (order of acceptance) and `Conservation` (every accepted
task in exactly one place) follow from it.

### Thread: `thread`, its worker and the kernel

`state`, `queue`, `handle` are the members; `wpc`, `current` the worker in
`_Thread_task`; `suspends` the kernel's count; `pc`, `call`, `seen` the caller.
Every load and store of `_State`, every lock section and every kernel call is an
action, named after the function and the step (`SuspendLoad`, `SuspendSet`,
`SuspendOs`, ...). The worker's lock sections have two steps, because
SuspendThread can stop it inside; the caller's have one, since nothing stops the
caller. The class is not made for two callers, so there is one. Left out: event
callbacks (they run on the caller and touch none of this state), thread ids.
The relaxed memory order matters little: the only data behind the flag are in a
queue with a lock, and the model already allows every order of the two sides'
steps.

### ThreadPool: `thread_pool` and `_Thread_list`

The nodes with `_Next` and `_Prev`, the three fields of the list, the pool's
state, and each thread as the pool sees it: state and number of tasks. The walks
go node by node, with the workers' steps in between. The second pass of shrinking takes
all that is left off the size before its loop (thread_pool.cpp:142), so the size is short
of the nodes while it unlinks and waits; `Linked` is the size with those nodes, and the
properties count nodes (`live`) where the size would mislead. `size_t` wraps at
`SizeMax`. A null pointer that is gone through makes `pc = "crashed"`.

### Store: what a storage promises

The abstract specification of both storages: the file holds one version, whole,
or nothing that can be loaded; an object saves all its entries at once over the
version before; only a save, its failure or the making of a new storage costs a
version. `Sealed` is an entry under the secret it is saved with; a load answers
the entries of a version under the object's own secret, all of them and nothing
else. `Fragile` names the entries that a save may lose although it reports success, and
`Kept` those of the saved entries that are counted, which are all, or a part of too many.

### FilePosition, File: `_Filepos` and `file`

A record of cached position and size, file pointer and real size; every
operation of the class as an operator. `File` makes them a state machine with the
handle's three values, failing calls and partial writes. `W` is the number of
values of `uintmax_t`. Overloads that only convert their arguments are one action.

### Sudb: `sudb_file`

The file is a sequence of chunks (count, entries, a torn one) with its checksum,
at the positions of `FilePosition`: the model reuses the very operators `File` is
made of, so that the lag of `tell()` shows in the storage as it does in the code.
A hash stands for the data it was computed from. One action per system call of a
load or a flush, each of which can fail, and `Crash` between any two. `MaxEntries` stands
for 2^32 - 1, the most that the count of four bytes can hold: `append_entry()` tests it
against the entries in memory (sudb.cpp:734, 779, 824; scfg.cpp:529, 547, 565), a
load adds those of the file to what was appended before it, and a flush writes all of
them under a count cut to 32 bits (`Uint32`; sudb.cpp:287, scfg.cpp:244), so
that the next load finds the front (`Counted`). `Promise` maps the file to the version
that a load would accept (`Durable`), and `Fragile` to the entries with which the
checksum is taken at the wrong place: fewer than two here (`FewEntries`), and in Scfg
those of `Unsafe`.

### HashFile: `blake3_file()`

Seeks only when tell() is not the offset already, then reads chunks to the end.
Both storages use it.

### Scfg: `scfg_file`

The storage of Sudb again, with encrypted entries. A cipher is a term of its
entry and the secret (key and vector) it was made with; a text is its size in
UTF-8 and the size that count_utf16_bytes() gives it, which decides the length of
the cipher, what the 2-byte field keeps of that length, and whether the loader can
take the entry back (`Loadable`). `LoadTerminates` is the exception of
decrypt_symmetric() that meets the noexcept of `_Load_file()`. `LengthLimit` stands
for 2^16. xxHash values are ids; ids do not collide.

### Buffer, SmallBuffer: `_Sbo_buffer`

`Buffer` is an array that keeps its elements when its size changes and is filled up
with zeros. `SmallBuffer` implements it: the array `cells` and the pointer `ptr` lie
on each other (`StorePtr` and `StoreCells` write through one and change the other),
a block of the heap has the bytes it was allocated with (`given`) and the elements there
is room for in them (`heap`), each way through `_Resize()` is an action, and every
allocation can fail. The specialization without an array is `InlineCells = 0`. A request
is any `size_t`, and products wrap around. Two ways out of the promise are in the code
and named in the refinement: see `LeavesTheArray` and `Untested` in section 5. After the
second a block is shorter than the size says; what is read behind it is anything
(`Copies`, `Outside`), and a write behind it changes nothing of the buffer's.

### Path: `path`

A path is a sequence of characters that the methods tell apart. Each question and
each edit is an operator on strings, each method an action, and a path is whatever
any sequence of methods makes of it, so the operators meet strings that nobody would
write into a test. `CurrentPath` has two directories, the one whose length was asked
for and the one that was read; a buffer that cannot be allocated there (path.cpp:526,
untested) is left out. `MaxLength` is a bound of the model, not of the code.

### Process: `process` and its handle

Two objects, and the system they look at: the table of processes in the order of a
snapshot, and what each handle refers to. `open()` has four steps (the number looked
up by name; the handle opened by number; the name looked up again; its privileges
asked), with starts and ends of other processes between them. A number is free again
when its process has ended and no handle refers to it; a value of a handle is free
when it is closed. `raced` remembers that the process ended while `open()` looked
at it, and `overwritten` the handles over which another object was assigned, which stay
open and are nobody's. A null name in `open()` is left out: it is taken for this
process's name, and then copied as a string (process.cpp:261-263).

### Composition

* Refinements, each a `Promise` checked by TLC and proved:
  `Thread` implements `TaskRunner`; `Sudb` and `Scfg` implement `Store`;
  `SmallBuffer` implements `Buffer`.
* `ThreadPool` uses the interface of the thread (state and number of tasks).
* `File`, `Sudb` and `Scfg` are built on the operators of `FilePosition`; both
  storages use `HashFile`.

## 3. The runs

| run | question | bounds |
|---|---|---|
| thread_all | With every method and failing kernel calls: does the thread implement TaskRunner, keep order and tasks, and bound its suspend count? | 4 submissions, queue of 2 |
| thread_waiting | Without terminate(): does the worker ever pop an empty queue or use freed storage? | 3 submissions, queue of 2 |
| thread_returns | Under fairness: do submit, resume and terminate come back? | 3 submissions |
| pool | Is the list well-formed, are walks safe, the shrinking exact, is each task's thread one that waits or the least busy, the suspended pool at rest? | 4 nodes, 4 hardware threads, 2 tasks |
| file_position | Do position and size stay usable through any calls, and do seeks go where they aim? | files up to 5 bytes, offsets -6..6, W = 16 |
| sudb | Through failures, crashes and restarts: does the storage keep the promise of Store, is clean data saved, is the layout kept? | 2 accounts, 2 secrets; 2 entries are counted, 3 reached |
| scfg | The same with entries of two sizes, keys that change and lengths that do not fit. | 2 ids, 2 keys; 2 entries are counted, 3 reached; texts of 4 and 20 bytes, LengthLimit 32 |
| buffer | Through every order of sizes and failing allocations: do elements survive, are new ones zero, is every block freed once with its own size? | elements of 2 bytes, 4 in the object, 2 under the pointer, size_t of 4 bits, sizes 0, 1, 3, 4, 5, 7, 8, 9, 15 |
| path | Of every string that the methods can make: do the parts agree, does fix() leave out doubled slashes and nothing else, is what was replaced found again and what is left of the path known, is a path made in a changing directory whole? | 6 characters (two slashes, dot, colon, a letter, the terminator), length 6, size_t of 6 bits |
| process | While other programs start and end: is a handle owned once, and every open one somebody's unless it was overwritten, does id() name what the handle refers to, is what the object says true? | 2 objects, this process and 2 other numbers, 2 names, 2 handles |
| thread_exit, sudb_saves | A comment of the code against the code: see section 5 | as small as shows it |

Why the bounds are enough. A queue of 2 is full, half full and empty within 4
submissions, and one task can be running, one queued and one being pushed. A list of 4
nodes has a first, a last and inner neighbours on both sides of a node that goes; 3
threads are allowed, so that the off-by-one of the fourth can be seen. A file of 5 bytes
has room for two writes of 2 or 3 bytes, offsets of 6 point past both ends, and 16
values wrap. Two entries are the least for which the position catches up with the file
pointer (with fewer the checksum goes wrong), and allow a duplicate, an erasure and a
torn second entry. More entries than are counted come from a load alone; the constraint
`OneTooMany` follows them as far as one too many, saved as they were loaded or cut at
the front, and a file with that many under an object with none, one or again that many,
which is where the count wraps around. In scfg the two sizes make sequences that let the
position catch up and sequences that do not, and the longer text is beyond the limit of
lengths. The buffer has two sizes inside, the boundary, two on the heap, and three whose
bytes wrap around: to none, to one element, and to nearly all that can be asked for; and
enough elements for the pointer to cover a part of the array. A path of 6 characters has
room for a drive, a slash, a dot and a name with one character to spare, or for two
slashes, two dots and two names. With 2 numbers and 2 handles a value is given away
again as soon as it is free, which is what the handle and the lookup could be misled by;
two objects can hold two handles, or race for one.

Deadlock is checked in the runs of File, Sudb, Scfg, SmallBuffer, Path and Process. A
thread may be left with all its work done and its worker suspended, and a pool ends
where it crashes; there the check is switched off.

Fairness (`Thread!FairSpec`, in thread_returns and thread_exit): weak fairness
of the worker as a whole and of the steps of a call that has begun. The worker is a
kernel thread that is scheduled whenever it is not suspended; tasks are assumed to
end; no call has to begin. thread_returns excludes suspend() and the waiting
terminations: SuspendThread may stop the worker inside a lock section, and the
next call of the caller then waits for the lock for ever.

## 4. What is proved

For every value of the constants allowed by the named assumptions.

* `Thread_proofs`: `TypeCorrect`, `SuspendCount`, `NoFault`, `Refinement`,
  `PromiseKept`, `Order`, `NothingLost`. The suspend count is at most 1 from the
  worker's own parking and 1 from a suspension by the caller, which the state forbids to
  repeat: the invariant ties the count to the state and to both program counters.
  `NoFault` assumes that terminate() is not among the methods; its invariant says that a
  cleared or destroyed queue has no worker any more. `Refinement` maps `queue` to the
  pending tasks and `current` to the running one; its invariant says that between full()
  and push() the queue can only shrink. `PromiseKept` is about `TaskRunner` alone: its
  types, `Ordered` and `Conservation` together are inductive. `Order` and `NothingLost`
  carry that over to the thread through the refinement.
* `File_proofs`: `pos <= size <= real`, `pos <= osPos <= real`, and where they
  are equal, is inductive over every call; type, `NoUnderflow`, `NeverAhead`,
  `InSync` and `SeekExact` follow. The assumption `2 * MaxSize < W` says that
  files are smaller than half of the address space of offsets.
* `SmallBuffer_proofs`: type, `HeapExact` and the refinement of Buffer, for every
  size of elements, of the array in the object (also none, the second specialization)
  and of the part that the pointer covers, and every width of `size_t`. The inductive
  invariant says where there must be zeros: in the object behind the elements
  (`CellsInUse`), and under a pointer in the cells it does not cover (`CellsAside`);
  without the second, coming back from the heap and growing again would show old
  elements. It also says that there is a block exactly when the size asks for one.
  What it says of a block is what its bytes have room for, which is the size unless
  the untested first request was larger than `_Max_size()` (`BlocksFilled`); the
  arithmetic of allocations is in lemmas of its own. `HeapExact` holds in both cases,
  since the sized delete wraps around as the allocation did. `SmallBufferAssumption`
  says that a buffer one element larger than the array can be counted in bytes, and that
  requests are values of `size_t`.

* `ThreadPool_proofs`: type, `ListWellFormed`, `CursorLive`, `LeastLoaded`,
  `DecreaseExact`, `NeverEmptied`, `SuspendedPoolRests` and `WithinHardware`, for any
  number of nodes, threads and tasks. The invariant says that the three fields and all
  links are those of one sequence of nodes without repetitions (`IsList`), as long as the
  size and what the second pass of shrinking has struck off it ahead of its loop
  (`Linked`); unlinking a
  node anywhere, or linking one at the end, is then an operation on that sequence, and
  `ListWellFormed` and the two passes of decrease_threads() (at least one node stays,
  and a cursor never stands on the node that goes) follow. `LeastLoaded` is about both
  walks of a submission: the one by state ends at a thread that waits, which only the
  caller could change, and the one by tasks at the least busy, for which the invariant
  says where that walk is (`Placed`): what it holds is no busier than anything
  behind it was when the call began, and workers only take tasks away. `nodeAt` in the
  model is a recursive function along the links; `list` is that function, and that it
  is the sequence is proved by a least number without the property.
  `PoolAssumption` says that the nodes can be counted by `size_t`.
  `LeavesTheHardwareOne` has the hypothesis `NoWrap`: no request is within
  `HardwareThreads` of the end of `size_t`. Without it the test of
  increase_threads() wraps around and the theorem is false.
* `Sudb_proofs`: type, `CleanMeansSaved`, `WritesAtEnd` and the refinement of `Store`,
  for any accounts and any number that the count can hold, through failing calls,
  partial writes and crashes. Memory holds at most twice that number (the limit in
  memory, and what one load adds), which is all that `TypeOK` can say of it. What is
  inductive is more than the three: what the object knows of the file is behind what is
  (`InOrder`, as in `File_proofs`); a checksum is that of a whole version, of nothing,
  or torn (`SumWhole`), which is why a load that passes the checksum has a right count
  and only entries before it; a file can be loaded from its beginning only, so an object
  that has loaded never loads again, and one that has not has only unsaved entries
  (`Fresh`); and each place of a load and of a flush knows what is read or written and
  where the object believes to be (`HeaderRead`, `Written`). For the refinement, what is
  being written can meet the old checksum only when it already is the whole new version
  (`Rewritten`).
* `Scfg_proofs`: the same four for the storage of settings, for any secrets, texts and
  length limit. Entries have different sizes, so the position of a flush is a sum:
  `SumUpTo` is a recursive function on 0..Len(sizes), and its equation, that there is
  only one such function, and that the sum of a shifted sequence is shifted are
  proved as above, by a least number without the property (`SumFields`, `SumMoves`).
  `Placed` says that tell() stays at 40 only while every entry written is longer than
  the count and all entries before it (`Longer`), the complement of `Catches`. A new
  secret makes everything unsaved, which `CleanMeansSaved` needs, as the file is then
  under another secret than the object's. A version of `Store` is the sequence of
  ciphers; a load succeeds only when all of them decrypt under the object's secret, so
  the plain entries sealed again are the version it read (`PlainFields`). `Sudb_proofs`
  and `Scfg_proofs` share their lemmas about positions in a file by repeating them:
  both modules extend a model whose variables have the same names.
* `Process_proofs`: type, `OneOwner`, `IdOfHandle`, `SaysTheTruth` and
  `NoneForgotten`, for any objects, numbers, handles and names. The system keeps an
  entry of its table exactly while the process runs or a handle refers to it
  (`AllHeld`), so a number that an open handle names is never given away again; that
  is what the second lookup of open() relies on. `Looked` and `FoundAgain` say what each
  of its four steps has found unless the process has ended (`raced`).
  `ProcessAssumption` names 0 as the number and handle of nothing.
* `Path_proofs`: `PartsAddUp`, `FixKeepsMeaning`, `ReplacedIsFound` and `MadeWhole`, for
  any alphabet with the two slashes, the dot, the colon and the terminator, and for any
  length, inputs and directories. The inductive invariant is small (`IInv`: a path is a
  string of characters; that the model's bound on its length is kept is the lemma
  `Bounded`), since each method takes the string apart anew; the work is in the lemmas
  about the questions. All rest on one characterisation: what the searches of
  path.cpp:24 return is the last place of a character of a set, or `Npos` when there is
  none (`LastIn`), and there is only one such number (`LastUnique`). An edit is then
  proved by showing which place is the last in the string it makes (`LastInConcat`).
  `Fixed` is a recursive function on the places of the loop of fix(): that it exists and
  what it has at each place is shown by the least place at which it fails (`Upward`),
  and a run of slashes in the old string is one slash in the new one (`Grows`,
  `TailKept`), so that each character that is kept stands at its rank, and the last
  slash, and with it the file name, stays. Fixing twice, or after make_preferred(),
  takes the same steps (`SameSteps`, `CleanStays`). `PathAssumption` says that there is
  room in `size_t` for two such strings, so that a place is never `Npos`, and that the
  path of the executable is not empty, which path.cpp:541 tests.

Induction over data cannot be taken from the library here, whose induction theorems have
an operator as parameter. Where a recursive function is needed (`nodeAt`, `SumUpTo`,
`Fixed`), the least number without the property takes its place.

Only model-checked: liveness (`CallsReturn`, under fairness, is out of the prover's
reach), and `TerminatesItself` and `SavesTheChanges`, which TLC refutes (section 5).

## 5. Where comments and code disagree

Two have a run in which TLC finds the comment violated.

* thread_exit: "the thread will terminate itself" (thread.cpp:132), but not when
  it parks itself after the only ResumeThread; the caller then waits for ever.
* sudb_saves: flush() "saves the changes" (sudb.hpp:142), but with at most one
  entry tell() is still 40 when blake3_file() is to seek to 40, nothing is hashed,
  and the storage never loads again.

The others are behaviours of the models, and a property that allows them says so.

Threads. submit_task() "notif[ies a] waiting thread" (thread.cpp:180), but a worker
that has read `waiting` and has not yet suspended itself misses it (`ResumeOs`
before the worker's own suspension). terminate() "forces the thread to terminate
itself" (thread.cpp:193), but clears the queue under a worker that is about to pop
(`WorkerNeverFaults` is checked without it).

Files and storages. After a write at the end tell() answers the old position
(`Write` moves it before it refreshes the size; `InSync` says when it is right), which
is what the checksum stumbles over. refresh() of an object that has loaded reads its
header from where the load ended, and fails (`Refresh`, `LoadHeader`). In an scfg_file
the checksum goes wrong for any number of entries, as long as each is longer than all
before it and the count together (`Catches`). A storage with a value whose cipher the
loader cannot take, because it is empty, has a surrogate pair or is 65536 bytes long
or more, is saved and cannot be loaded again (scfg.hpp:147 "saves the changes"): this
is the other part of `Unsafe`, which `Promise` allows to lose a version.
modify_entry_account_name() gives an entry a name that another one has
(`ModifyName`). Entries past the limit come from a load, and a save of them keeps the
front (`Uint32`, `Counted`).

The small buffer. Growing out of the object copies the new number of elements from the
array, which has fewer: the rest is what lies behind it (sbo.hpp:204, `MoveOut`;
`LeavesTheArray`). A first request that goes to the heap is not compared with
`_Max_size()`, as every later one is (sbo.hpp:142-156, 309-318): its bytes wrap around
(allocator.hpp:82), and a size is recorded that the block does not have (`Allocate`;
`Untested`).

Paths. current_path() compares without the terminator (path.cpp:527) and then keeps it in
the string (path.cpp:528), so that for the system a path
made in the current directory ends with the directory (`MadeWhole`). replace_filename()
of a bare name makes it rooted (path.hpp:139, `FilenameReplaced`); remove_filename() of
`C:\a.txt` leaves `C:`; fix() leaves one of the two slashes that a path of a network
begins with (`Kept`); a dot in the name of a directory begins an
extension (path.cpp:254), so that the one of `C:\a.b\c` is `b\c`, and a name without a
dot is not a file name.

Processes. is_elevated() of a process that was created is false whatever it is, and of
one that was opened it is asked of the name again (process.cpp:264); id() keeps the
number after an open() that failed and after a move (process.hpp:172); an assignment
over an open handle leaves the old one open (handle_wrapper.hpp:54), the exception in
`NoneForgotten`, which `overwritten` records.

## 6. Not modelled

Components of `PROJECT.json` with status `not_modelled` say why. In short:

* Single system calls with no state of their own: service, sync_event, registry,
  power, tpm, directory, status, shortcut. What a model could say of them is what the
  system does.
* What third-party libraries compute: ciphers, hashes, signatures, random numbers.
  A storage depends on lengths and on secrets, and those are in the models.
* Encodings, dates and arc: conversions without state. The one whose result matters
  elsewhere, the length of a text in UTF-8, is in `Scfg`.
* Compile-time definitions, precompiled headers, tests and the vendored headers of
  Botan, OpenSSL, ICU, xxHash and GoogleTest. These headers are more than nine tenths
  of the lines of the repository; sdsdll itself has about 17000.
* Of modelled components: event callbacks of threads, suspend() and resume() of a
  process (they change nothing in the object) and a null name in its open(), the
  failed buffer of current_path(), the free functions of file.cpp,
  comparisons of paths.
* Concurrent use of one object by two threads, where the class promises nothing
  (pool, storages, files).

## 7. Plan

Done: threads and their promise, the pool, files, both storages and their promise, the
small buffer and its promise, paths, processes and handles.
Proved: every safety property and action property of the passing runs (section 4).

What could follow: the life cycle of the hash stream and the calendar of time_zone, as
operators against reference definitions.
