------------------------------- MODULE Store --------------------------------
(***************************************************************************)
(* What the storages of sdsdll promise (extensions/sudb.cpp, scfg.cpp): the*)
(* abstract specification that Sudb and Scfg implement.                    *)
(*                                                                         *)
(* The file holds one version of the storage, whole, or nothing that can be*)
(* loaded.  An object has entries in memory that came from a version or    *)
(* from edits, and saves all of them at once, over the version before.     *)
(* While it saves, and after a save that failed or was cut off, the file   *)
(* may hold nothing: there is no second copy.                              *)
(***************************************************************************)
EXTENDS Sequences, Naturals

CONSTANTS
  Entry,         \* what a storage is made of
  Sealed(_, _),  \* an entry as it is in the file, under a seal (a secret)
  Fragile(_),    \* entries that a save may lose although it succeeds
  Kept(_)        \* those of the entries saved that a load finds: all of them, unless
                 \* there are too many to be counted

VARIABLES
  durable,  \* the version in the file: {v}, or {} when nothing can be loaded
  open,     \* whether there is an object
  memory,   \* its entries
  seal,     \* its secret
  loaded,   \* whether it has loaded a version
  dirty,    \* whether it has something to save
  saving    \* whether the file is being rewritten

object == <<open, memory, seal, loaded, dirty, saving>>
vars == <<durable, object>>

Version(es, s) == [k \in DOMAIN es |-> Sealed(es[k], s)]

Init ==
  /\ durable = {<<>>}
  /\ open = FALSE /\ memory = <<>>
  /\ loaded = FALSE /\ dirty = FALSE /\ saving = FALSE

\* make_storage(), in two steps.
Wipe ==
  /\ ~open
  /\ durable' = {}
  /\ UNCHANGED object

Create ==
  /\ ~open
  /\ durable' = {<<>>}
  /\ UNCHANGED object

Open ==
  /\ ~open
  /\ open' = TRUE
  /\ UNCHANGED <<durable, memory, loaded, dirty, saving>>

\* The version is added to what is in memory: to nothing, or to entries that wait
\* to be saved.  It must be sealed as the object expects.
Load ==
  /\ open /\ ~saving /\ ~loaded
  /\ memory = <<>> \/ dirty
  /\ loaded' = TRUE
  /\ \E v \in durable :
       LET new == SubSeq(memory', Len(memory) + 1, Len(memory'))
       IN  memory' = memory \o new /\ Version(new, seal) = v
  /\ UNCHANGED <<durable, open, seal, dirty, saving>>

LoadFails ==
  /\ open /\ ~saving
  /\ loaded' = FALSE
  /\ memory' \in {memory, <<>>}
  /\ UNCHANGED <<durable, open, seal, dirty, saving>>

\* One entry is added, or, of a storage that has been loaded, replaced or erased,
\* or all of them are.
Edit ==
  /\ open /\ ~saving
  /\ \/ \E e \in Entry : memory' = Append(memory, e)
     \/ /\ loaded
        /\ \/ \E k \in DOMAIN memory, e \in Entry :
                memory' = [memory EXCEPT ![k] = e]
           \/ \E k \in DOMAIN memory :
                memory' = SubSeq(memory, 1, k - 1) \o
                          SubSeq(memory, k + 1, Len(memory))
           \/ memory' = <<>>
  /\ dirty' = TRUE
  /\ UNCHANGED <<durable, open, seal, loaded, saving>>

\* Another seal makes everything unsaved, once there is something.
Reseal ==
  /\ open /\ ~saving
  /\ dirty' = (dirty \/ loaded)
  /\ UNCHANGED <<durable, open, memory, loaded, saving>>

\* Only a loaded storage with something to save is saved.
BeginSave ==
  /\ open /\ loaded /\ dirty /\ ~saving
  /\ saving' = TRUE
  /\ durable' = {}
  /\ UNCHANGED <<open, memory, seal, loaded, dirty>>

\* What is being written may already be what the old checksum says.
Rewrite ==
  /\ saving
  /\ durable' \in {{}, {Version(Kept(memory), seal)}}
  /\ UNCHANGED object

Commit ==
  /\ saving
  /\ saving' = FALSE
  /\ dirty' = FALSE
  /\ \/ durable' = {Version(Kept(memory), seal)}
     \/ Fragile(memory) /\ durable' = {}
  /\ UNCHANGED <<open, memory, seal, loaded>>

SaveFails ==
  /\ saving
  /\ saving' = FALSE
  /\ durable' \in {{}, {Version(Kept(memory), seal)}}
  /\ UNCHANGED <<open, memory, seal, loaded, dirty>>

\* The destructor at its end, or the end of the process.
Close ==
  /\ open' = FALSE
  /\ memory' = <<>>
  /\ loaded' = FALSE /\ dirty' = FALSE /\ saving' = FALSE
  /\ UNCHANGED durable

Next ==
  \/ Wipe \/ Create \/ Open
  \/ Load \/ LoadFails
  \/ Edit \/ Reseal
  \/ BeginSave \/ Rewrite \/ Commit \/ SaveFails
  \/ Close

Spec == Init /\ [][Next]_vars
=============================================================================
