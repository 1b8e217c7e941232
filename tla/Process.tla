------------------------------ MODULE Process -------------------------------
(***************************************************************************)
(* Class process (system/execution/process.cpp) and the handle it owns     *)
(* (system/handle/handle_wrapper.hpp).  A process is found by its name in  *)
(* a snapshot, opened by its number, and asked for its privileges by its   *)
(* name again; other programs start and end in between, and the system     *)
(* gives numbers and handles away again.                                   *)
(*                                                                         *)
(* A definition named X_Y is X with the fault Y.                           *)
(***************************************************************************)
EXTENDS Naturals, Sequences, SequencesExt

CONSTANTS
  Objects,        \* objects of the class
  Pids,           \* numbers of processes
  Self,           \* that of this process
  Names,          \* names of processes
  SelfName,       \* that of this process
  SelfElevated,   \* whether this process has administrator privileges
  Handles         \* values of handles

Null == 0
Nobody == ""

ASSUME ProcessAssumption ==
  /\ Self \in Pids /\ Pids \subseteq Nat \ {0}
  /\ SelfName \in Names /\ "" \notin Names /\ Nobody \notin Objects
  /\ SelfElevated \in BOOLEAN
  /\ Handles \subseteq Nat \ {0}

VARIABLES
  \* The system.
  table,     \* processes in the order of their creation
  refers,    \* the process that a handle refers to, or 0 when it is not open
  \* The fields of the objects.
  handle,    \* _Handle; Null when there is none
  id,        \* _Id
  elevated,  \* _Elevated
  name,      \* _Name
  \* The call of open() that is under way.
  pc, caller, wanted,
  found,     \* the process that the second lookup has found
  \* History.
  raced,       \* whether the process ended while open() looked at it
  overwritten  \* open handles that an assignment took the place of

fields == <<handle, id, elevated, name>>
call == <<pc, caller, wanted, found>>
vars == <<table, refers, fields, call, raced, overwritten>>

Running(n, p, e) == [name |-> n, pid |-> p, elevated |-> e, alive |-> TRUE]

Init ==
  /\ table = <<Running(SelfName, Self, SelfElevated)>>
  /\ refers = [h \in Handles |-> 0]
  /\ handle = [o \in Objects |-> Null] /\ id = [o \in Objects |-> 0]
  /\ elevated = [o \in Objects |-> FALSE] /\ name = [o \in Objects |-> ""]
  /\ pc = "idle" /\ caller = Nobody /\ wanted = SelfName /\ found = 0
  /\ raced = [o \in Objects |-> FALSE] /\ overwritten = {}

-----------------------------------------------------------------------------
(* The system.                                                             *)

\* A process that has ended stays as long as a handle refers to it.  No step lets
\* more than one go.
Held(p, r) == p.alive \/ \E h \in Handles : r[h] = p.pid
Known(t, r) == RemoveFirstMatch(t, LAMBDA p : ~Held(p, r))

InTable(p) == \E k \in DOMAIN table : table[k].pid = p
OfPid(p) == table[CHOOSE k \in DOMAIN table : table[k].pid = p]
Free(h) == refers[h] = 0

\* What a handle refers to.
Target(h) == OfPid(refers[h])

Starts(n, p, e) == ~InTable(p) /\ table' = Append(table, Running(n, p, e))

Start ==
  /\ \E n \in Names, p \in Pids, e \in BOOLEAN : Starts(n, p, e)
  /\ UNCHANGED <<refers, fields, call, raced>>

\* The process with the number p ends, this one excepted.
Ends(p, r) ==
  /\ p # Self
  /\ table' = Known([k \in DOMAIN table |->
                       IF table[k].pid = p THEN [table[k] EXCEPT !.alive = FALSE]
                       ELSE table[k]], r)

Exit ==
  /\ \E p \in Pids :
       /\ InTable(p) /\ OfPid(p).alive
       /\ Ends(p, refers)
       /\ raced' = [o \in Objects |-> raced[o] \/ (o = caller /\ p = id[o])]
  /\ UNCHANGED <<refers, fields, call>>

\* CloseHandle().
Closes(h) == refers' = [refers EXCEPT ![h] = 0]

\* _Get_process_id(): the first process of that name, or 0.
Lookup(n) ==
  IF n = SelfName THEN Self
  ELSE LET k == SelectInSeq(table, LAMBDA p : p.name = n /\ p.alive)
       IN  IF k = 0 THEN 0 ELSE table[k].pid

-----------------------------------------------------------------------------
(* The methods.                                                            *)

Idle == pc = "idle"
Return == pc' = "idle" /\ caller' = Nobody /\ wanted' = SelfName /\ found' = 0

Sets(o, h, p, e, n) ==
  /\ raced' = [raced EXCEPT ![o] = FALSE]
  /\ handle' = [handle EXCEPT ![o] = h] /\ id' = [id EXCEPT ![o] = p]
  /\ elevated' = [elevated EXCEPT ![o] = e] /\ name' = [name EXCEPT ![o] = n]

Create(o, n) ==
  /\ Idle /\ handle[o] = Null
  /\ \E p \in Pids, h \in Handles :
       /\ Free(h)
       /\ Starts(n, p, SelfElevated)
       /\ refers' = [refers EXCEPT ![h] = p]
       /\ Sets(o, h, p, FALSE, n)
  /\ UNCHANGED call

\* The system may have started it without giving a handle.
CreateElevated(o, n) ==
  /\ Idle /\ handle[o] = Null
  /\ \E p \in Pids :
       /\ Starts(n, p, TRUE)
       /\ \/ \E h \in Handles :
               /\ Free(h)
               /\ refers' = [refers EXCEPT ![h] = p]
               /\ Sets(o, h, p, TRUE, n)
          \/ UNCHANGED refers /\ Sets(o, Null, 0, TRUE, n)
  /\ UNCHANGED call

Open_Unguarded(o, n) ==
  /\ Idle
  /\ id' = [id EXCEPT ![o] = Lookup(n)]
  /\ pc' = "opening" /\ caller' = o /\ wanted' = n
  /\ raced' = [raced EXCEPT ![o] = FALSE]
  /\ UNCHANGED <<table, refers, handle, elevated, name, found>>

\* The number stays in the object, whether the process can be opened or not.
Open(o, n) ==
  /\ Idle /\ handle[o] = Null
  /\ id' = [id EXCEPT ![o] = Lookup(n)]
  /\ pc' = "opening" /\ caller' = o /\ wanted' = n
  /\ raced' = [raced EXCEPT ![o] = FALSE]
  /\ UNCHANGED <<table, refers, handle, elevated, name, found>>

OpenHandle_Again ==
  /\ pc = "opening"
  /\ \/ /\ InTable(Lookup(wanted))
        /\ \E h \in Handles :
             /\ Free(h)
             /\ refers' = [refers EXCEPT ![h] = Lookup(wanted)]
             /\ handle' = [handle EXCEPT ![caller] = h]
        /\ name' = [name EXCEPT ![caller] = wanted]
        /\ pc' = "asking" /\ UNCHANGED <<caller, wanted, found>>
     \/ Return /\ UNCHANGED <<refers, handle, name>>
  /\ UNCHANGED <<table, id, elevated, raced>>

\* OpenProcess(), of whatever process has the number now.
OpenHandle ==
  /\ pc = "opening"
  /\ \/ /\ InTable(id[caller])
        /\ \E h \in Handles :
             /\ Free(h)
             /\ refers' = [refers EXCEPT ![h] = id[caller]]
             /\ handle' = [handle EXCEPT ![caller] = h]
        /\ name' = [name EXCEPT ![caller] = wanted]
        /\ pc' = "asking" /\ UNCHANGED <<caller, wanted, found>>
     \/ Return /\ UNCHANGED <<refers, handle, name>>
  /\ UNCHANGED <<table, id, elevated, raced>>

\* _Is_process_elevated() looks the name up again,
AskAgain ==
  /\ pc = "asking"
  /\ found' = Lookup(wanted)
  /\ pc' = "token"
  /\ UNCHANGED <<table, refers, fields, caller, wanted, raced>>

\* and opens what it has found for a moment.  Not to be let in counts as no.
AskToken ==
  /\ pc = "token"
  /\ \E e \in {FALSE} \cup {OfPid(p).elevated : p \in {q \in {found} : InTable(q)}} :
       elevated' = [elevated EXCEPT ![caller] = e]
  /\ Return
  /\ UNCHANGED <<table, refers, handle, id, name, raced>>

\* The fields of a closed object.
Blank(o) == Sets(o, Null, 0, FALSE, "")

Close(o) ==
  /\ Idle /\ handle[o] # Null
  /\ Closes(handle[o])
  /\ table' = Known(table, refers')
  /\ Blank(o)
  /\ UNCHANGED call

Terminate_NoClose(o) ==
  /\ Idle /\ handle[o] # Null
  /\ Target(handle[o]).alive
  /\ Ends(refers[handle[o]], refers)
  /\ Blank(o)
  /\ UNCHANGED <<refers, call>>

\* The process may not let itself be ended; then nothing changes.
Terminate(o) ==
  /\ Idle /\ handle[o] # Null
  /\ Target(handle[o]).alive
  /\ Closes(handle[o])
  /\ Ends(refers[handle[o]], refers')
  /\ Blank(o)
  /\ UNCHANGED call

Move_KeepsSource(from, to) ==
  /\ Idle /\ from # to
  /\ handle' = [handle EXCEPT ![to] = handle[from]]
  /\ id' = [id EXCEPT ![to] = id[from]]
  /\ elevated' = [elevated EXCEPT ![to] = elevated[from]]
  /\ name' = [name EXCEPT ![to] = name[from], ![from] = ""]
  /\ raced' = [raced EXCEPT ![to] = raced[from], ![from] = FALSE]
  /\ overwritten' = overwritten \cup ({handle[to]} \ {Null})
  /\ UNCHANGED <<table, refers, call>>

Move_KeepsName(from, to) ==
  /\ Idle /\ from # to
  /\ handle' = [handle EXCEPT ![to] = handle[from], ![from] = Null]
  /\ id' = [id EXCEPT ![to] = id[from]]
  /\ elevated' = [elevated EXCEPT ![to] = elevated[from]]
  /\ raced' = [raced EXCEPT ![to] = raced[from], ![from] = FALSE]
  /\ overwritten' = overwritten \cup ({handle[to]} \ {Null})
  /\ UNCHANGED <<table, refers, name, call>>

\* to = std::move(from): a handle that `to' has is overwritten, and not closed.
Move(from, to) ==
  /\ Idle /\ from # to
  /\ handle' = [handle EXCEPT ![to] = handle[from], ![from] = Null]
  /\ id' = [id EXCEPT ![to] = id[from]]
  /\ elevated' = [elevated EXCEPT ![to] = elevated[from]]
  /\ name' = [name EXCEPT ![to] = name[from], ![from] = ""]
  /\ raced' = [raced EXCEPT ![to] = raced[from], ![from] = FALSE]
  /\ overwritten' = overwritten \cup ({handle[to]} \ {Null})
  /\ UNCHANGED <<table, refers, call>>

\* The destructor, and the constructor of another object in its place.
Renew(o) ==
  /\ Idle
  /\ IF handle[o] = Null THEN UNCHANGED <<table, refers>>
     ELSE Closes(handle[o]) /\ table' = Known(table, refers')
  /\ Blank(o)
  /\ UNCHANGED call

Next ==
  \/ /\ \/ Start \/ Exit
        \/ \E o \in Objects :
             \/ \E n \in Names : Create(o, n) \/ CreateElevated(o, n) \/ Open(o, n)
             \/ Close(o) \/ Terminate(o) \/ Renew(o)
        \/ OpenHandle \/ AskAgain \/ AskToken
     /\ UNCHANGED overwritten
  \/ \E from, to \in Objects : Move(from, to)

Spec == Init /\ [][Next]_vars

-----------------------------------------------------------------------------
Entry == [name : Names, pid : Pids, elevated : BOOLEAN, alive : BOOLEAN]

\* Types; numbers are unique, a handle refers to a process the system knows, and
\* open() runs on an object without a handle until it has got one.
TypeOK ==
  /\ table \in Seq(Entry)
  /\ \A j, k \in DOMAIN table : table[j].pid = table[k].pid => j = k
  /\ refers \in [Handles -> Pids \cup {0}]
  /\ \A h \in Handles : ~Free(h) => InTable(refers[h])
  /\ handle \in [Objects -> Handles \cup {Null}] /\ id \in [Objects -> Pids \cup {0}]
  /\ elevated \in [Objects -> BOOLEAN] /\ name \in [Objects -> Names \cup {""}]
  /\ pc \in {"idle", "opening", "asking", "token"}
  /\ caller \in Objects \cup {Nobody} /\ wanted \in Names /\ found \in Pids \cup {0}
  /\ raced \in [Objects -> BOOLEAN]
  /\ Idle <=> caller = Nobody
  /\ pc = "opening" => handle[caller] = Null
  /\ pc \in {"asking", "token"} => handle[caller] # Null

\* Through moves, closes and ends, and although handles are given away again: what
\* an object holds is open, and nobody else's.  So no handle is closed twice, and
\* none is used that belongs to another object by now.
OneOwner ==
  \A o \in Objects :
    handle[o] # Null =>
      /\ ~Free(handle[o])
      /\ \A q \in Objects \ {o} : handle[q] # handle[o]

\* id() is the number of the process that the handle refers to, and no other
\* process gets it while the object has the handle: suspend(), resume() and
\* terminate() hit the process that id() names.
IdOfHandle ==
  \A o \in Objects : handle[o] # Null => id[o] = refers[handle[o]]

\* What an object says of its process is true: its name, and that it has
\* privileges.  Except when the process that open() had found ended under it: then
\* the object may hold another one under the name it asked for.
SaysTheTruth ==
  \A o \in Objects :
    handle[o] # Null /\ ~raced[o] =>
      /\ name[o] = Target(handle[o]).name
      /\ elevated[o] /\ caller # o => Target(handle[o]).elevated

\* Every open handle is some object's, through creating, opening, failing, moving,
\* closing and ending in any order, but for those of objects over which another one
\* was assigned: these stay open, and belong to nobody.
NoneForgotten ==
  overwritten = {h \in Handles : ~Free(h) /\ \A o \in Objects : handle[o] # h}
=============================================================================
