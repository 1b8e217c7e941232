----------------------------- MODULE ThreadPool -----------------------------
(***************************************************************************)
(* Classes thread_pool and _Thread_list (system/execution/thread_pool.cpp):*)
(* a doubly linked list of threads, the pool's state, and the one caller   *)
(* that uses the pool; the pool has no lock.  While the caller walks the   *)
(* list the workers go on: a worker takes a task from its own queue, or    *)
(* finds nothing to do and settles.                                        *)
(*                                                                         *)
(* A thread is seen through what the pool asks of it: state() and tasks(). *)
(* Module Thread has the rest.  Its races show up here as the freedom of a *)
(* worker to settle with tasks in its queue (its store of `waiting' comes  *)
(* after its look at the queue), and the wait for the worker in ~thread()  *)
(* as one step that throws the remaining tasks away.                       *)
(*                                                                         *)
(* A definition named X_Y is X with the fault Y.                           *)
(***************************************************************************)
EXTENDS Naturals, FiniteSets, Functions

CONSTANTS
  Node,           \* the list nodes that memory has room for
  Null,           \* the null pointer
  HardwareThreads,\* thread::hardware_concurrency()
  SizeMax,        \* the largest size_t
  InitialCounts,  \* what the constructor may be asked for
  Counts,         \* what increase_threads, decrease_threads are asked for
  MaxTasks,       \* bound: tasks a queue holds
  AllocFails,     \* whether an allocation may fail before memory is used up
  OsFails         \* whether CreateThread, SuspendThread, ResumeThread may fail

ASSUME PoolAssumption ==
  /\ Null \notin Node
  /\ IsFiniteSet(Node) /\ Cardinality(Node) <= SizeMax
  /\ HardwareThreads \in Nat \ {0}
  /\ SizeMax \in Nat
  /\ HardwareThreads <= SizeMax
  /\ InitialCounts \subseteq 0..SizeMax
  /\ Counts \subseteq 0..SizeMax
  /\ MaxTasks \in Nat \ {0}
  /\ AllocFails \in BOOLEAN
  /\ OsFails \in BOOLEAN

VARIABLES
  \* _Thread_list_storage and the nodes
  first, last, size,
  next, prev,     \* per node: _Next, _Prev
  live,           \* the allocated nodes
  \* the threads, per node
  state, tasks,
  \* thread_pool
  poolState,      \* _Mystate: "closed", "waiting" or "working"
  \* the caller
  pc,             \* its place in a method
  count,          \* _Count: threads still to hire or to dismiss
  cursor,         \* _Node: the node a walk is at
  index,          \* _Which_idx: the index of cursor in a walk by tasks
  fewest, which,  \* _Count, _Which of a walk by tasks
  \* history
  before          \* the task counts at the start of the last submission

listVars == <<first, last, size, next, prev, live>>
threadVars == <<state, tasks>>
walkVars == <<index, fewest, which, before>>
vars == <<listVars, threadVars, poolState, pc, count, cursor, walkVars>>

\* The constructor hires no thread at all when it is asked for as many as there
\* are hardware threads, or more.
Init ==
  /\ first = Null /\ last = Null /\ size = 0
  /\ next = [n \in Node |-> Null] /\ prev = [n \in Node |-> Null]
  /\ live = {}
  /\ state = [n \in Node |-> "terminated"] /\ tasks = [n \in Node |-> 0]
  /\ poolState = "working"
  /\ \E c \in InitialCounts : count = IF c < HardwareThreads THEN c ELSE 0
  /\ pc = "grow"
  /\ cursor = Null /\ index = 0 /\ fewest = 0 /\ which = 0
  /\ before = tasks

-----------------------------------------------------------------------------
(* The workers.                                                            *)

WorkerTakes(n) ==
  /\ state[n] = "working" /\ tasks[n] > 0
  /\ tasks' = [tasks EXCEPT ![n] = @ - 1]
  /\ UNCHANGED <<listVars, state, poolState, pc, count, cursor, walkVars>>

WorkerSettles(n) ==
  /\ state[n] = "working"
  /\ state' = [state EXCEPT ![n] = "waiting"]
  /\ UNCHANGED <<listVars, tasks, poolState, pc, count, cursor, walkVars>>

Workers == \E n \in live : WorkerTakes(n) \/ WorkerSettles(n)

-----------------------------------------------------------------------------
(* Helpers.                                                                *)

CallerAt(label) == pc = label

\* The node k links behind the first one.
nodeAt[k \in 0..Cardinality(Node)] ==
  IF k = 0 THEN first
  ELSE IF nodeAt[k - 1] = Null THEN Null ELSE next[nodeAt[k - 1]]

\* A method returns; its locals go.
Returns ==
  /\ pc' = "idle"
  /\ count' = 0
  /\ cursor' = Null
  /\ index' = 0 /\ fewest' = 0 /\ which' = 0
  /\ before' = [n \in Node |-> 0]

Walks(label, start) ==
  /\ pc' = label
  /\ cursor' = start

\* ~thread() of the threads in nodes, which then are deallocated.
Destroys(nodes) ==
  /\ live' = live \ nodes
  /\ state' = [n \in Node |-> IF n \in nodes THEN "terminated" ELSE state[n]]
  /\ tasks' = [n \in Node |-> IF n \in nodes THEN 0 ELSE tasks[n]]

-----------------------------------------------------------------------------
(* increase_threads() and _Grow(), also called by the constructor.         *)

Increase_OffByOne(c) ==
  /\ CallerAt("idle")
  /\ (size + c) % (SizeMax + 1) <= HardwareThreads
  /\ pc' = "grow"
  /\ count' = c
  /\ UNCHANGED <<listVars, threadVars, poolState, cursor, walkVars>>

Increase(c) ==
  /\ CallerAt("idle")
  /\ (size + c) % (SizeMax + 1) <= HardwareThreads - 1
  /\ pc' = "grow"
  /\ count' = c
  /\ UNCHANGED <<listVars, threadVars, poolState, cursor, walkVars>>

GrowDone ==
  /\ CallerAt("grow") /\ count = 0
  /\ Returns
  /\ UNCHANGED <<listVars, threadVars, poolState>>

\* A new node at the end; its thread waits, or never starts.
Grow ==
  /\ CallerAt("grow") /\ count > 0
  /\ \E n \in Node \ live :
       /\ live' = live \cup {n}
       /\ first' = IF size = 0 THEN n ELSE first
       /\ last' = n
       /\ next' = [m \in Node |-> IF m = n THEN Null
                                  ELSE IF size > 0 /\ m = last THEN n
                                  ELSE next[m]]
       /\ prev' = [prev EXCEPT ![n] = IF size = 0 THEN Null ELSE last]
       /\ \E s \in {"waiting"} \cup IF OsFails THEN {"terminated"} ELSE {} :
            state' = [state EXCEPT ![n] = s]
       /\ tasks' = [tasks EXCEPT ![n] = 0]
  /\ size' = size + 1
  /\ count' = count - 1
  /\ UNCHANGED <<poolState, pc, cursor, walkVars>>

GrowFails ==
  /\ CallerAt("grow") /\ count > 0
  /\ AllocFails \/ live = Node
  /\ Returns
  /\ UNCHANGED <<listVars, threadVars, poolState>>

-----------------------------------------------------------------------------
(* decrease_threads() and _Reduce(): the waiting threads go first, from the*)
(* front, then as many as are left to dismiss from the back.               *)

Decrease_ToNothing(c) ==
  /\ CallerAt("idle")
  /\ c # 0 /\ c <= size
  /\ Walks("reduceWaiting", first)
  /\ count' = c
  /\ UNCHANGED <<listVars, threadVars, poolState, walkVars>>

Decrease(c) ==
  /\ CallerAt("idle")
  /\ c # 0 /\ c < size
  /\ Walks("reduceWaiting", first)
  /\ count' = c
  /\ UNCHANGED <<listVars, threadVars, poolState, walkVars>>

\* _Free_node().  Freeing the first node leaves _First and _Last alone when
\* there is no other.
FreeNode_KeepsBackLink(n) ==
  /\ first' = IF n = first /\ next[n] # Null THEN next[n] ELSE first
  /\ last' = IF n # first /\ n = last THEN prev[n] ELSE last
  /\ next' = [m \in Node |-> IF m = n THEN Null
                             ELSE IF n # first /\ m = prev[n] THEN next[n]
                             ELSE next[m]]
  /\ prev' = [prev EXCEPT ![n] = Null]
  /\ size' = size - 1
  /\ Destroys({n})

FreeNode(n) ==
  /\ first' = IF n = first /\ next[n] # Null THEN next[n] ELSE first
  /\ last' = IF n # first /\ n = last THEN prev[n] ELSE last
  /\ next' = [m \in Node |-> IF m = n THEN Null
                             ELSE IF n # first /\ m = prev[n] THEN next[n]
                             ELSE next[m]]
  /\ prev' = [m \in Node |-> IF m = n \/ (n = first /\ m = next[n]) THEN Null
                             ELSE IF m = next[n] THEN prev[n]
                             ELSE prev[m]]
  /\ size' = size - 1
  /\ Destroys({n})

ReduceWaiting_NotCounted ==
  /\ CallerAt("reduceWaiting") /\ cursor # Null /\ count > 0
  /\ cursor' = next[cursor]
  /\ IF state[cursor] = "waiting"
       THEN FreeNode(cursor)
       ELSE UNCHANGED <<listVars, threadVars>>
  /\ UNCHANGED <<poolState, pc, count, walkVars>>

ReduceWaiting_AfterFree ==
  /\ CallerAt("reduceWaiting") /\ cursor # Null /\ count > 0
  /\ IF state[cursor] = "waiting"
       THEN FreeNode(cursor) /\ count' = count - 1 /\ UNCHANGED cursor
       ELSE /\ cursor' = next[cursor]
            /\ UNCHANGED <<listVars, threadVars, count>>
  /\ UNCHANGED <<poolState, pc, walkVars>>

ReduceWaiting ==
  /\ CallerAt("reduceWaiting") /\ cursor # Null /\ count > 0
  /\ cursor' = next[cursor]
  /\ IF state[cursor] = "waiting"
       THEN FreeNode(cursor) /\ count' = count - 1
       ELSE UNCHANGED <<listVars, threadVars, count>>
  /\ UNCHANGED <<poolState, pc, walkVars>>

ReduceWaitingDone ==
  /\ CallerAt("reduceWaiting")
  /\ cursor = Null \/ count = 0
  /\ IF count = 0
       THEN Returns /\ UNCHANGED size
       ELSE /\ Walks("reduceLast", Null)
            /\ size' = size - count
            /\ UNCHANGED <<count, walkVars>>
  /\ UNCHANGED <<first, last, next, prev, live, threadVars, poolState>>

\* The threads that are left to dismiss, which the size no longer counts, go from
\* the back, whatever their state.
ReduceLast ==
  /\ CallerAt("reduceLast") /\ count > 0
  /\ next' = [next EXCEPT ![prev[last]] = Null]
  /\ prev' = [prev EXCEPT ![last] = Null]
  /\ last' = prev[last]
  /\ Destroys({last})
  /\ count' = count - 1
  /\ UNCHANGED <<first, size, poolState, pc, cursor, walkVars>>

ReduceLastDone ==
  /\ CallerAt("reduceLast") /\ count = 0
  /\ Returns
  /\ UNCHANGED <<listVars, threadVars, poolState>>

-----------------------------------------------------------------------------
(* submit_task(): to the first waiting thread, else to the one with the    *)
(* fewest tasks.                                                           *)

Submit_AnyState ==
  /\ CallerAt("idle")
  /\ Walks("byState", first)
  /\ before' = tasks
  /\ UNCHANGED <<listVars, threadVars, poolState, count, index, fewest, which>>

Submit ==
  /\ CallerAt("idle")
  /\ poolState = "working"
  /\ Walks("byState", first)
  /\ before' = tasks
  /\ UNCHANGED <<listVars, threadVars, poolState, count, index, fewest, which>>

\* _Select_thread_by_state(waiting)
ByState ==
  /\ CallerAt("byState") /\ cursor # Null
  /\ IF state[cursor] = "waiting" THEN Walks("give", cursor)
     ELSE Walks("byState", next[cursor])
  /\ UNCHANGED <<listVars, threadVars, poolState, count, walkVars>>

\* _Select_thread_by_tasks() begins with the first node; it returns a null
\* pointer when there is none, which submit_task() goes through.
ByTasksBegin ==
  /\ CallerAt("byState") /\ cursor = Null
  /\ IF first = Null
       THEN /\ Walks("crashed", Null)
            /\ UNCHANGED <<index, fewest, which>>
       ELSE /\ Walks("byTasks", next[first])
            /\ fewest' = tasks[first]
            /\ which' = 0
            /\ index' = 1
  /\ UNCHANGED <<listVars, threadVars, poolState, count, before>>

\* The comparison and the record of the smaller number are two reads of tasks().
ByTasksCompare ==
  /\ CallerAt("byTasks") /\ cursor # Null
  /\ IF tasks[cursor] < fewest
       THEN Walks("byTasksRecord", cursor) /\ UNCHANGED index
       ELSE Walks("byTasks", next[cursor]) /\ index' = index + 1
  /\ UNCHANGED <<listVars, threadVars, poolState, count, fewest, which, before>>

ByTasksRecord_NoIndex ==
  /\ CallerAt("byTasksRecord")
  /\ fewest' = tasks[cursor]
  /\ which' = 1
  /\ Walks("byTasks", next[cursor])
  /\ index' = index + 1
  /\ UNCHANGED <<listVars, threadVars, poolState, count, before>>

ByTasksRecord ==
  /\ CallerAt("byTasksRecord")
  /\ fewest' = tasks[cursor]
  /\ which' = index
  /\ Walks("byTasks", next[cursor])
  /\ index' = index + 1
  /\ UNCHANGED <<listVars, threadVars, poolState, count, before>>

\* _Select_thread(_Which)
SelectThread ==
  /\ CallerAt("byTasks") /\ cursor = Null
  /\ Walks("giveFewest", IF which = size - 1 THEN last ELSE nodeAt[which])
  /\ UNCHANGED <<listVars, threadVars, poolState, count, walkVars>>

\* thread::submit_task(): refused by a thread that is terminated or full, else
\* the task is queued and a waiting thread resumed, if the kernel does it.
Give_NoLimit ==
  /\ pc \in {"give", "giveFewest"}
  /\ IF state[cursor] = "terminated"
       THEN UNCHANGED threadVars
       ELSE /\ tasks' = [tasks EXCEPT ![cursor] = @ + 1]
            /\ \/ state' = [state EXCEPT ![cursor] = "working"]
               \/ OsFails /\ UNCHANGED state
  /\ Returns
  /\ UNCHANGED <<listVars, poolState>>

Give ==
  /\ pc \in {"give", "giveFewest"}
  /\ IF state[cursor] = "terminated" \/ tasks[cursor] = MaxTasks
       THEN UNCHANGED threadVars
       ELSE /\ tasks' = [tasks EXCEPT ![cursor] = @ + 1]
            /\ \/ state' = [state EXCEPT ![cursor] = "working"]
               \/ OsFails /\ UNCHANGED state
  /\ Returns
  /\ UNCHANGED <<listVars, poolState>>

-----------------------------------------------------------------------------
(* suspend() and resume(): the pool's state first, then thread by thread.  *)

Suspend ==
  /\ CallerAt("idle")
  /\ poolState = "working"
  /\ poolState' = "waiting"
  /\ Walks("suspend", first)
  /\ UNCHANGED <<listVars, threadVars, count, walkVars>>

SuspendEach ==
  /\ CallerAt("suspend") /\ cursor # Null
  /\ \/ state' = [state EXCEPT ![cursor] =
                     IF @ = "working" THEN "waiting" ELSE @]
     \/ OsFails /\ UNCHANGED state
  /\ Walks("suspend", next[cursor])
  /\ UNCHANGED <<listVars, tasks, poolState, count, walkVars>>

Resume ==
  /\ CallerAt("idle")
  /\ poolState = "waiting"
  /\ poolState' = "working"
  /\ Walks("resume", first)
  /\ UNCHANGED <<listVars, threadVars, count, walkVars>>

ResumeEach ==
  /\ CallerAt("resume") /\ cursor # Null
  /\ \/ state' = [state EXCEPT ![cursor] =
                     IF @ = "waiting" THEN "working" ELSE @]
     \/ OsFails /\ UNCHANGED state
  /\ Walks("resume", next[cursor])
  /\ UNCHANGED <<listVars, tasks, poolState, count, walkVars>>

EachDone ==
  /\ pc \in {"suspend", "resume"} /\ cursor = Null
  /\ Returns
  /\ UNCHANGED <<listVars, threadVars, poolState>>

-----------------------------------------------------------------------------
\* close() and _Release(): every node on the list goes.
Close ==
  /\ CallerAt("idle")
  /\ poolState' = "closed"
  /\ Destroys({nodeAt[k] : k \in 0..Cardinality(Node)} \ {Null})
  /\ first' = Null /\ last' = Null /\ size' = 0
  /\ next' = [n \in Node |-> Null] /\ prev' = next'
  /\ UNCHANGED <<pc, count, cursor, walkVars>>

Caller ==
  \/ \E c \in Counts : Increase(c) \/ Decrease(c)
  \/ GrowDone \/ Grow \/ GrowFails
  \/ ReduceWaiting \/ ReduceWaitingDone \/ ReduceLast
  \/ ReduceLastDone
  \/ Submit \/ ByState \/ ByTasksBegin \/ ByTasksCompare \/ ByTasksRecord
  \/ SelectThread \/ Give
  \/ Suspend \/ SuspendEach \/ Resume \/ ResumeEach \/ EachDone \/ Close

\* A null pointer that is gone through ends the process.
Next == pc # "crashed" /\ (Workers \/ Caller)

Spec == Init /\ [][Next]_vars

-----------------------------------------------------------------------------
TypeOK ==
  /\ first \in Node \cup {Null} /\ last \in Node \cup {Null}
  /\ size \in 0..SizeMax
  /\ next \in [Node -> Node \cup {Null}] /\ prev \in [Node -> Node \cup {Null}]
  /\ live \subseteq Node
  /\ state \in [Node -> {"terminated", "waiting", "working"}]
  /\ tasks \in [Node -> 0..MaxTasks]
  /\ poolState \in {"closed", "waiting", "working"}
  /\ pc \in {"idle", "grow", "reduceWaiting", "reduceLast", "byState",
             "byTasks", "byTasksRecord", "give", "giveFewest", "suspend",
             "resume", "crashed"}
  /\ count \in 0..SizeMax
  /\ cursor \in Node \cup {Null}
  /\ index \in Nat /\ fewest \in 0..MaxTasks /\ which \in Nat
  /\ before \in [Node -> 0..MaxTasks]

\* The nodes on the list: the size, and those that _Reduce() has taken off the
\* size but not yet unlinked.
Linked == size + (IF CallerAt("reduceLast") THEN count ELSE 0)

\* The list is what its three fields say, from first to last and back, and its
\* nodes are exactly the allocated ones; nothing leaks or dangles.  While _Reduce()
\* unlinks nodes the size is short of those that are still to go, and of no other.
ListWellFormed ==
  /\ Linked = Cardinality(live)
  /\ live = {nodeAt[k] : k \in 0..Cardinality(Node)} \ {Null}
  /\ IF Linked = 0 THEN first = Null /\ last = Null
     ELSE /\ nodeAt[Linked - 1] = last /\ next[last] = Null
          /\ prev[first] = Null
          /\ \A n \in live : next[n] # Null => prev[next[n]] = n

\* No walk ever holds a node that was freed under it.
CursorLive == cursor \in live \cup {Null}

\* A pool that has hired a thread keeps one until it is closed: no submission
\* after that meets an empty list, however the pool is resized.
NeverEmptied == [][live # {} /\ poolState' # "closed" => live' # {}]_vars

\* The pool never has as many threads as the hardware, however it is resized.
WithinHardware == Cardinality(live) < HardwareThreads

\* A task goes to a thread that waits or, when the walk found none that does, to
\* one that is no busier than any thread was when the call began, although every
\* worker goes on during both walks.
LeastLoaded ==
  /\ pc = "give" => state[cursor] = "waiting"
  /\ pc = "giveFewest" => \A n \in live : tasks[cursor] <= before[n]

\* decrease_threads(c) dismisses exactly c threads in its two passes: with every
\* step as many threads go as are struck off the count, and it returns when none
\* is left to dismiss.
DecreaseExact ==
  [][CallerAt("reduceWaiting") \/ CallerAt("reduceLast") =>
       /\ pc' # "idle" => Cardinality(live') + count = Cardinality(live) + count'
       /\ pc' = "idle" => count = 0 /\ live' = live]_vars

\* A suspended pool rests: none of its threads starts to work, whatever is
\* submitted or resized and even where the kernel refuses to suspend one.
SuspendedPoolRests ==
  [][poolState = "waiting" /\ poolState' = "waiting" =>
       \A n \in live' : state'[n] = "working" => n \in live /\ state[n] = "working"]_vars
=============================================================================
