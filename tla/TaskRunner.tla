----------------------------- MODULE TaskRunner -----------------------------
(***************************************************************************)
(* What one worker of the library promises to the code that hands it       *)
(* tasks: a FIFO of accepted tasks, each started at most once and in the   *)
(* order of acceptance, one at a time; the tasks that have not started may *)
(* be thrown away together.  Nothing here says how the worker sleeps, is   *)
(* suspended or is woken up: module Thread does, and is shown to implement *)
(* this specification.                                                     *)
(*                                                                         *)
(* A task (function pointer and argument) is abstracted to the ordinal of  *)
(* the submission that brought it in: 1 is the first accepted task, 2 the  *)
(* second, and so on.  0 stands for "no task".                             *)
(***************************************************************************)
EXTENDS Naturals, Sequences, Functions

CONSTANT MaxTasks  \* the largest number of tasks that may be pending, above 0

VARIABLES
  accepted,   \* how many tasks were accepted
  pending,    \* the accepted tasks that have not started, oldest first
  running,    \* the task being run, or 0
  finished,   \* the set of tasks that ran to completion
  discarded   \* the set of tasks thrown away before they started

vars == <<accepted, pending, running, finished, discarded>>

Init ==
  /\ accepted \in {0, 1}
  /\ pending = IF accepted = 0 THEN <<>> ELSE <<1>>
  /\ running = 0
  /\ finished = {}
  /\ discarded = {}

Accept ==
  /\ Len(pending) < MaxTasks
  /\ accepted' = accepted + 1
  /\ pending' = Append(pending, accepted')
  /\ UNCHANGED <<running, finished, discarded>>

Start ==
  /\ running = 0
  /\ pending # <<>>
  /\ running' = Head(pending)
  /\ pending' = Tail(pending)
  /\ UNCHANGED <<accepted, finished, discarded>>

Finish ==
  /\ running # 0
  /\ finished' = finished \cup {running}
  /\ running' = 0
  /\ UNCHANGED <<accepted, pending, discarded>>

Discard ==
  /\ discarded' = discarded \cup Range(pending)
  /\ pending' = <<>>
  /\ UNCHANGED <<accepted, running, finished>>

Next == Accept \/ Start \/ Finish \/ Discard

Spec == Init /\ [][Next]_vars

-----------------------------------------------------------------------------
TypeOK ==
  /\ accepted \in Nat
  /\ pending \in Seq(1..accepted)
  /\ Len(pending) <= MaxTasks
  /\ running \in 0..accepted
  /\ finished \subseteq 1..accepted
  /\ discarded \subseteq 1..accepted

\* The pending tasks stand in the order in which they were accepted, and every
\* task that was started is older than every task that is still pending.
Ordered ==
  /\ \A i, j \in 1..Len(pending) : i < j => pending[i] < pending[j]
  /\ \A i \in 1..Len(pending) :
       \A t \in finished \cup {running} : t < pending[i]

\* The set of tasks in flight.
Started == finished \cup ({running} \ {0})

\* No task is lost and none is run twice: an accepted task is in exactly one of
\* the four places.
Conservation ==
  /\ 1..accepted = Range(pending) \cup Started \cup discarded
  /\ Range(pending) \cap (Started \cup discarded) = {}
  /\ Started \cap discarded = {}
  /\ running \notin finished
=============================================================================
