------------------------------- MODULE Thread -------------------------------
(***************************************************************************)
(* Class thread (system/execution/thread.cpp): one Win32 thread, the       *)
(* worker, that serves the task queue of one thread object, and the caller *)
(* that uses the object's methods.  The class is a non-copyable manager    *)
(* without a lock of its own, so there is one caller.                      *)
(*                                                                         *)
(* The two sides share three things: the atomic _State, the shared_queue   *)
(* with its SRW lock, and the suspend count the kernel keeps for the       *)
(* worker.  SuspendThread increments that count from outside at any point  *)
(* of the worker's code, also while the worker holds the queue's lock, and *)
(* ResumeThread decrements it, or does nothing when it is 0.  The worker   *)
(* only takes steps while the count is 0.                                  *)
(*                                                                         *)
(* Every load and store of _State, every lock section of the queue and     *)
(* every kernel call is a step of its own.  A lock section of the caller   *)
(* is one step, because nothing suspends the caller; one of the worker is  *)
(* an entering and a leaving step.                                         *)
(*                                                                         *)
(* A task is the ordinal of the submission that brought it in; 0 is "no    *)
(* task".  Event callbacks run on the caller between a load and a store    *)
(* and touch none of this state: they are left out.                        *)
(*                                                                         *)
(* A definition named X_Y is a faulty variant of X: it is used nowhere but *)
(* to confirm that a property notices the fault Y.                         *)
(***************************************************************************)
EXTENDS Naturals, Sequences, Functions

CONSTANTS
  Methods,     \* the methods the caller uses
  MaxTasks,    \* max_size() of the list behind the queue
  MaxSubmits,  \* bound: how many tasks are submitted in a behaviour
  OsFails      \* whether CreateThread, SuspendThread, ResumeThread may fail

Method == {"submit", "suspend", "resume", "terminate", "terminate_and_wait",
           "destroy"}

ASSUME ThreadAssumption ==
  /\ Methods \subseteq Method
  /\ MaxTasks \in Nat \ {0}
  /\ MaxSubmits \in Nat
  /\ OsFails \in BOOLEAN

VARIABLES
  \* the thread object and its storage
  state,      \* _State: "terminated", "waiting" or "working"
  queue,      \* _Queue, oldest task first
  handle,     \* _Myhandle: "open", or "closed" once it is null
  alive,      \* FALSE once the object was destroyed
  \* the worker
  wpc,        \* the worker's place in _Thread_task
  current,    \* the task being run, or 0
  suspends,   \* the worker's suspend count
  \* the caller
  pc,         \* the caller's place in a method
  call,       \* the method the caller is in, or "none"
  seen,       \* the _State that submit_task read on entry
  \* history
  accepted, finished, discarded

objectVars == <<state, queue, handle, alive>>
workerVars == <<wpc, current, suspends>>
callerVars == <<pc, call, seen>>
historyVars == <<accepted, finished, discarded>>
vars == <<objectVars, workerVars, callerVars, historyVars>>

-----------------------------------------------------------------------------
(* Construction: with or without a first task; CreateThread may fail, which*)
(* leaves a terminated object with an empty queue.                         *)

Started(withTask) ==
  /\ state = IF withTask THEN "working" ELSE "waiting"
  /\ accepted = IF withTask THEN 1 ELSE 0
  /\ queue = IF withTask THEN <<1>> ELSE <<>>
  /\ handle = "open"
  /\ wpc = "loop"

NotStarted ==
  /\ OsFails
  /\ state = "terminated"
  /\ accepted = 0
  /\ queue = <<>>
  /\ handle = "closed"
  /\ wpc = "none"

Init ==
  /\ Started(TRUE) \/ Started(FALSE) \/ NotStarted
  /\ alive = TRUE
  /\ current = 0
  /\ suspends = 0
  /\ pc = "idle"
  /\ call = "none"
  /\ seen = "waiting"
  /\ finished = {}
  /\ discarded = {}

-----------------------------------------------------------------------------
(* The queue's SRW lock is held by the worker, shared in empty() and       *)
(* exclusively in pop(), or by nobody: the caller's sections are atomic.   *)

SharedLockFree == wpc # "popping"
ExclusiveLockFree == wpc \notin {"peeking", "popping"}

-----------------------------------------------------------------------------
(* The worker: _Thread_task.                                               *)

WorkerAt(label) == wpc = label /\ suspends = 0

WorkerGoes(label) ==
  /\ wpc' = label
  /\ UNCHANGED callerVars

WorkerLoad ==
  /\ WorkerAt("loop") /\ alive
  /\ WorkerGoes([terminated |-> "exited",
                 waiting    |-> "park",
                 working    |-> "peek"][state])
  /\ UNCHANGED <<objectVars, current, suspends, historyVars>>

WorkerPark ==
  /\ WorkerAt("park")
  /\ WorkerGoes("loop")
  /\ suspends' = suspends + 1
  /\ UNCHANGED <<objectVars, current, historyVars>>

WorkerPeek ==
  /\ WorkerAt("peek") /\ alive
  /\ WorkerGoes("peeking")
  /\ UNCHANGED <<objectVars, current, suspends, historyVars>>

WorkerPeeked ==
  /\ WorkerAt("peeking") /\ alive
  /\ WorkerGoes(IF queue = <<>> THEN "settle" ELSE "pop")
  /\ UNCHANGED <<objectVars, current, suspends, historyVars>>

WorkerSettle ==
  /\ WorkerAt("settle") /\ alive
  /\ WorkerGoes("loop")
  /\ state' = "waiting"
  /\ UNCHANGED <<queue, handle, alive, current, suspends, historyVars>>

WorkerPop ==
  /\ WorkerAt("pop") /\ alive
  /\ WorkerGoes("popping")
  /\ UNCHANGED <<objectVars, current, suspends, historyVars>>

WorkerPopped_Keeps ==
  /\ WorkerAt("popping") /\ alive /\ queue # <<>>
  /\ WorkerGoes("run")
  /\ current' = Head(queue)
  /\ UNCHANGED <<objectVars, suspends, historyVars>>

\* pop() of an empty queue returns value_type{}: the worker calls through a
\* null function pointer, which ends the process.
WorkerPopped ==
  /\ WorkerAt("popping") /\ alive
  /\ IF queue = <<>>
       THEN /\ WorkerGoes("crashed")
            /\ UNCHANGED <<queue, current>>
       ELSE /\ WorkerGoes("run")
            /\ current' = Head(queue)
            /\ queue' = Tail(queue)
  /\ UNCHANGED <<state, handle, alive, suspends, historyVars>>

WorkerFinish ==
  /\ WorkerAt("run")
  /\ WorkerGoes("loop")
  /\ current' = 0
  /\ finished' = finished \cup {current}
  /\ UNCHANGED <<objectVars, suspends, accepted, discarded>>

\* The worker reaches for the storage of a destroyed object.
WorkerFault ==
  /\ suspends = 0 /\ ~alive
  /\ wpc \in {"loop", "peek", "peeking", "settle", "pop", "popping"}
  /\ WorkerGoes("crashed")
  /\ UNCHANGED <<objectVars, current, suspends, historyVars>>

Worker ==
  \/ WorkerLoad \/ WorkerPark \/ WorkerPeek \/ WorkerPeeked \/ WorkerSettle
  \/ WorkerPop \/ WorkerPopped \/ WorkerFinish \/ WorkerFault

-----------------------------------------------------------------------------
(* The caller.  A call of a method in Methods begins when the caller is    *)
(* idle; Goes names the next place, Return ends the call.                  *)

\* A crash of the worker takes the whole process, and so the caller, down.
CallerAt(label) == pc = label /\ wpc # "crashed"

Goes(label) ==
  /\ pc' = label
  /\ UNCHANGED <<call, seen>>

Return ==
  /\ pc' = "idle"
  /\ call' = "none"
  /\ UNCHANGED seen

Call(method, label) ==
  /\ method \in Methods
  /\ CallerAt("idle")
  /\ pc' = label
  /\ call' = method

\* submit_task() loads the state once; a terminated thread takes no task and
\* the call returns at once.
Submit ==
  /\ Call("submit", "submitFull")
  /\ accepted < MaxSubmits
  /\ state # "terminated"
  /\ seen' = state
  /\ UNCHANGED <<objectVars, workerVars, historyVars>>

SubmitFull_NoCheck ==
  /\ CallerAt("submitFull") /\ SharedLockFree
  /\ Goes("submitPush")
  /\ UNCHANGED <<objectVars, workerVars, historyVars>>

SubmitFull ==
  /\ CallerAt("submitFull") /\ SharedLockFree
  /\ IF Len(queue) = MaxTasks THEN Return ELSE Goes("submitPush")
  /\ UNCHANGED <<objectVars, workerVars, historyVars>>

SubmitPush_AtFront ==
  /\ CallerAt("submitPush") /\ ExclusiveLockFree
  /\ accepted' = accepted + 1
  /\ queue' = <<accepted'>> \o queue
  /\ IF seen # "working" THEN Goes("resumeLoad") ELSE Return
  /\ UNCHANGED <<state, handle, alive, workerVars, finished, discarded>>

\* push() drops the task silently when the queue is full; submit_task() reports
\* it as accepted all the same.
SubmitPush ==
  /\ CallerAt("submitPush") /\ ExclusiveLockFree
  /\ accepted' = accepted + 1
  /\ queue' = IF Len(queue) < MaxTasks THEN Append(queue, accepted') ELSE queue
  /\ IF seen # "working" THEN Goes("resumeLoad") ELSE Return
  /\ UNCHANGED <<state, handle, alive, workerVars, finished, discarded>>

Resume ==
  /\ Call("resume", "resumeLoad")
  /\ UNCHANGED <<objectVars, workerVars, seen, historyVars>>

ResumeLoad ==
  /\ CallerAt("resumeLoad")
  /\ IF state = "waiting" THEN Goes("resumeSet") ELSE Return
  /\ UNCHANGED <<objectVars, workerVars, historyVars>>

ResumeSet ==
  /\ CallerAt("resumeSet")
  /\ Goes("resumeOs")
  /\ state' = "working"
  /\ UNCHANGED <<queue, handle, alive, workerVars, historyVars>>

\* ResumeThread, and the failure path that restores the state.
KernelResumes ==
  /\ handle = "open"
  /\ suspends' = IF suspends = 0 THEN 0 ELSE suspends - 1

KernelRefuses ==
  /\ OsFails \/ handle = "closed"
  /\ UNCHANGED suspends

ResumeOs ==
  /\ CallerAt("resumeOs")
  /\ Return
  /\ \/ KernelResumes /\ UNCHANGED state
     \/ KernelRefuses /\ state' = "waiting"
  /\ UNCHANGED <<queue, handle, alive, wpc, current, historyVars>>

Suspend ==
  /\ Call("suspend", "suspendLoad")
  /\ UNCHANGED <<objectVars, workerVars, seen, historyVars>>

AfterSuspend_RunsOn == Goes("tidySet")

\* suspend() is also called by _Tidy(), which then carries on.
AfterSuspend == IF call = "suspend" THEN Return ELSE Goes("tidySet")

SuspendLoad_NoCheck ==
  /\ CallerAt("suspendLoad")
  /\ Goes("suspendSet")
  /\ UNCHANGED <<objectVars, workerVars, historyVars>>

SuspendLoad ==
  /\ CallerAt("suspendLoad")
  /\ IF state = "working" THEN Goes("suspendSet") ELSE AfterSuspend
  /\ UNCHANGED <<objectVars, workerVars, historyVars>>

SuspendSet ==
  /\ CallerAt("suspendSet")
  /\ Goes("suspendOs")
  /\ state' = "waiting"
  /\ UNCHANGED <<queue, handle, alive, workerVars, historyVars>>

KernelSuspends ==
  /\ handle = "open"
  /\ suspends' = suspends + 1

SuspendOs ==
  /\ CallerAt("suspendOs")
  /\ AfterSuspend
  /\ \/ KernelSuspends /\ UNCHANGED state
     \/ KernelRefuses /\ state' = "working"
  /\ UNCHANGED <<queue, handle, alive, wpc, current, historyVars>>

\* terminate(), terminate_and_wait() and the destructor, which calls the latter.
Terminate ==
  /\ \E method \in {"terminate", "terminate_and_wait", "destroy"} :
       Call(method, "joinable")
  /\ UNCHANGED <<objectVars, workerVars, seen, historyVars>>

Destroyed ==
  /\ alive' = FALSE
  /\ Goes("gone")

Joinable ==
  /\ CallerAt("joinable")
  /\ IF state # "terminated" THEN Goes("tidyLoad") /\ UNCHANGED alive
     ELSE IF call = "destroy" THEN Destroyed
     ELSE Return /\ UNCHANGED alive
  /\ UNCHANGED <<state, queue, handle, workerVars, historyVars>>

TidyLoad ==
  /\ CallerAt("tidyLoad")
  /\ Goes(IF state # "waiting" THEN "suspendLoad" ELSE "tidySet")
  /\ UNCHANGED <<objectVars, workerVars, historyVars>>

TidySet ==
  /\ CallerAt("tidySet")
  /\ Goes("tidyResume")
  /\ state' = "terminated"
  /\ UNCHANGED <<queue, handle, alive, workerVars, historyVars>>

TidyResume_NoResume ==
  /\ CallerAt("tidyResume")
  /\ Goes(IF call = "terminate" THEN "clearState" ELSE "wait")
  /\ UNCHANGED <<objectVars, workerVars, historyVars>>

TidyResume ==
  /\ CallerAt("tidyResume")
  /\ Goes(IF call = "terminate" THEN "clearState" ELSE "wait")
  /\ KernelResumes \/ KernelRefuses
  /\ UNCHANGED <<objectVars, wpc, current, historyVars>>

WaitForExit_NoWait ==
  /\ CallerAt("wait")
  /\ Goes("clearState")
  /\ UNCHANGED <<objectVars, workerVars, historyVars>>

\* WaitForSingleObject fails at once on a null handle.
WaitForExit ==
  /\ CallerAt("wait")
  /\ wpc = "exited" \/ handle = "closed"
  /\ Goes("clearState")
  /\ UNCHANGED <<objectVars, workerVars, historyVars>>

ClearState ==
  /\ CallerAt("clearState")
  /\ Goes("clearQueue")
  /\ state' = "terminated"
  /\ UNCHANGED <<queue, handle, alive, workerVars, historyVars>>

ClearQueue ==
  /\ CallerAt("clearQueue") /\ ExclusiveLockFree
  /\ discarded' = discarded \cup Range(queue)
  /\ queue' = <<>>
  /\ handle' = "closed"
  /\ IF call = "destroy" THEN Destroyed ELSE Return /\ UNCHANGED alive
  /\ UNCHANGED <<state, workerVars, accepted, finished>>

CallStep ==
  \/ SubmitFull \/ SubmitPush
  \/ ResumeLoad \/ ResumeSet \/ ResumeOs
  \/ SuspendLoad \/ SuspendSet \/ SuspendOs
  \/ Joinable \/ TidyLoad \/ TidySet \/ TidyResume \/ WaitForExit
  \/ ClearState \/ ClearQueue

NewCall == Submit \/ Resume \/ Suspend \/ Terminate

-----------------------------------------------------------------------------
Next == Worker \/ CallStep \/ NewCall

Spec == Init /\ [][Next]_vars

\* The scheduler runs every thread that is not suspended, tasks end, and the
\* caller carries on with a call it has begun; it need not begin another.
Fairness == WF_vars(Worker) /\ WF_vars(CallStep)

FairSpec == Spec /\ Fairness
-----------------------------------------------------------------------------
WorkerLabel == {"none", "loop", "park", "peek", "peeking", "settle", "pop",
                "popping", "run", "exited", "crashed"}

Terminator == {"terminate", "terminate_and_wait", "destroy"}

\* The places of the caller in each method: suspend() is shared by the callers
\* of _Tidy(), resume() by submit_task().
PlacesOf(method) ==
  CASE method = "none" -> {"idle"}
    [] method = "submit" -> {"submitFull", "submitPush", "resumeLoad",
                             "resumeSet", "resumeOs"}
    [] method = "resume" -> {"resumeLoad", "resumeSet", "resumeOs"}
    [] method = "suspend" -> {"suspendLoad", "suspendSet", "suspendOs"}
    [] method = "terminate" -> {"joinable", "tidyLoad", "suspendLoad",
         "suspendSet", "suspendOs", "tidySet", "tidyResume", "clearState",
         "clearQueue"}
    [] method = "terminate_and_wait" -> {"joinable", "tidyLoad",
         "suspendLoad", "suspendSet", "suspendOs", "tidySet", "tidyResume",
         "wait", "clearState", "clearQueue"}
    [] method = "destroy" -> {"joinable", "tidyLoad", "suspendLoad",
         "suspendSet", "suspendOs", "tidySet", "tidyResume", "wait",
         "clearState", "clearQueue", "gone"}

\* Every variable has its type, and the caller is at a place of the method it
\* is in: suspend() called from outside never runs on into the termination.
TypeOK ==
  /\ state \in {"terminated", "waiting", "working"}
  /\ queue \in Seq(Nat) /\ Len(queue) <= MaxTasks
  /\ handle \in {"open", "closed"}
  /\ alive \in BOOLEAN
  /\ wpc \in WorkerLabel
  /\ current \in Nat
  /\ suspends \in Nat
  /\ call \in (Methods \cap Method) \cup {"none"}
  /\ pc \in PlacesOf(call)
  /\ seen \in {"waiting", "working"}
  /\ accepted \in Nat
  /\ finished \subseteq Nat
  /\ discarded \subseteq Nat

\* However suspend(), the worker's own parking and the termination interleave,
\* the worker's suspend count stays at most 2, far from the kernel's limit of
\* 127 at which SuspendThread fails.
SuspendCountBounded == suspends <= 2

\* The worker neither calls through the null task of an emptied queue nor
\* touches the storage of a destroyed object.  True as long as the caller does
\* not use terminate(), which clears the queue without waiting.
WorkerNeverFaults == wpc # "crashed"

\* The detailed thread keeps the promise of TaskRunner: no accepted task is
\* lost, reordered or run twice, whatever is suspended or terminated when.
Runner == INSTANCE TaskRunner WITH pending <- queue, running <- current

Promise == Runner!Spec

\* What the promise is worth, said of the thread: tasks start in the order of
\* their submission, also when the queue is full, cleared or peeked at while
\* the caller pushes.
TasksOrdered == Runner!Ordered

\* An accepted task is queued, running, finished or thrown away, and in one of
\* these places only, through suspension and termination at any point.
TasksConserved == Runner!Conservation

\* Every call that submits, resumes or terminates without waiting comes back:
\* the caller never waits for a lock held by a worker that sleeps.  (A crash of
\* the worker, which terminate() can cause, ends caller and call together.)
CallsReturn == pc # "idle" ~> (pc = "idle" \/ wpc = "crashed")

-----------------------------------------------------------------------------
(* What a comment of the code says and the code does not do.                *)

\* thread.cpp:132: a resumed worker terminates itself, so that the wait of
\* terminate_and_wait() ends.
TerminatesItself == pc = "wait" ~> wpc = "exited"
=============================================================================
