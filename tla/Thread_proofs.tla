---------------------------- MODULE Thread_proofs ----------------------------
(***************************************************************************)
(* Proofs about Thread for every capacity of the queue, every bound on the *)
(* submissions, every set of methods and with or without failing kernel    *)
(* calls: type correctness, the bound on the suspend count, the refinement *)
(* of TaskRunner and what TaskRunner promises (the order of tasks, none of *)
(* them lost) and, when terminate() is not used, that the worker never     *)
(* faults.                                                                 *)
(***************************************************************************)
EXTENDS Thread, SequenceTheorems, TLAPS

-----------------------------------------------------------------------------
(* Type correctness.                                                       *)

LEMMA TypeInit == Init => TypeOK
<1> SUFFICES ASSUME Init PROVE TypeOK
  OBVIOUS
<1>1. queue \in Seq(Nat) /\ Len(queue) <= MaxTasks
  <2>1. CASE queue = <<>>
    BY <2>1, EmptySeq, ThreadAssumption
  <2>2. CASE queue = <<1>>
    BY <2>2, ThreadAssumption
  <2> QED BY <2>1, <2>2 DEF Init, Started, NotStarted
<1>2. pc \in PlacesOf(call)
  BY DEF Init, PlacesOf
<1> QED BY <1>1, <1>2 DEF Init, Started, NotStarted, TypeOK, WorkerLabel

LEMMA TypeWorker == TypeOK /\ Worker => TypeOK'
<1> SUFFICES ASSUME TypeOK, Worker PROVE TypeOK'
  OBVIOUS
<1> USE DEF TypeOK, WorkerLabel, WorkerAt, WorkerGoes, objectVars,
            callerVars, historyVars
<1>1. CASE WorkerLoad
  BY <1>1 DEF WorkerLoad
<1>2. CASE WorkerPark
  BY <1>2 DEF WorkerPark
<1>3. CASE WorkerPeek
  BY <1>3 DEF WorkerPeek
<1>4. CASE WorkerPeeked
  BY <1>4 DEF WorkerPeeked
<1>5. CASE WorkerSettle
  BY <1>5 DEF WorkerSettle
<1>6. CASE WorkerPop
  BY <1>6 DEF WorkerPop
<1>7. CASE WorkerPopped
  <2>1. CASE queue = <<>>
    BY <1>7, <2>1 DEF WorkerPopped
  <2>2. CASE queue # <<>>
    <3>1. Head(queue) \in Nat /\ Tail(queue) \in Seq(Nat)
          /\ Len(Tail(queue)) <= MaxTasks
      BY <2>2, HeadTailProperties, LenProperties, ThreadAssumption
    <3> QED BY <1>7, <2>2, <3>1 DEF WorkerPopped
  <2> QED BY <2>1, <2>2
<1>8. CASE WorkerFinish
  BY <1>8 DEF WorkerFinish
<1>9. CASE WorkerFault
  BY <1>9 DEF WorkerFault
<1> QED BY <1>1, <1>2, <1>3, <1>4, <1>5, <1>6, <1>7, <1>8, <1>9 DEF Worker

LEMMA TypeCaller == TypeOK /\ (CallStep \/ NewCall) => TypeOK'
<1> SUFFICES ASSUME TypeOK, CallStep \/ NewCall PROVE TypeOK'
  OBVIOUS
<1> USE ThreadAssumption
        DEF TypeOK, CallerAt, Goes, Return, Call, AfterSuspend, PlacesOf,
            Method, KernelResumes, KernelSuspends, KernelRefuses, Destroyed,
            objectVars, workerVars, historyVars
<1>1. CASE Submit
  BY <1>1 DEF Submit
<1>2. CASE SubmitFull
  BY <1>2 DEF SubmitFull
<1>3. CASE SubmitPush
  <2>1. accepted' \in Nat
    BY <1>3 DEF SubmitPush
  <2>2. queue' \in Seq(Nat) /\ Len(queue') <= MaxTasks
    BY <1>3, <2>1, AppendProperties DEF SubmitPush
  <2> QED BY <1>3, <2>1, <2>2 DEF SubmitPush
<1>4. CASE Resume
  BY <1>4 DEF Resume
<1>5. CASE ResumeLoad
  BY <1>5 DEF ResumeLoad
<1>6. CASE ResumeSet
  BY <1>6 DEF ResumeSet
<1>7. CASE ResumeOs
  BY <1>7 DEF ResumeOs
<1>8. CASE Suspend
  BY <1>8 DEF Suspend
<1>9. CASE SuspendLoad
  BY <1>9 DEF SuspendLoad
<1>10. CASE SuspendSet
  BY <1>10 DEF SuspendSet
<1>11. CASE SuspendOs
  BY <1>11 DEF SuspendOs
<1>12. CASE Terminate
  BY <1>12 DEF Terminate
<1>13. CASE Joinable
  BY <1>13 DEF Joinable
<1>14. CASE TidyLoad
  BY <1>14 DEF TidyLoad
<1>15. CASE TidySet
  BY <1>15 DEF TidySet
<1>16. CASE TidyResume
  BY <1>16 DEF TidyResume
<1>17. CASE WaitForExit
  BY <1>17 DEF WaitForExit
<1>18. CASE ClearState
  BY <1>18 DEF ClearState
<1>19. CASE ClearQueue
  <2>1. queue' \in Seq(Nat) /\ Len(queue') <= MaxTasks
    BY <1>19, EmptySeq DEF ClearQueue
  <2>2. discarded' \subseteq Nat
    BY <1>19, RangeOfSeq DEF ClearQueue
  <2> QED BY <1>19, <2>1, <2>2 DEF ClearQueue
<1> QED BY <1>1, <1>2, <1>3, <1>4, <1>5, <1>6, <1>7, <1>8, <1>9, <1>10,
           <1>11, <1>12, <1>13, <1>14, <1>15, <1>16, <1>17, <1>18, <1>19
        DEF CallStep, NewCall

LEMMA TypeNext == TypeOK /\ [Next]_vars => TypeOK'
<1>1. TypeOK /\ UNCHANGED vars => TypeOK'
  BY DEF TypeOK, vars, objectVars, workerVars, callerVars, historyVars
<1> QED BY <1>1, TypeWorker, TypeCaller DEF Next

\* Every reachable state of a thread is well-typed and the caller is where the
\* method it called can be (thread.cpp:121-242).
THEOREM TypeCorrect == Spec => []TypeOK
BY TypeInit, TypeNext, PTL DEF Spec

-----------------------------------------------------------------------------
(* The suspend count.  suspend() acts on a worker whose state is `working',*)
(* and only resume() and a failed suspend() make it so: such a worker was  *)
(* suspended at most once, so that one more call makes two.  The worker adds *)
(* to a count of 0 only.                                                   *)

CountInv ==
  /\ suspends <= 2
  /\ pc \in {"suspendSet", "suspendOs"} => suspends <= 1
  /\ state = "working" /\ pc # "resumeOs" => suspends <= 1
  /\ pc = "suspendOs" => state # "working"

LEMMA CountInit == Init => CountInv
BY DEF Init, CountInv

LEMMA CountWorker == TypeOK /\ CountInv /\ Worker => CountInv'
BY DEF TypeOK, CountInv, Worker, WorkerAt, WorkerGoes, objectVars, callerVars,
       historyVars, WorkerLoad, WorkerPark, WorkerPeek, WorkerPeeked,
       WorkerSettle, WorkerPop, WorkerPopped, WorkerFinish, WorkerFault

LEMMA CountCaller ==
  TypeOK /\ CountInv /\ (CallStep \/ NewCall) => CountInv'
<1> SUFFICES ASSUME TypeOK, CountInv, CallStep \/ NewCall PROVE CountInv'
  OBVIOUS
<1>1. suspends \in Nat
  BY DEF TypeOK
<1> USE <1>1 DEF CountInv, CallerAt, Goes, Return, Call, AfterSuspend,
            KernelResumes, KernelSuspends, KernelRefuses, Destroyed,
            objectVars, workerVars, historyVars
<1>2. CASE NewCall
  BY <1>2 DEF NewCall, Submit, Resume, Suspend, Terminate
<1>3. CASE SubmitFull \/ SubmitPush
  BY <1>3 DEF SubmitFull, SubmitPush
<1>4. CASE ResumeLoad \/ ResumeSet \/ ResumeOs
  BY <1>4 DEF ResumeLoad, ResumeSet, ResumeOs
<1>5. CASE SuspendLoad \/ SuspendSet \/ SuspendOs
  BY <1>5 DEF SuspendLoad, SuspendSet, SuspendOs
<1>6. CASE Joinable \/ TidyLoad \/ TidySet
  BY <1>6 DEF Joinable, TidyLoad, TidySet
<1>7. CASE TidyResume
  BY <1>7 DEF TidyResume
<1>8. CASE WaitForExit \/ ClearState \/ ClearQueue
  BY <1>8 DEF WaitForExit, ClearState, ClearQueue
<1> QED BY <1>2, <1>3, <1>4, <1>5, <1>6, <1>7, <1>8 DEF CallStep

\* The worker's suspend count never exceeds 2, whatever methods the caller uses
\* and however they interleave with the worker (thread.cpp:38-67, 211-242).
THEOREM SuspendCount == Spec => []SuspendCountBounded
<1>1. TypeOK /\ CountInv /\ [Next]_vars => CountInv'
  <2>1. CountInv /\ UNCHANGED vars => CountInv'
    BY DEF CountInv, vars, objectVars, workerVars, callerVars
  <2> QED BY <2>1, CountWorker, CountCaller DEF Next
<1>2. CountInv => SuspendCountBounded
  BY DEF CountInv, SuspendCountBounded
<1> QED BY CountInit, TypeCorrect, <1>1, <1>2, PTL DEF Spec

-----------------------------------------------------------------------------
(* Faults.  As long as the caller waits for the worker's exit before it    *)
(* clears the queue and before the object goes, neither happens under a    *)
(* worker that could still look at them.                                   *)

WorkerGone == wpc \in {"none", "exited"}

FaultInv ==
  /\ wpc # "crashed"
  /\ wpc \in {"pop", "popping"} => queue # <<>>
  /\ pc \in {"clearState", "clearQueue"} => WorkerGone
  /\ handle = "closed" => WorkerGone
  /\ state = "terminated" => WorkerGone \/ pc \in {"tidyResume", "wait"}
  /\ ~alive => WorkerGone

LEMMA FaultInit == Init => FaultInv
BY DEF Init, Started, NotStarted, FaultInv, WorkerGone

LEMMA FaultWorker == TypeOK /\ FaultInv /\ Worker => FaultInv'
BY DEF TypeOK, FaultInv, WorkerGone, Worker, WorkerAt, WorkerGoes, objectVars,
       callerVars, historyVars, WorkerLoad, WorkerPark, WorkerPeek,
       WorkerPeeked, WorkerSettle, WorkerPop, WorkerPopped, WorkerFinish,
       WorkerFault

LEMMA FaultCaller ==
  ASSUME "terminate" \notin Methods
  PROVE  TypeOK /\ FaultInv /\ (CallStep \/ NewCall) => FaultInv'
<1> SUFFICES ASSUME TypeOK, FaultInv, CallStep \/ NewCall PROVE FaultInv'
  OBVIOUS
<1>1. call # "terminate"
  BY DEF TypeOK
<1>2. alive \in BOOLEAN /\ queue \in Seq(Nat)
  BY DEF TypeOK
<1> USE <1>1, <1>2
    DEF FaultInv, WorkerGone, CallerAt, Goes, Return, Call, AfterSuspend,
        KernelResumes, KernelSuspends, KernelRefuses, Destroyed,
        objectVars, workerVars, historyVars
<1>3. CASE NewCall
  BY <1>3 DEF NewCall, Submit, Resume, Suspend, Terminate
<1>4. CASE SubmitFull \/ SubmitPush
  BY <1>4, AppendProperties DEF SubmitFull, SubmitPush
<1>5. CASE ResumeLoad \/ ResumeSet \/ ResumeOs
  BY <1>5 DEF ResumeLoad, ResumeSet, ResumeOs
<1>6. CASE SuspendLoad \/ SuspendSet \/ SuspendOs
  BY <1>6 DEF SuspendLoad, SuspendSet, SuspendOs
<1>7. CASE Joinable \/ TidyLoad \/ TidySet
  BY <1>7 DEF Joinable, TidyLoad, TidySet
<1>8. CASE TidyResume
  BY <1>8 DEF TidyResume
<1>9. CASE WaitForExit \/ ClearState \/ ClearQueue
  BY <1>9 DEF WaitForExit, ClearState, ClearQueue
<1> QED BY <1>3, <1>4, <1>5, <1>6, <1>7, <1>8, <1>9 DEF CallStep

\* A caller that terminates the thread only through terminate_and_wait() or the
\* destructor never sees the worker call a null task or use freed storage.
THEOREM NoFault ==
  ASSUME "terminate" \notin Methods
  PROVE  Spec => []WorkerNeverFaults
<1>1. TypeOK /\ FaultInv /\ [Next]_vars => FaultInv'
  <2>1. FaultInv /\ UNCHANGED vars => FaultInv'
    BY DEF FaultInv, WorkerGone, vars, objectVars, workerVars, callerVars
  <2> QED BY <2>1, FaultWorker, FaultCaller DEF Next
<1>2. FaultInv => WorkerNeverFaults
  BY DEF FaultInv, WorkerNeverFaults
<1> QED BY FaultInit, TypeCorrect, <1>1, <1>2, PTL DEF Spec

-----------------------------------------------------------------------------
(* Refinement.  A pop is the start of a task, the end of its run the       *)
(* finish, a push the acceptance and clear() the discarding; every other   *)
(* step is a stuttering step of TaskRunner.  A push never drops its task,  *)
(* because only the worker touches the queue between full() and push(), and*)
(* it takes tasks away.                                                    *)

RunInv ==
  /\ current # 0 <=> wpc = "run"
  /\ queue \in Seq(Nat \ {0})
  /\ pc = "submitPush" => Len(queue) < MaxTasks

LEMMA RunInit == Init => RunInv
<1> SUFFICES ASSUME Init PROVE RunInv
  OBVIOUS
<1>1. queue \in Seq(Nat \ {0})
  <2>1. CASE queue = <<>>
    BY <2>1, EmptySeq
  <2>2. CASE queue = <<1>>
    BY <2>2
  <2> QED BY <2>1, <2>2 DEF Init, Started, NotStarted
<1> QED BY <1>1 DEF Init, Started, NotStarted, RunInv

LEMMA RunWorker == TypeOK /\ RunInv /\ Worker => RunInv'
<1> SUFFICES ASSUME TypeOK, RunInv, Worker PROVE RunInv'
  OBVIOUS
<1> USE DEF RunInv, WorkerAt, WorkerGoes, objectVars, callerVars
<1>1. CASE WorkerPopped
  <2>1. CASE queue = <<>>
    BY <1>1, <2>1 DEF WorkerPopped
  <2>2. CASE queue # <<>>
    <3>1. /\ Head(queue) \in Nat \ {0} /\ Tail(queue) \in Seq(Nat \ {0})
          /\ Len(Tail(queue)) = Len(queue) - 1
      BY <2>2, HeadTailProperties
    <3>2. current' # 0 /\ wpc' = "run" /\ pc' = pc
          /\ queue' = Tail(queue)
      BY <1>1, <2>2, <3>1 DEF WorkerPopped
    <3>3. Len(queue) \in Nat /\ MaxTasks \in Nat
      BY LenProperties, ThreadAssumption
    <3> QED BY <3>1, <3>2, <3>3
  <2> QED BY <2>1, <2>2
<1>2. CASE Worker /\ ~WorkerPopped
  BY <1>2 DEF Worker, WorkerLoad, WorkerPark, WorkerPeek, WorkerPeeked,
       WorkerSettle, WorkerPop, WorkerFinish, WorkerFault, TypeOK
<1> QED BY <1>1, <1>2

LEMMA RunCaller == TypeOK /\ RunInv /\ (CallStep \/ NewCall) => RunInv'
<1> SUFFICES ASSUME TypeOK, RunInv, CallStep \/ NewCall PROVE RunInv'
  OBVIOUS
<1> USE DEF RunInv, CallerAt, Goes, Return, Call, AfterSuspend,
            KernelResumes, KernelSuspends, KernelRefuses, Destroyed,
            objectVars, workerVars, historyVars
<1>1. CASE NewCall
  BY <1>1 DEF NewCall, Submit, Resume, Suspend, Terminate
<1>2. CASE SubmitFull
  <2>1. Len(queue) <= MaxTasks /\ Len(queue) \in Nat
    BY LenProperties DEF TypeOK
  <2> QED BY <1>2, <2>1, ThreadAssumption DEF SubmitFull
<1>3. CASE SubmitPush
  <2>1. accepted' \in Nat \ {0}
    BY <1>3 DEF SubmitPush, TypeOK
  <2>2. queue' \in Seq(Nat \ {0})
    BY <1>3, <2>1, AppendProperties DEF SubmitPush
  <2> QED BY <1>3, <2>2 DEF SubmitPush
<1>4. CASE ResumeLoad \/ ResumeSet \/ ResumeOs
  BY <1>4 DEF ResumeLoad, ResumeSet, ResumeOs
<1>5. CASE SuspendLoad \/ SuspendSet \/ SuspendOs
  BY <1>5 DEF SuspendLoad, SuspendSet, SuspendOs
<1>6. CASE Joinable \/ TidyLoad \/ TidySet
  BY <1>6 DEF Joinable, TidyLoad, TidySet
<1>7. CASE TidyResume
  BY <1>7 DEF TidyResume
<1>8. CASE WaitForExit \/ ClearState
  BY <1>8 DEF WaitForExit, ClearState
<1>9. CASE ClearQueue
  BY <1>9, EmptySeq DEF ClearQueue
<1> QED BY <1>1, <1>2, <1>3, <1>4, <1>5, <1>6, <1>7, <1>8, <1>9 DEF CallStep

LEMMA RefinementInit == Init => Runner!Init
BY DEF Init, Started, NotStarted, Runner!Init

LEMMA RefinementWorker ==
  TypeOK /\ RunInv /\ Worker => [Runner!Next]_(Runner!vars)
<1> SUFFICES ASSUME TypeOK, RunInv, Worker
             PROVE  [Runner!Next]_(Runner!vars)
  OBVIOUS
<1> USE DEF WorkerAt, WorkerGoes, objectVars, callerVars, historyVars
<1>1. CASE WorkerPopped
  <2>1. CASE queue = <<>>
    BY <1>1, <2>1 DEF WorkerPopped, Runner!vars
  <2>2. CASE queue # <<>>
    BY <1>1, <2>2 DEF WorkerPopped, RunInv, Runner!Next, Runner!Start
  <2> QED BY <2>1, <2>2
<1>2. CASE WorkerFinish
  BY <1>2 DEF WorkerFinish, RunInv, Runner!Next, Runner!Finish
<1>3. CASE \/ WorkerLoad \/ WorkerPark \/ WorkerPeek \/ WorkerPeeked
           \/ WorkerSettle \/ WorkerPop \/ WorkerFault
  BY <1>3 DEF WorkerLoad, WorkerPark, WorkerPeek, WorkerPeeked, WorkerSettle,
       WorkerPop, WorkerFault, Runner!vars
<1> QED BY <1>1, <1>2, <1>3 DEF Worker

LEMMA RefinementCaller ==
  TypeOK /\ RunInv /\ (CallStep \/ NewCall) => [Runner!Next]_(Runner!vars)
<1> SUFFICES ASSUME TypeOK, RunInv, CallStep \/ NewCall
             PROVE  [Runner!Next]_(Runner!vars)
  OBVIOUS
<1> USE DEF CallerAt, objectVars, workerVars, historyVars
<1>1. CASE NewCall
  BY <1>1 DEF NewCall, Submit, Resume, Suspend, Terminate, Runner!vars
<1>2. CASE SubmitPush
  BY <1>2 DEF SubmitPush, RunInv, Runner!Next, Runner!Accept
<1>3. CASE ClearQueue
  <2>1. /\ discarded' = discarded \cup Range(queue)
        /\ queue' = <<>>
        /\ UNCHANGED <<accepted, current, finished>>
    BY <1>3 DEF ClearQueue
  <2> QED BY <2>1 DEF Runner!Next, Runner!Discard, Runner!Range, Range
<1>4. CASE SubmitFull \/ ResumeLoad \/ ResumeSet \/ ResumeOs
  BY <1>4 DEF SubmitFull, ResumeLoad, ResumeSet, ResumeOs, Runner!vars
<1>5. CASE SuspendLoad \/ SuspendSet \/ SuspendOs
  BY <1>5 DEF SuspendLoad, SuspendSet, SuspendOs, Runner!vars
<1>6. CASE Joinable \/ TidyLoad \/ TidySet \/ TidyResume
  BY <1>6 DEF Joinable, TidyLoad, TidySet, TidyResume, Runner!vars
<1>7. CASE WaitForExit \/ ClearState
  BY <1>7 DEF WaitForExit, ClearState, Runner!vars
<1> QED BY <1>1, <1>2, <1>3, <1>4, <1>5, <1>6, <1>7 DEF CallStep

\* A thread implements a TaskRunner: whatever is suspended, resumed or
\* terminated when, the tasks that submit_task() accepted are started in order,
\* at most once each, and leave the queue otherwise only all together
\* (thread.cpp:38-67, 173-208; shared_queue.hpp:40-111).
THEOREM Refinement == Spec => Promise
<1>1. TypeOK /\ RunInv /\ [Next]_vars => RunInv'
  <2>1. RunInv /\ UNCHANGED vars => RunInv'
    BY DEF RunInv, vars, objectVars, workerVars, callerVars
  <2> QED BY <2>1, RunWorker, RunCaller DEF Next
<1>2. TypeOK /\ RunInv /\ [Next]_vars => [Runner!Next]_(Runner!vars)
  <2>1. UNCHANGED vars => UNCHANGED Runner!vars
    BY DEF vars, objectVars, workerVars, historyVars, Runner!vars
  <2> QED BY <2>1, RefinementWorker, RefinementCaller DEF Next
<1> QED BY RunInit, RefinementInit, TypeCorrect, <1>1, <1>2, PTL
        DEF Spec, Promise, Runner!Spec

-----------------------------------------------------------------------------
(* The promise of TaskRunner, for the queue and current task of a thread.  *)

\* The elements of a sequence after the two queue operations.
LEMMA RangeOfAppend ==
  ASSUME NEW S, NEW s \in Seq(S), NEW e \in S
  PROVE  Range(Append(s, e)) = Range(s) \cup {e}
<1> DEFINE t == Append(s, e)
<1>1. t \in Seq(S)
  OBVIOUS
<1>2. Range(s) = {s[i] : i \in 1..Len(s)} /\ Range(t) = {t[i] : i \in 1..Len(t)}
  BY <1>1, RangeEquality
<1>3. /\ Len(t) = Len(s) + 1 /\ t[Len(s) + 1] = e
      /\ \A i \in 1..Len(s) : t[i] = s[i]
  OBVIOUS
<1>4. Len(s) \in Nat
  OBVIOUS
<1> HIDE DEF t
<1>5. \A x : (\E i \in 1..Len(t) : x = t[i]) <=> (x = e \/ \E i \in 1..Len(s) : x = s[i])
  BY <1>3, <1>4
<1>6. Range(t) = Range(s) \cup {e}
  BY <1>2, <1>5
<1> QED BY <1>6 DEF t

LEMMA RangeOfTail ==
  ASSUME NEW S, NEW s \in Seq(S), s # <<>>
  PROVE  Range(s) = {Head(s)} \cup Range(Tail(s))
<1> DEFINE t == Tail(s)
<1>1. /\ t \in Seq(S) /\ Len(t) = Len(s) - 1
      /\ \A i \in 1..Len(t) : t[i] = s[i + 1]
  OBVIOUS
<1>2. Range(s) = {s[i] : i \in 1..Len(s)} /\ Range(t) = {t[i] : i \in 1..Len(t)}
  BY <1>1, RangeEquality
<1>3. Len(s) \in Nat \ {0} /\ Head(s) = s[1]
  BY EmptySeq
<1> HIDE DEF t
<1>4. \A i \in 1..Len(s) : i = 1 \/ (i - 1 \in 1..Len(t) /\ s[i] = t[i - 1])
  BY <1>1, <1>3
<1>5. \A i \in 1..Len(t) : i + 1 \in 1..Len(s) /\ s[i + 1] = t[i]
  BY <1>1, <1>3
<1>6. \A x : (\E i \in 1..Len(s) : x = s[i])
               <=> (x = Head(s) \/ \E i \in 1..Len(t) : x = t[i])
  <2>1. ASSUME NEW i \in 1..Len(s)
        PROVE  s[i] = Head(s) \/ \E j \in 1..Len(t) : s[i] = t[j]
    BY <1>3, <1>4
  <2>2. ASSUME NEW j \in 1..Len(t)
        PROVE  \E i \in 1..Len(s) : t[j] = s[i]
    BY <1>5
  <2>3. \E i \in 1..Len(s) : Head(s) = s[i]
    BY <1>3
  <2> QED BY <2>1, <2>2, <2>3
<1>7. Range(s) = {Head(s)} \cup Range(t)
  BY <1>2, <1>6
<1> QED BY <1>7 DEF t

LEMMA RunnerRange == \A s : Runner!Range(s) = Range(s)
BY DEF Range, Runner!Range

LEMMA RunnerTypeInit == Runner!Init => Runner!TypeOK
<1> SUFFICES ASSUME Runner!Init PROVE Runner!TypeOK
  OBVIOUS
<1>1. queue \in Seq(1..accepted) /\ Len(queue) <= 1
  <2>1. CASE accepted = 0
    BY <2>1, EmptySeq DEF Runner!Init
  <2>2. CASE accepted = 1
    BY <2>2 DEF Runner!Init
  <2> QED BY <2>1, <2>2 DEF Runner!Init
<1> QED BY <1>1, ThreadAssumption DEF Runner!Init, Runner!TypeOK

LEMMA RunnerTypeNext ==
  Runner!TypeOK /\ [Runner!Next]_(Runner!vars) => Runner!TypeOK'
<1> SUFFICES ASSUME Runner!TypeOK, [Runner!Next]_(Runner!vars)
             PROVE  Runner!TypeOK'
  OBVIOUS
<1> USE DEF Runner!TypeOK
<1>1. CASE Runner!Accept
  <2>1. 1..accepted \subseteq 1..accepted' /\ accepted' \in Nat
    BY <1>1 DEF Runner!Accept
  <2>2. queue \in Seq(1..accepted')
    BY <2>1
  <2>3. queue' \in Seq(1..accepted') /\ Len(queue') <= MaxTasks
    BY <1>1, <2>1, <2>2, AppendProperties, LenProperties, ThreadAssumption
       DEF Runner!Accept
  <2> QED BY <1>1, <2>1, <2>3 DEF Runner!Accept
<1>2. CASE Runner!Start
  <2>1. queue' \in Seq(1..accepted) /\ Len(queue') <= MaxTasks
    BY <1>2, HeadTailProperties, LenProperties, ThreadAssumption DEF Runner!Start
  <2>2. current' \in 1..accepted
    BY <1>2, HeadTailProperties DEF Runner!Start
  <2> QED BY <1>2, <2>1, <2>2 DEF Runner!Start
<1>3. CASE Runner!Finish
  BY <1>3 DEF Runner!Finish
<1>4. CASE Runner!Discard
  <2>1. Range(queue) \subseteq 1..accepted
    BY RangeOfSeq
  <2>2. queue' \in Seq(1..accepted) /\ Len(queue') = 0
    BY <1>4, EmptySeq DEF Runner!Discard
  <2>3. UNCHANGED <<accepted, current, finished>>
    BY <1>4 DEF Runner!Discard
  <2>4. discarded' \subseteq 1..accepted
    BY <1>4, <2>1, RunnerRange DEF Runner!Discard
  <2> QED BY <2>2, <2>3, <2>4, ThreadAssumption
<1>5. CASE UNCHANGED Runner!vars
  BY <1>5 DEF Runner!vars
<1> QED BY <1>1, <1>2, <1>3, <1>4, <1>5 DEF Runner!Next

LEMMA RunnerOrderedNext ==
  Runner!TypeOK /\ Runner!Ordered /\ [Runner!Next]_(Runner!vars) => Runner!Ordered'
<1> SUFFICES ASSUME Runner!TypeOK, Runner!Ordered, [Runner!Next]_(Runner!vars)
             PROVE  Runner!Ordered'
  OBVIOUS
<1> USE DEF Runner!TypeOK, Runner!Ordered
<1>1. CASE Runner!Accept
  <2>1. /\ Len(queue') = Len(queue) + 1
        /\ queue'[Len(queue) + 1] = accepted + 1
        /\ \A i \in 1..Len(queue) : queue'[i] = queue[i]
        /\ \A i \in 1..Len(queue) : queue[i] <= accepted
    BY <1>1 DEF Runner!Accept
  <2> QED BY <1>1, <2>1 DEF Runner!Accept
<1>2. CASE Runner!Start
  <2>1. /\ Len(queue') = Len(queue) - 1
        /\ current' = queue[1]
        /\ \A i \in 1..Len(queue') : queue'[i] = queue[i + 1]
    BY <1>2 DEF Runner!Start
  <2> QED BY <1>2, <2>1 DEF Runner!Start
<1>3. CASE Runner!Finish
  BY <1>3 DEF Runner!Finish
<1>4. CASE Runner!Discard
  BY <1>4 DEF Runner!Discard
<1>5. CASE UNCHANGED Runner!vars
  BY <1>5 DEF Runner!vars
<1> QED BY <1>1, <1>2, <1>3, <1>4, <1>5 DEF Runner!Next

LEMMA RunnerConservationNext ==
  /\ Runner!TypeOK /\ Runner!Ordered /\ Runner!Conservation
  /\ [Runner!Next]_(Runner!vars)
  => Runner!Conservation'
<1> SUFFICES ASSUME Runner!TypeOK, Runner!Ordered, Runner!Conservation,
                    [Runner!Next]_(Runner!vars)
             PROVE  Runner!Conservation'
  OBVIOUS
<1> USE DEF Runner!TypeOK, Runner!Conservation, Runner!Started
<1>1. CASE Runner!Accept
  <2>1. Range(queue') = Range(queue) \cup {accepted + 1}
    <3>1. queue \in Seq(Nat) /\ accepted + 1 \in Nat
      OBVIOUS
    <3> QED BY <1>1, <3>1, RangeOfAppend DEF Runner!Accept
  <2>2. 1..(accepted + 1) = (1..accepted) \cup {accepted + 1}
    OBVIOUS
  <2>3. accepted + 1 \notin 1..accepted
    OBVIOUS
  <2> QED BY <1>1, <2>1, <2>2, <2>3, RunnerRange DEF Runner!Accept
<1>2. CASE Runner!Start
  <2>1. Range(queue) = {current'} \cup Range(queue')
    BY <1>2, RangeOfTail DEF Runner!Start
  <2>2. current' \notin Range(queue')
    <3>1. \A i \in 1..Len(queue') : current' < queue'[i]
      BY <1>2 DEF Runner!Start, Runner!Ordered
    <3>2. DOMAIN queue' = 1..Len(queue')
      BY <1>2 DEF Runner!Start
    <3>3. current' \in Nat
      BY <1>2 DEF Runner!Start
    <3> QED BY <3>1, <3>2, <3>3 DEF Range
  <2>3. current = 0 /\ current' # 0
    BY <1>2 DEF Runner!Start
  <2> QED BY <1>2, <2>1, <2>2, <2>3, RunnerRange DEF Runner!Start
<1>3. CASE Runner!Finish
  BY <1>3 DEF Runner!Finish
<1>4. CASE Runner!Discard
  <2>1. Range(<<>>) = {}
    BY DEF Range
  <2> QED BY <1>4, <2>1, RunnerRange DEF Runner!Discard
<1>5. CASE UNCHANGED Runner!vars
  BY <1>5 DEF Runner!vars
<1> QED BY <1>1, <1>2, <1>3, <1>4, <1>5 DEF Runner!Next

RunnerInv == Runner!TypeOK /\ Runner!Ordered /\ Runner!Conservation

LEMMA RunnerInit == Runner!Init => RunnerInv
<1> SUFFICES ASSUME Runner!Init PROVE RunnerInv
  OBVIOUS
<1>1. Runner!TypeOK
  BY RunnerTypeInit
<1>2. Runner!Ordered
  BY DEF Runner!Init, Runner!Ordered
<1>3. Runner!Conservation
  BY DEF Runner!Init, Runner!Conservation, Runner!Started, Runner!Range
<1> QED BY <1>1, <1>2, <1>3 DEF RunnerInv

LEMMA RunnerNext == RunnerInv /\ [Runner!Next]_(Runner!vars) => RunnerInv'
BY RunnerTypeNext, RunnerOrderedNext, RunnerConservationNext DEF RunnerInv

\* A TaskRunner keeps the types of its variables, starts its tasks in the order
\* in which they were accepted, and loses or repeats none: whatever implements it
\* as the thread does (thread.cpp:173-208) inherits these three.
THEOREM PromiseKept ==
  Promise => [](Runner!TypeOK /\ Runner!Ordered /\ Runner!Conservation)
BY RunnerInit, RunnerNext, PTL DEF Promise, Runner!Spec, RunnerInv

\* The tasks of a thread start in the order in which they were submitted, for
\* every capacity of the queue and every pattern of kernel failures.
THEOREM Order == Spec => []TasksOrdered
BY Refinement, PromiseKept, PTL DEF TasksOrdered

\* No task that submit_task() accepted is lost, run twice, or discarded after it
\* started.
THEOREM NothingLost == Spec => []TasksConserved
BY Refinement, PromiseKept, PTL DEF TasksConserved
=============================================================================
