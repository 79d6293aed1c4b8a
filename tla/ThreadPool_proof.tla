-------------------------- MODULE ThreadPool_proof --------------------------
(***************************************************************************)
(* Proofs about ThreadPool, for any number of goroutines (at least one),   *)
(* tasks and channel slots.                                                *)
(***************************************************************************)
EXTENDS ThreadPool, TLAPS

\* Every task that is waiting or running has been submitted.
OnlySubmitted ==
  /\ \A i \in 1..Len(taskQueue) : taskQueue[i] <= submitted
  /\ \A w \in Worker : running[w] <= submitted

\* The channel is closed only after the last Submit.
ClosedAfterLast == phase # "submitting" => submitted = NumTasks

\* A goroutine leaves its range loop idle, on a closed and drained channel.
ExitedOnDrained ==
  \A w \in Worker \ wg :
    running[w] = NoTask /\ taskQueue = <<>> /\ phase # "submitting"

\* Shutdown returns only when the WaitGroup is at zero.
ReturnedAfterAll == phase = "returned" => wg = {}

IInv ==
  /\ TypeOK
  /\ TaskOwnedOnce
  /\ OnlySubmitted
  /\ ClosedAfterLast
  /\ ExitedOnDrained
  /\ ReturnedAfterAll

USE DEF Task, NoTask
-----------------------------------------------------------------------------
\* The invariant holds of the executor NewThreadPoolExecutor returns.
LEMMA InitIInv == Init => IInv
  BY PoolAssumption DEF Init, IInv, TypeOK, TaskOwnedOnce, OnlySubmitted, ClosedAfterLast,
     ExitedOnDrained, ReturnedAfterAll, Queued, Running

LEMMA NewIInv == NewThreadPoolExecutor => IInv'
  BY PoolAssumption DEF NewThreadPoolExecutor, IInv, TypeOK, TaskOwnedOnce, OnlySubmitted,
     ClosedAfterLast, ExitedOnDrained, ReturnedAfterAll, Queued, Running

\* Submit: the new task is larger than every task seen so far, so it is owned
\* by nobody else.
LEMMA SubmitIInv == IInv /\ Submit => IInv'
<1> SUFFICES ASSUME IInv, Submit PROVE IInv'
  OBVIOUS
<1> USE PoolAssumption DEF IInv, Submit
<1>1. /\ taskQueue' \in Seq(Task)
      /\ Len(taskQueue') = Len(taskQueue) + 1
      /\ \A i \in 1..Len(taskQueue) : taskQueue'[i] = taskQueue[i]
      /\ taskQueue'[Len(taskQueue) + 1] = submitted + 1
  BY DEF TypeOK
<1>2. TypeOK'
  BY <1>1 DEF TypeOK
<1>3. OnlySubmitted'
  <2>1. \A i \in 1..Len(taskQueue') : taskQueue'[i] <= submitted + 1
    <3> SUFFICES ASSUME NEW i \in 1..Len(taskQueue') PROVE taskQueue'[i] <= submitted + 1
      OBVIOUS
    <3>1. CASE i = Len(taskQueue) + 1
      BY <1>1, <3>1 DEF TypeOK
    <3>2. CASE i \in 1..Len(taskQueue)
      <4>1. taskQueue'[i] = taskQueue[i] /\ taskQueue[i] \in Task
        BY <1>1, <3>2 DEF TypeOK
      <4> QED BY <3>2, <4>1 DEF TypeOK, OnlySubmitted
    <3> QED BY <1>1, <3>1, <3>2 DEF TypeOK
  <2>2. \A w \in Worker : running[w] <= submitted + 1
    BY SMTT(30) DEF TypeOK, OnlySubmitted
  <2> QED BY <2>1, <2>2 DEF OnlySubmitted
<1>4. TaskOwnedOnce'
  <2>1. \A v, w \in Worker : running'[v] = running'[w] /\ running'[v] # NoTask => v = w
    BY DEF TaskOwnedOnce
  <2>2. \A i, j \in 1..Len(taskQueue') : taskQueue'[i] = taskQueue'[j] => i = j
    <3>1. \A i \in 1..Len(taskQueue) : taskQueue[i] # submitted + 1
      BY DEF TypeOK, OnlySubmitted
    <3> QED BY <1>1, <3>1 DEF TypeOK, TaskOwnedOnce
  <2>3. ASSUME NEW t \in Task, Queued(t)', Running(t)' PROVE FALSE
    <3>1. PICK w \in Worker : running[w] = t
      BY <2>3 DEF Running
    <3>2. t <= submitted
      BY <3>1 DEF OnlySubmitted
    <3>3. PICK i \in 1..Len(taskQueue') : taskQueue'[i] = t
      BY <2>3 DEF Queued
    <3>4. i \in 1..Len(taskQueue) /\ taskQueue[i] = t
      BY <1>1, <3>2, <3>3 DEF TypeOK
    <3> QED BY <3>1, <3>4 DEF TaskOwnedOnce, Queued, Running
  <2> QED BY <2>1, <2>2, <2>3 DEF TaskOwnedOnce
<1>5. ClosedAfterLast' /\ ExitedOnDrained' /\ ReturnedAfterAll'
  BY DEF TypeOK, ClosedAfterLast, ExitedOnDrained, ReturnedAfterAll
<1> QED BY <1>2, <1>3, <1>4, <1>5

\* A receive moves the head of the channel to an idle goroutine.
LEMMA TakeIInv == ASSUME NEW w \in Worker PROVE IInv /\ Take(w) => IInv'
<1> SUFFICES ASSUME IInv, Take(w) PROVE IInv'
  OBVIOUS
<1> USE PoolAssumption DEF IInv, Take
<1>1. /\ taskQueue' \in Seq(Task)
      /\ Len(taskQueue') = Len(taskQueue) - 1
      /\ \A i \in 1..Len(taskQueue') : taskQueue'[i] = taskQueue[i + 1]
      /\ Head(taskQueue) = taskQueue[1]
      /\ Len(taskQueue) > 0
      /\ taskQueue[1] \in Task
  BY DEF TypeOK
<1>2. TypeOK'
  BY <1>1 DEF TypeOK
<1>3. OnlySubmitted'
  BY <1>1 DEF TypeOK, OnlySubmitted
<1>4. TaskOwnedOnce'
  <2>1. \A v \in Worker : running[v] # taskQueue[1]
    BY <1>1 DEF TypeOK, TaskOwnedOnce, Queued, Running
  <2>2. \A i \in 1..Len(taskQueue') : taskQueue'[i] # taskQueue[1]
    BY <1>1 DEF TaskOwnedOnce
  <2>3. \A u, v \in Worker : running'[u] = running'[v] /\ running'[u] # NoTask => u = v
    BY <1>1, <2>1 DEF TypeOK, TaskOwnedOnce
  <2>4. \A i, j \in 1..Len(taskQueue') : taskQueue'[i] = taskQueue'[j] => i = j
    BY <1>1 DEF TypeOK, TaskOwnedOnce
  <2>5. ASSUME NEW t \in Task, Queued(t)', Running(t)' PROVE FALSE
    BY <1>1, <2>2, <2>5, SMTT(30) DEF TypeOK, TaskOwnedOnce, Queued, Running
  <2> QED BY <2>3, <2>4, <2>5 DEF TaskOwnedOnce
<1>5. ClosedAfterLast' /\ ExitedOnDrained' /\ ReturnedAfterAll'
  BY DEF TypeOK, ClosedAfterLast, ExitedOnDrained, ReturnedAfterAll
<1> QED BY <1>2, <1>3, <1>4, <1>5

\* The steps that leave the channel alone.
LEMMA OtherIInv ==
  ASSUME NEW w \in Worker
  PROVE  IInv /\ (CloseQueue \/ Wait \/ Finish(w) \/ Exit(w)) => IInv'
<1> SUFFICES ASSUME IInv, CloseQueue \/ Wait \/ Finish(w) \/ Exit(w) PROVE IInv'
  OBVIOUS
<1> USE PoolAssumption DEF IInv
<1>1. CASE CloseQueue
  BY <1>1 DEF CloseQueue, TypeOK, TaskOwnedOnce, OnlySubmitted, ClosedAfterLast,
     ExitedOnDrained, ReturnedAfterAll, Queued, Running
<1>2. CASE Wait
  BY <1>2 DEF Wait, TypeOK, TaskOwnedOnce, OnlySubmitted, ClosedAfterLast,
     ExitedOnDrained, ReturnedAfterAll, Queued, Running
<1>3. CASE Finish(w)
  <2> USE <1>3 DEF Finish
  <2>1. TypeOK'
    BY DEF TypeOK
  <2>2. \A v \in Worker : running'[v] = running[v] \/ running'[v] = NoTask
    BY DEF TypeOK
  <2>3. TaskOwnedOnce'
    BY <2>2, SMTT(30) DEF TypeOK, TaskOwnedOnce, Queued, Running
  <2>4. OnlySubmitted' /\ ClosedAfterLast' /\ ReturnedAfterAll'
    BY <2>2 DEF TypeOK, OnlySubmitted, ClosedAfterLast, ReturnedAfterAll
  <2>5. ExitedOnDrained'
    BY <2>2 DEF TypeOK, ExitedOnDrained
  <2> QED BY <2>1, <2>3, <2>4, <2>5
<1>4. CASE Exit(w)
  BY <1>4 DEF Exit, TypeOK, TaskOwnedOnce, OnlySubmitted, ClosedAfterLast,
     ExitedOnDrained, ReturnedAfterAll, Queued, Running
<1> QED BY <1>1, <1>2, <1>3, <1>4

LEMMA NextIInv == IInv /\ [Next]_vars => IInv'
<1> SUFFICES ASSUME IInv, [Next]_vars PROVE IInv'
  OBVIOUS
<1>1. PICK v \in Worker : TRUE
  BY PoolAssumption
<1>2. CASE Submit
  BY <1>2, SubmitIInv
<1>3. CASE CloseQueue \/ Wait
  BY <1>1, <1>3, OtherIInv
<1>4. ASSUME NEW w \in Worker, Take(w) \/ Finish(w) \/ Exit(w) PROVE IInv'
  BY <1>4, TakeIInv, OtherIInv
<1>5. CASE UNCHANGED vars
  BY <1>5 DEF vars, IInv, TypeOK, TaskOwnedOnce, OnlySubmitted, ClosedAfterLast,
     ExitedOnDrained, ReturnedAfterAll, Queued, Running
<1> QED BY <1>2, <1>3, <1>4, <1>5 DEF Next

THEOREM Invariance == SafeSpec => []IInv
  BY InitIInv, NextIInv, PTL DEF SafeSpec

\* What the caller of Shutdown relies on: when it returns nothing of the batch
\* is waiting or running (worker.go:47-50).
THEOREM Drained == SafeSpec => []ShutdownDrains
<1>1. IInv => ShutdownDrains
  BY PoolAssumption DEF IInv, TypeOK, ClosedAfterLast, ExitedOnDrained, ReturnedAfterAll,
     ShutdownDrains, Queued, Running
<1> QED BY <1>1, Invariance, PTL

\* No task is executed by two goroutines or both waiting and running.
THEOREM OwnedOnce == SafeSpec => []TaskOwnedOnce
<1>1. IInv => TaskOwnedOnce
  BY DEF IInv
<1> QED BY <1>1, Invariance, PTL

\* The state stays well-formed: the channel within its capacity, a WaitGroup of
\* goroutines only, at most one task to a goroutine (worker.go:16-50).
THEOREM TypeCorrect == SafeSpec => []TypeOK
<1>1. IInv => TypeOK
  BY DEF IInv
<1> QED BY <1>1, Invariance, PTL

-----------------------------------------------------------------------------
\* What a step of the pool does to the tasks waiting and running decides what it
\* does to the batch: one task moves on, or none does.
LEMMA OneAdvances ==
  ASSUME NEW t \in Task, NEW from, NEW to,
         Progress(t) = from, Progress(t)' = to,
         \A u \in Task \ {t} : Progress(u)' = Progress(u),
         (phase = "returned")' = (phase = "returned")
  PROVE  Batch!Advance(t, from, to)
<1> DEFINE p == [u \in Task |-> Progress(u)]
<1>1. p[t] = from
  OBVIOUS
<1>2. p' = [p EXCEPT ![t] = to]
  <2>1. \A u \in Task : p'[u] = [p EXCEPT ![t] = to][u]
    OBVIOUS
  <2> QED BY <2>1
<1> QED BY <1>1, <1>2 DEF Batch!Advance

LEMMA NoneAdvances ==
  ASSUME \A u \in Task : Progress(u)' = Progress(u),
         (phase = "returned")' = (phase = "returned")
  PROVE  UNCHANGED Batch!vars
  BY DEF Batch!vars

LEMMA RefinesInit == Init => Batch!Init
<1> SUFFICES ASSUME Init PROVE Batch!Init
  OBVIOUS
<1>1. \A t \in Task : Progress(t) = "new"
  BY PoolAssumption DEF Init, Progress
<1> QED BY <1>1 DEF Init, Batch!Init

\* Submit accepts the next task.
LEMMA SubmitAcceptsOne ==
  ASSUME IInv, Submit
  PROVE  \E t \in Task :
           /\ Progress(t) = "new" /\ Progress(t)' = "accepted"
           /\ \A u \in Task \ {t} : Progress(u)' = Progress(u)
<1> USE PoolAssumption DEF IInv, Submit
<1>0. PICK t \in Task : t = submitted + 1
  BY DEF TypeOK
<1>1. /\ Len(taskQueue') = Len(taskQueue) + 1
      /\ \A i \in 1..Len(taskQueue) : taskQueue'[i] = taskQueue[i]
      /\ taskQueue'[Len(taskQueue) + 1] = t
      /\ Len(taskQueue) \in Nat
      /\ submitted \in Nat
      /\ submitted' = t
  BY <1>0 DEF TypeOK
<1>2. Progress(t) = "new"
  BY <1>0, <1>1 DEF Progress
<1>3. Progress(t)' = "accepted"
  <2>1. Queued(t)'
    BY <1>1 DEF Queued
  <2> QED BY <1>1, <2>1 DEF Progress
<1>4. ASSUME NEW u \in Task \ {t} PROVE Progress(u)' = Progress(u)
  <2>1. Queued(u)' <=> Queued(u)
    BY <1>1 DEF Queued
  <2>2. Running(u)' <=> Running(u)
    BY DEF Running
  <2>3. u > submitted' <=> u > submitted
    BY <1>0, <1>1
  <2> QED BY <2>1, <2>2, <2>3 DEF Progress
<1> QED BY <1>1, <1>2, <1>3, <1>4

LEMMA SubmitRefines == IInv /\ Submit => Batch!Next
<1> SUFFICES ASSUME IInv, Submit PROVE Batch!Next
  OBVIOUS
<1>1. PICK t \in Task : /\ Progress(t) = "new" /\ Progress(t)' = "accepted"
                        /\ \A u \in Task \ {t} : Progress(u)' = Progress(u)
  BY SubmitAcceptsOne
<1>2. (phase = "returned")' = (phase = "returned")
  BY DEF Submit
<1>3. Batch!Accept(t)
  BY <1>1, <1>2, OneAdvances DEF Batch!Accept
<1> QED BY <1>3 DEF Batch!Next

\* A receive starts the task at the head of the channel.
LEMMA TakeStartsOne ==
  ASSUME NEW w \in Worker, IInv, Take(w)
  PROVE  \E t \in Task :
           /\ Progress(t) = "accepted" /\ Progress(t)' = "running"
           /\ \A u \in Task \ {t} : Progress(u)' = Progress(u)
<1> USE PoolAssumption DEF IInv, Take
<1>0. PICK t \in Task : t = taskQueue[1]
  BY DEF TypeOK
<1>1. /\ Len(taskQueue') = Len(taskQueue) - 1
      /\ \A i \in 1..Len(taskQueue') : taskQueue'[i] = taskQueue[i + 1]
      /\ Head(taskQueue) = t
      /\ Len(taskQueue) \in Nat \ {0}
      /\ t <= submitted
      /\ submitted \in Nat
  BY <1>0 DEF TypeOK, OnlySubmitted
<1>2. running[w] = NoTask /\ running' = [running EXCEPT ![w] = t]
  BY <1>1
<1>3. Progress(t) = "accepted"
  <2>1. Queued(t)
    BY <1>0, <1>1 DEF Queued
  <2> QED BY <1>1, <2>1 DEF Progress
<1>4. Progress(t)' = "running"
  <2>1. \A i \in 1..Len(taskQueue') : taskQueue'[i] # taskQueue[1]
    BY <1>1 DEF TaskOwnedOnce
  <2>3. ~Queued(t)'
    BY <1>0, <2>1 DEF Queued
  <2>2. Running(t)'
    BY <1>2 DEF Running, TypeOK
  <2> QED BY <1>1, <2>3, <2>2 DEF Progress
<1>5. ASSUME NEW u \in Task \ {t} PROVE Progress(u)' = Progress(u)
  <2>1. ASSUME Queued(u) PROVE Queued(u)'
    <3>1. PICK i \in 1..Len(taskQueue) : taskQueue[i] = u
      BY <2>1 DEF Queued
    <3>2. i - 1 \in 1..Len(taskQueue')
      BY <1>0, <1>1, <3>1
    <3>3. taskQueue'[i - 1] = u
      BY <1>1, <3>1, <3>2
    <3> QED BY <3>2, <3>3 DEF Queued
  <2>2. ASSUME Queued(u)' PROVE Queued(u)
    <3>1. PICK i \in 1..Len(taskQueue') : taskQueue'[i] = u
      BY <2>2 DEF Queued
    <3>2. i + 1 \in 1..Len(taskQueue) /\ taskQueue[i + 1] = u
      BY <1>1, <3>1
    <3> QED BY <3>2 DEF Queued
  <2>3. Running(u)' <=> Running(u)
    BY <1>2 DEF Running, TypeOK
  <2> QED BY <2>1, <2>2, <2>3 DEF Progress
<1> QED BY <1>3, <1>4, <1>5

LEMMA TakeRefines == ASSUME NEW w \in Worker PROVE IInv /\ Take(w) => Batch!Next
<1> SUFFICES ASSUME IInv, Take(w) PROVE Batch!Next
  OBVIOUS
<1>1. PICK t \in Task : /\ Progress(t) = "accepted" /\ Progress(t)' = "running"
                        /\ \A u \in Task \ {t} : Progress(u)' = Progress(u)
  BY TakeStartsOne
<1>2. (phase = "returned")' = (phase = "returned")
  BY DEF Take
<1>3. Batch!Start(t)
  BY <1>1, <1>2, OneAdvances DEF Batch!Start
<1> QED BY <1>3 DEF Batch!Next

\* The task a goroutine returns from was waiting nowhere and running nowhere
\* else, so it is finished.
LEMMA FinishEndsOne ==
  ASSUME NEW w \in Worker, IInv, Finish(w)
  PROVE  \E t \in Task :
           /\ t = running[w]
           /\ Progress(t) = "running" /\ Progress(t)' = "finished"
           /\ \A u \in Task \ {t} : Progress(u)' = Progress(u)
<1> USE PoolAssumption DEF IInv, Finish
<1>0. PICK t \in Task : t = running[w]
  BY DEF TypeOK
<1>1. t <= submitted /\ submitted \in Nat
  BY <1>0 DEF TypeOK, OnlySubmitted
<1>2. ~Queued(t) /\ Running(t)
  BY <1>0, <1>1 DEF Running, TaskOwnedOnce
<1>3. Progress(t) = "running"
  BY <1>1, <1>2 DEF Progress
<1>4. Progress(t)' = "finished"
  <2>1. ~Queued(t)'
    BY <1>2 DEF Queued
  <2>2. ~Running(t)'
    BY <1>0, <1>1 DEF Running, TypeOK, TaskOwnedOnce
  <2> QED BY <1>1, <2>1, <2>2 DEF Progress
<1>5. ASSUME NEW u \in Task \ {t} PROVE Progress(u)' = Progress(u)
  <2>1. Queued(u)' <=> Queued(u)
    BY DEF Queued
  <2>2. Running(u)' <=> Running(u)
    BY <1>0 DEF Running, TypeOK
  <2> QED BY <2>1, <2>2 DEF Progress
<1> QED BY <1>0, <1>3, <1>4, <1>5

LEMMA FinishRefines == ASSUME NEW w \in Worker PROVE IInv /\ Finish(w) => Batch!Next
<1> SUFFICES ASSUME IInv, Finish(w) PROVE Batch!Next
  OBVIOUS
<1>1. PICK t \in Task : /\ Progress(t) = "running" /\ Progress(t)' = "finished"
                        /\ \A u \in Task \ {t} : Progress(u)' = Progress(u)
  BY FinishEndsOne
<1>2. (phase = "returned")' = (phase = "returned")
  BY DEF Finish
<1>3. Batch!Finish(t)
  BY <1>1, <1>2, OneAdvances DEF Batch!Finish
<1> QED BY <1>3 DEF Batch!Next

\* wg.Wait returns to the caller when the last goroutine has left an empty
\* channel: the batch is joined.
LEMMA WaitRefines == IInv /\ Wait => Batch!Next
<1> SUFFICES ASSUME IInv, Wait PROVE Batch!Next
  OBVIOUS
<1> USE PoolAssumption DEF IInv, Wait
<1>1. submitted = NumTasks /\ taskQueue = <<>> /\ \A w \in Worker : running[w] = NoTask
  BY DEF ClosedAfterLast, ExitedOnDrained
<1>2. ASSUME NEW t \in Task PROVE Progress(t) = "finished" /\ Progress(t)' = Progress(t)
  <2>1. ~Queued(t) /\ ~Running(t) /\ ~(t > submitted)
    BY <1>1 DEF Queued, Running
  <2>2. (Queued(t)' <=> Queued(t)) /\ (Running(t)' <=> Running(t))
    BY DEF Queued, Running
  <2> QED BY <2>1, <2>2 DEF Progress
<1>3. Batch!Join
  BY <1>2 DEF Batch!Join, Batch!AllFinished
<1> QED BY <1>3 DEF Batch!Next

LEMMA StepRefines == IInv /\ [Next]_vars => [Batch!Next]_Batch!vars
<1> SUFFICES ASSUME IInv, [Next]_vars PROVE [Batch!Next]_Batch!vars
  OBVIOUS
<1>1. ASSUME CloseQueue \/ UNCHANGED vars \/ \E w \in Worker : Exit(w)
      PROVE  UNCHANGED Batch!vars
  <2>1. UNCHANGED <<taskQueue, submitted, running>>
    BY <1>1 DEF CloseQueue, Exit, vars
  <2>2. \A t \in Task : Progress(t)' = Progress(t)
    BY <2>1 DEF Progress, Queued, Running
  <2>3. (phase = "returned")' = (phase = "returned")
    BY <1>1 DEF CloseQueue, Exit, vars
  <2> QED BY <2>2, <2>3, NoneAdvances
<1> QED BY <1>1, SubmitRefines, TakeRefines, FinishRefines, WaitRefines DEF Next

-----------------------------------------------------------------------------
\* Facts for a caller whose tasks have a state of their own.
LEMMA NewIsNew ==
  ASSUME NewThreadPoolExecutor, NEW t \in Task PROVE Progress(t)' = "new"
  BY PoolAssumption DEF NewThreadPoolExecutor, Progress

LEMMA HeldIsRunning ==
  ASSUME IInv, NEW w \in Worker, running[w] # NoTask
  PROVE  \E t \in Task : t = running[w] /\ Progress(t) = "running"
<1>1. PICK t \in Task : t = running[w]
  BY DEF IInv, TypeOK
<1>2. t <= submitted /\ submitted \in Nat /\ Running(t)
  BY <1>1 DEF IInv, TypeOK, OnlySubmitted, Running
<1>3. ~Queued(t)
  BY <1>2 DEF IInv, TaskOwnedOnce
<1> QED BY PoolAssumption, <1>1, <1>2, <1>3 DEF Progress

LEMMA ReturnedIsDrained ==
  ASSUME IInv, phase = "returned"
  PROVE  /\ taskQueue = <<>> /\ \A w \in Worker : running[w] = NoTask
         /\ \A t \in Task : Progress(t) = "finished"
<1>1. submitted = NumTasks /\ taskQueue = <<>> /\ \A w \in Worker : running[w] = NoTask
  BY PoolAssumption DEF IInv, ClosedAfterLast, ExitedOnDrained, ReturnedAfterAll
<1>2. ASSUME NEW t \in Task PROVE Progress(t) = "finished"
  BY PoolAssumption, <1>1 DEF Progress, Queued, Running
<1> QED BY <1>1, <1>2

\* Only Finish ends a task or takes it from its goroutine.
LEMMA OthersEndNone ==
  ASSUME IInv, Submit \/ CloseQueue \/ Wait \/ (\E w \in Worker : Take(w) \/ Exit(w)),
         NEW t \in Task
  PROVE  /\ Progress(t)' = "finished" <=> Progress(t) = "finished"
         /\ Progress(t) = "running" => Progress(t)' = "running"
<1>1. CASE Submit
  BY <1>1, SubmitAcceptsOne
<1>2. ASSUME NEW w \in Worker, Take(w)
      PROVE  /\ Progress(t)' = "finished" <=> Progress(t) = "finished"
             /\ Progress(t) = "running" => Progress(t)' = "running"
  BY <1>2, TakeStartsOne
<1>3. ASSUME CloseQueue \/ Wait \/ \E w \in Worker : Exit(w) PROVE Progress(t)' = Progress(t)
  <2>1. UNCHANGED <<taskQueue, submitted, running>>
    BY <1>3 DEF CloseQueue, Wait, Exit
  <2> QED BY <2>1 DEF Progress, Queued, Running
<1> QED BY <1>1, <1>2, <1>3

-----------------------------------------------------------------------------
\* The pool keeps the promise of TaskBatch for any number of goroutines, tasks
\* and slots: every task is taken and executed once, and Shutdown returns only
\* after the last of them (worker.go:23-50).
THEOREM KeepsBatchPromise == SafeSpec => ImplementsTaskBatch
  BY Invariance, RefinesInit, StepRefines, PTL DEF SafeSpec, ImplementsTaskBatch, Batch!SafeSpec
=============================================================================
