----------------------------- MODULE ThreadPool -----------------------------
(***************************************************************************)
(* The ThreadPoolExecutor of vol3-service/internal/worker/worker.go: a     *)
(* buffered channel of closures, a fixed set of goroutines that range over *)
(* it, and a WaitGroup that Shutdown waits on.  One executor serves one    *)
(* batch: the caller submits every task, shuts the executor down and drops *)
(* it.  A task is named by its place in the caller's list, so tasks are    *)
(* 1..NumTasks and are submitted in that order.                            *)
(***************************************************************************)
EXTENDS Naturals, Sequences

CONSTANTS
  Worker,      \* the goroutines, numWorkers of them
  NumTasks,    \* how many tasks the caller submits
  QueueSize    \* capacity of the channel

\* ProcessVolExec asks for 6 workers and a channel as long as its plugin list.
\* With no worker at all wg.Wait returns at once and the tasks are lost.
ASSUME PoolAssumption ==
  /\ Worker # {}
  /\ NumTasks \in Nat
  /\ QueueSize \in Nat \ {0}

Task == 1..NumTasks
NoTask == 0

VARIABLES
  taskQueue,   \* contents of the channel
  submitted,   \* tasks 1..submitted have been passed to Submit
  phase,       \* the caller: "submitting", "shutdown" (channel closed), "returned"
  running,     \* running[w]: the task goroutine w is executing, or NoTask
  wg           \* goroutines that have not called wg.Done

vars == <<taskQueue, submitted, phase, running, wg>>

TypeOK ==
  /\ taskQueue \in Seq(Task)
  /\ Len(taskQueue) <= QueueSize
  /\ submitted \in 0..NumTasks
  /\ phase \in {"submitting", "shutdown", "returned"}
  /\ running \in [Worker -> Task \cup {NoTask}]
  /\ wg \subseteq Worker

-----------------------------------------------------------------------------
\* The state NewThreadPoolExecutor leaves: an empty open channel and every
\* goroutine counted by the WaitGroup.
Init ==
  /\ taskQueue = <<>>
  /\ submitted = 0
  /\ phase = "submitting"
  /\ running = [w \in Worker |-> NoTask]
  /\ wg = Worker

\* The same as a step, for a caller that makes one executor after another.
NewThreadPoolExecutor ==
  /\ taskQueue' = <<>>
  /\ submitted' = 0
  /\ phase' = "submitting"
  /\ running' = [w \in Worker |-> NoTask]
  /\ wg' = Worker

\* Mutant: every closure captures the one loop variable, so all name the
\* plugin of the latest iteration.
Submit_SharedLoopVariable ==
  /\ phase = "submitting"
  /\ submitted < NumTasks
  /\ Len(taskQueue) < QueueSize
  /\ taskQueue' = [i \in 1..(Len(taskQueue) + 1) |-> submitted + 1]
  /\ submitted' = submitted + 1
  /\ UNCHANGED <<phase, running, wg>>

\* e.taskQueue <- task: blocks the caller while the channel is full.
Submit ==
  /\ phase = "submitting"
  /\ submitted < NumTasks
  /\ Len(taskQueue) < QueueSize
  /\ taskQueue' = Append(taskQueue, submitted + 1)
  /\ submitted' = submitted + 1
  /\ UNCHANGED <<phase, running, wg>>

\* Shutdown, first half: close(e.taskQueue).
CloseQueue ==
  /\ phase = "submitting"
  /\ submitted = NumTasks
  /\ phase' = "shutdown"
  /\ UNCHANGED <<taskQueue, submitted, running, wg>>

\* Mutant: Shutdown closes the channel and does not wait.
Wait_NotJoined ==
  /\ phase = "shutdown"
  /\ phase' = "returned"
  /\ UNCHANGED <<taskQueue, submitted, running, wg>>

\* Shutdown, second half: e.wg.Wait() returns.
Wait ==
  /\ phase = "shutdown"
  /\ wg = {}
  /\ phase' = "returned"
  /\ UNCHANGED <<taskQueue, submitted, running, wg>>

\* worker: the range loop receives the next task.
Take(w) ==
  /\ w \in wg
  /\ running[w] = NoTask
  /\ taskQueue # <<>>
  /\ running' = [running EXCEPT ![w] = Head(taskQueue)]
  /\ taskQueue' = Tail(taskQueue)
  /\ UNCHANGED <<submitted, phase, wg>>

\* worker: task() returns.
Finish(w) ==
  /\ running[w] # NoTask
  /\ running' = [running EXCEPT ![w] = NoTask]
  /\ UNCHANGED <<taskQueue, submitted, phase, wg>>

\* Mutant: the goroutine leaves as soon as the channel is closed, drained or not.
Exit_NotDrained(w) ==
  /\ w \in wg
  /\ running[w] = NoTask
  /\ phase # "submitting"
  /\ wg' = wg \ {w}
  /\ UNCHANGED <<taskQueue, submitted, phase, running>>

\* Mutant: only a goroutine that received the last task calls wg.Done.
Exit_DoneOnlyOnce(w) ==
  /\ w \in wg
  /\ running[w] = NoTask
  /\ taskQueue = <<>>
  /\ phase # "submitting"
  /\ wg = Worker
  /\ wg' = wg \ {w}
  /\ UNCHANGED <<taskQueue, submitted, phase, running>>

\* worker: the range loop ends on a closed, drained channel; wg.Done().
Exit(w) ==
  /\ w \in wg
  /\ running[w] = NoTask
  /\ taskQueue = <<>>
  /\ phase # "submitting"
  /\ wg' = wg \ {w}
  /\ UNCHANGED <<taskQueue, submitted, phase, running>>

Next ==
  \/ Submit \/ CloseQueue \/ Wait
  \/ \E w \in Worker : Take(w) \/ Finish(w) \/ Exit(w)

\* The Go scheduler runs every runnable goroutine; every task returns (a
\* plugin is killed after 120 s, so its closure does).
Fairness ==
  /\ WF_vars(Submit) /\ WF_vars(CloseQueue) /\ WF_vars(Wait)
  /\ \A w \in Worker : WF_vars(Take(w)) /\ WF_vars(Finish(w)) /\ WF_vars(Exit(w))

SafeSpec == Init /\ [][Next]_vars
Spec == SafeSpec /\ Fairness

-----------------------------------------------------------------------------
Queued(t) == \E i \in 1..Len(taskQueue) : taskQueue[i] = t
Running(t) == \E w \in Worker : running[w] = t

\* Where a task is, read off the pool's state.  A task that was submitted and
\* is neither in the channel nor with a goroutine has been executed.
Progress(t) ==
  IF t > submitted THEN "new"
  ELSE IF Queued(t) THEN "accepted"
  ELSE IF Running(t) THEN "running" ELSE "finished"

Batch == INSTANCE TaskBatch WITH
           progress <- [t \in Task |-> Progress(t)],
           joined <- (phase = "returned")

\* The pool implements the batch promise: whatever the interleaving of the
\* caller with the goroutines, each task is taken and executed once and
\* Shutdown returns only after the last of them (worker.go:23-50).
ImplementsTaskBatch == Batch!SafeSpec

\* Under the scheduler's fairness Shutdown does return: no lost wake-up
\* between a full channel, the close and the WaitGroup (worker.go:36-50).
ShutdownReturns == <>(phase = "returned")

\* When Shutdown has returned, no closure of the batch can still touch Redis:
\* every task was submitted, none is left in the channel and none is running
\* (worker.go:47-50).
ShutdownDrains ==
  phase = "returned" =>
    /\ submitted = NumTasks
    /\ \A t \in Task : ~Queued(t) /\ ~Running(t)

\* No closure is executed by two goroutines, and none is both waiting in the
\* channel and running (worker.go:36-45).
TaskOwnedOnce ==
  /\ \A v, w \in Worker : running[v] = running[w] /\ running[v] # NoTask => v = w
  /\ \A i, j \in 1..Len(taskQueue) : taskQueue[i] = taskQueue[j] => i = j
  /\ \A t \in Task : ~(Queued(t) /\ Running(t))
=============================================================================
