----------------------------- MODULE TaskBatch -----------------------------
(***************************************************************************)
(* What a caller of vol3-service's ThreadPoolExecutor may rely on, with no *)
(* goroutine, channel or WaitGroup in sight: the tasks of one batch are    *)
(* accepted, each is started and finished at most once, and the batch is   *)
(* joined only when every one of its tasks has finished.  ThreadPool is    *)
(* shown to implement this module.                                         *)
(***************************************************************************)
CONSTANT Task     \* the tasks of the batch

VARIABLES
  progress,       \* progress[t]: how far task t has come
  joined          \* TRUE once Shutdown has returned to the caller

vars == <<progress, joined>>

Init ==
  /\ progress = [t \in Task |-> "new"]
  /\ joined = FALSE

Advance(t, from, to) ==
  /\ progress[t] = from
  /\ progress' = [progress EXCEPT ![t] = to]
  /\ UNCHANGED joined

Accept(t) == Advance(t, "new", "accepted")
Start(t)  == Advance(t, "accepted", "running")
Finish(t) == Advance(t, "running", "finished")

AllFinished == \A t \in Task : progress[t] = "finished"

Join ==
  /\ AllFinished
  /\ ~joined
  /\ joined' = TRUE
  /\ UNCHANGED progress

Next == Join \/ \E t \in Task : Accept(t) \/ Start(t) \/ Finish(t)

SafeSpec == Init /\ [][Next]_vars

Spec == SafeSpec /\ WF_vars(Next)
=============================================================================
