------------------------- MODULE Vol3Service_proof -------------------------
(***************************************************************************)
(* Proofs about vol3-service, for any number of goroutines, plugins, cases *)
(* and messages, however often the process dies and whatever faults a      *)
(* behaviour may meet; and, since the service is the plainest user of it,  *)
(* about the group reader every consumer of the pipeline has: its messages *)
(* are any set with a distinguished member, which Message is here.  What   *)
(* the executor does by itself is taken from ThreadPool_proof.             *)
(***************************************************************************)
EXTENDS Vol3Service, FiniteSetTheorems, TLAPS

PP == INSTANCE ThreadPool_proof WITH NumTasks <- NumPlugins, QueueSize <- NumPlugins

\* A new reader never starts beyond the old one.
CommittedBehind == committed <= position

\* Deliveries are in order because each is below the committed offset, and the
\* reader, old or new, goes on from there.
DeliveryInv ==
  Reader!TypeOK /\ CommittedBehind /\ Reader!NothingRedelivered /\ Reader!InOrderAtMostOnce

\* Main has a case exactly while it works on one, and leaves ProcessVolExec only
\* when Shutdown has returned.
MainInv ==
  /\ pc = "reading" => cur = Malformed
  /\ pc # "reading" => cur \in MemoryCase
  /\ pc = "finishing" => phase = "returned"

\* The closure of a plugin has come to an end exactly when the executor is done
\* with it, and works on the plugin only while a goroutine has it.
StageInv ==
  \A p \in Plugin :
    /\ stage[p] \in Settled <=> PP!Progress(p) = "finished"
    /\ stage[p] = "executing" => PP!Progress(p) = "running"

HasKey(c, p) == result[c][p] \/ error[c][p]

\* The places in delivered of the messages that announced c.
Deliveries(c) == {i \in 1..Len(delivered) : topic[delivered[i]] = c}

\* Every key of c stems from a delivery of it, both keys of a plugin from two, and
\* a key that the current batch finds rather than writes from an earlier one.
CaseKeys(c) ==
  /\ \A p \in Plugin :
       /\ HasKey(c, p) => Cardinality(Deliveries(c)) >= 1
       /\ result[c][p] /\ error[c][p] => Cardinality(Deliveries(c)) >= 2
  /\ pc # "reading" /\ cur = c =>
       /\ Cardinality(Deliveries(c)) >= 1
       /\ \A p \in Plugin :
            stage[p] \notin Settled /\ HasKey(c, p) => Cardinality(Deliveries(c)) >= 2

KeysCounted == \A c \in Case : CaseKeys(c)

\* While Redis answers, a plugin runs only if its result is not there.
ExecutingIsNew ==
  ~RedisMayFail /\ pc = "batch" =>
    \A p \in Plugin : stage[p] = "executing" => ~result[cur][p]

\* While Redis answers and no key is due, a closure that has come to an end has
\* left an answer.
SettledIsAnswered ==
  faults \cap {"redis", "expire"} = {} /\ pc # "reading" =>
    \A p \in Plugin : stage[p] \in Settled => HasKey(cur, p)

IInv ==
  /\ TypeOK
  /\ PP!IInv
  /\ DeliveryInv
  /\ NothingOutlivesItsBatch
  /\ MainInv
  /\ StageInv
  /\ KeysCounted
  /\ ExecutingIsNew
  /\ SettledIsAnswered
  /\ DoneMeansAnswered

-----------------------------------------------------------------------------
(* The reader. *)

LEMMA ReaderInit == Reader!Init => DeliveryInv
  BY DEF Reader!Init, DeliveryInv, Reader!TypeOK, CommittedBehind, Reader!NothingRedelivered,
     Reader!InOrderAtMostOnce, Reader!Offset

\* What ReadMessage returns is not below the committed offset, so it comes
\* after everything delivered before.
LEMMA ReadIInv == DeliveryInv /\ Reader!ReadMessage => DeliveryInv'
<1> SUFFICES ASSUME DeliveryInv, Reader!ReadMessage PROVE DeliveryInv'
  OBVIOUS
<1> USE DEF DeliveryInv, Reader!ReadMessage
<1>1. /\ position \in Reader!Offset /\ Len(topic) \in Nat
      /\ delivered \in Seq(Reader!Offset)
      /\ topic' = topic /\ Reader!Offset' = Reader!Offset
  BY DEF Reader!TypeOK, Reader!Offset
<1>2. /\ delivered' \in Seq(Reader!Offset)
      /\ Len(delivered') = Len(delivered) + 1
      /\ \A i \in 1..Len(delivered) : delivered'[i] = delivered[i]
      /\ delivered'[Len(delivered) + 1] = position
  BY <1>1
<1>3. Reader!TypeOK' /\ CommittedBehind'
  BY <1>1, <1>2 DEF Reader!TypeOK, CommittedBehind, Reader!Offset
<1>4. \A i \in 1..Len(delivered) : delivered[i] \in Reader!Offset /\ delivered[i] < position
  BY <1>1 DEF Reader!TypeOK, CommittedBehind, Reader!NothingRedelivered, Reader!Offset
<1>5. ASSUME NEW i \in 1..Len(delivered') PROVE delivered'[i] < committed'
  <2>1. CASE i = Len(delivered) + 1
    BY <1>1, <1>2, <2>1 DEF Reader!Offset
  <2>2. CASE i \in 1..Len(delivered)
    BY <1>1, <1>2, <1>4, <2>2 DEF Reader!Offset
  <2> QED BY <1>1, <1>2, <2>1, <2>2
<1>6. ASSUME NEW i \in 1..Len(delivered'), NEW j \in 1..Len(delivered'), i < j
      PROVE  delivered'[i] < delivered'[j]
  <2>1. Len(delivered) \in Nat /\ i \in 1..Len(delivered)
    BY <1>1, <1>2, <1>6
  <2>2. CASE j = Len(delivered) + 1
    BY <1>2, <1>4, <2>1, <2>2
  <2>3. CASE j \in 1..Len(delivered)
    BY <1>2, <1>6, <2>1, <2>3 DEF Reader!InOrderAtMostOnce
  <2> QED BY <1>2, <2>1, <2>2, <2>3
<1> QED BY <1>3, <1>5, <1>6 DEF Reader!NothingRedelivered, Reader!InOrderAtMostOnce

\* A skipped message and a restart deliver nothing, and the committed offset
\* only grows.
LEMMA OtherReaderIInv ==
  DeliveryInv /\ (Reader!CommitFails \/ Reader!Resume \/ UNCHANGED readerVars) => DeliveryInv'
<1> USE DEF DeliveryInv, Reader!TypeOK, CommittedBehind, Reader!NothingRedelivered,
    Reader!InOrderAtMostOnce, Reader!Offset
<1>1. ASSUME DeliveryInv, Reader!CommitFails PROVE DeliveryInv'
  BY <1>1 DEF Reader!CommitFails
<1>2. ASSUME DeliveryInv, Reader!Resume PROVE DeliveryInv'
  BY <1>2 DEF Reader!Resume
<1>3. ASSUME DeliveryInv, UNCHANGED readerVars PROVE DeliveryInv'
  BY <1>3 DEF readerVars
<1> QED BY <1>1, <1>2, <1>3

LEMMA ReaderNext == DeliveryInv /\ [Reader!Next]_Reader!vars => DeliveryInv'
  BY ReadIInv, OtherReaderIInv DEF Reader!Next, Reader!vars, readerVars

LEMMA ReaderInvariance == Reader!Spec => []DeliveryInv
  BY ReaderInit, ReaderNext, PTL DEF Reader!Spec

\* Every consumer of the pipeline handles each message at most once and in
\* order (main.go:31 of vol3-service, :48 of the orchestrator, :43 of the
\* decision engine).
THEOREM AtMostOnce == Reader!Spec => []Reader!InOrderAtMostOnce
<1>1. DeliveryInv => Reader!InOrderAtMostOnce
  BY DEF DeliveryInv
<1> QED BY <1>1, ReaderInvariance, PTL

\* What has been returned is committed: no restart can bring it back.
THEOREM NoRedelivery == Reader!Spec => []Reader!NothingRedelivered
<1>1. DeliveryInv => Reader!NothingRedelivered
  BY DEF DeliveryInv
<1> QED BY <1>1, ReaderInvariance, PTL

\* Every message of a partition is one of Message.
LEMMA MessageTyped ==
  ASSUME DeliveryInv, position <= Len(topic) PROVE topic[position] \in Message
  BY DEF DeliveryInv, Reader!TypeOK

-----------------------------------------------------------------------------
(* The executor, by itself. *)

\* The two names of the executor's definitions mean the same.
LEMMA PoolNames ==
  /\ Pool!TypeOK <=> PP!TypeOK
  /\ Pool!Init => PP!Init
  /\ Pool!NewThreadPoolExecutor => PP!NewThreadPoolExecutor
  /\ Pool!Submit => PP!Submit
  /\ Pool!CloseQueue => PP!CloseQueue
  /\ Pool!Wait => PP!Wait
  /\ \A w \in Worker : /\ Pool!Take(w) => PP!Take(w)
                       /\ Pool!Finish(w) => PP!Finish(w)
                       /\ Pool!Exit(w) => PP!Exit(w)
<1>1. (Pool!TypeOK <=> PP!TypeOK) /\ (Pool!Init => PP!Init)
  BY DEF Pool!TypeOK, PP!TypeOK, Pool!Task, PP!Task, Pool!NoTask, PP!NoTask, Pool!Init, PP!Init
<1>2. /\ Pool!NewThreadPoolExecutor => PP!NewThreadPoolExecutor
      /\ Pool!Submit => PP!Submit
      /\ Pool!CloseQueue => PP!CloseQueue
      /\ Pool!Wait => PP!Wait
  BY DEF Pool!NewThreadPoolExecutor, PP!NewThreadPoolExecutor, Pool!Submit, PP!Submit,
     Pool!CloseQueue, PP!CloseQueue, Pool!Wait, PP!Wait, Pool!NoTask, PP!NoTask
<1>3. ASSUME NEW w \in Worker
      PROVE  /\ Pool!Take(w) => PP!Take(w)
             /\ Pool!Finish(w) => PP!Finish(w)
             /\ Pool!Exit(w) => PP!Exit(w)
  BY DEF Pool!Take, PP!Take, Pool!Finish, PP!Finish, Pool!Exit, PP!Exit, Pool!NoTask, PP!NoTask
<1> QED BY <1>1, <1>2, <1>3

LEMMA PPAssumption == PP!PoolAssumption
  BY Vol3Assumption DEF PP!PoolAssumption

LEMMA PoolInit == Pool!Init => PP!IInv
  BY PoolNames, PPAssumption, PP!InitIInv

\* A step of the executor, of another one, or none.
ExecutorNext ==
  \/ Pool!NewThreadPoolExecutor
  \/ Pool!Submit \/ Pool!CloseQueue \/ Pool!Wait
  \/ \E w \in Worker : Pool!Take(w) \/ Pool!Finish(w) \/ Pool!Exit(w)

LEMMA PoolNext == PP!IInv /\ [ExecutorNext]_poolVars => PP!IInv'
<1> SUFFICES ASSUME PP!IInv, [ExecutorNext]_poolVars PROVE PP!IInv'
  OBVIOUS
<1>1. CASE Pool!NewThreadPoolExecutor
  BY <1>1, PoolNames, PPAssumption, PP!NewIInv
<1>2. CASE \/ Pool!Submit \/ Pool!CloseQueue \/ Pool!Wait \/ UNCHANGED poolVars
           \/ \E w \in Worker : Pool!Take(w) \/ Pool!Finish(w) \/ Pool!Exit(w)
  <2>1. [PP!Next]_PP!vars
    BY <1>2, PoolNames DEF PP!Next, PP!vars, poolVars
  <2> QED BY <2>1, PPAssumption, PP!NextIInv
<1> QED BY <1>1, <1>2 DEF ExecutorNext

-----------------------------------------------------------------------------
(* What the service's steps are to its parts. *)

LEMMA StepKinds ==
  ASSUME [Next]_vars PROVE [Reader!Next]_readerVars /\ [ExecutorNext]_poolVars
<1>1. CASE Skip \/ ReadError
  BY <1>1 DEF Skip, ReadError, Reader!Next, poolVars
<1>2. CASE Receive
  BY <1>2 DEF Receive, Reader!Next, ExecutorNext
<1>3. CASE Dispatch \/ Join
  BY <1>3 DEF Dispatch, Join, ExecutorNext, readerVars
<1>4. CASE SetDone
  BY <1>4 DEF SetDone
<1>5. ASSUME NEW w \in Worker, PoolStep(w) PROVE [Reader!Next]_readerVars /\ [ExecutorNext]_poolVars
  BY <1>5 DEF PoolStep, ExecutorNext
<1>6. ASSUME NEW w \in Worker, CacheHit(w) \/ Succeed(w) \/ Fail(w)
      PROVE  [Reader!Next]_readerVars /\ [ExecutorNext]_poolVars
  BY <1>6 DEF CacheHit, Succeed, Fail, ExecutorNext
<1>7. ASSUME NEW w \in Worker, Execute(w) PROVE [Reader!Next]_readerVars /\ [ExecutorNext]_poolVars
  BY <1>7 DEF Execute
<1>8. CASE Crash
  BY <1>8 DEF Crash, Reader!Next, ExecutorNext
<1>9. CASE Rebalance
  BY <1>9 DEF Rebalance, Reader!Next
<1>10. ASSUME NEW c \in Case, NEW p \in Plugin, Expire(c, p)
       PROVE  [Reader!Next]_readerVars /\ [ExecutorNext]_poolVars
  BY <1>10 DEF Expire
<1>11. CASE UNCHANGED vars
  BY <1>11 DEF vars
<1> QED BY <1>1, <1>2, <1>3, <1>4, <1>5, <1>6, <1>7, <1>8, <1>9, <1>10, <1>11
        DEF Next, Main, Goroutine

LEMMA InitParts == Init => Reader!Init /\ Pool!Init
<1> SUFFICES ASSUME Init PROVE Reader!Init /\ Pool!Init
  OBVIOUS
<1>1. topic \in Seq(Message)
  <2>1. PICK n \in 0..MaxTopic : topic \in [1..n -> Message]
    BY DEF Init
  <2> QED BY <2>1, Vol3Assumption
<1> QED BY <1>1 DEF Init, Reader!Init

\* Whatever main, its goroutines, Redis and the process do, the topic is read
\* as a group reader reads it (main.go:23-35).
THEOREM ReadsAsAGroup == SafeSpec => Reader!Spec
<1>1. Init => Reader!Init
  BY InitParts
<1>2. [Next]_vars => [Reader!Next]_Reader!vars
  BY StepKinds DEF readerVars, Reader!vars
<1> QED BY <1>1, <1>2, PTL DEF SafeSpec, Reader!Spec

\* A message of evidence-ready is analysed at most once and in topic order
\* (main.go:31).
THEOREM DeliversOnce == SafeSpec => []DeliveredOnce
<1>1. Reader!InOrderAtMostOnce <=> DeliveredOnce
  BY DEF DeliveredOnce
<1> QED BY <1>1, ReadsAsAGroup, AtMostOnce, PTL

\* The executors of the service are thread pools, one after another: each batch
\* starts from a fresh one and takes only a pool's steps (worker.go:23-50, 64).
THEOREM RunsExecutors == SafeSpec => Pool!Init /\ [][ExecutorNext]_poolVars
  BY InitParts, StepKinds, PTL DEF SafeSpec

-----------------------------------------------------------------------------
(* Who may move. *)

\* A goroutine holds a plugin only while main is in ProcessVolExec, for its case.
LEMMA Holding ==
  ASSUME PP!IInv, NothingOutlivesItsBatch, MainInv, NEW w \in Worker, running[w] # 0
  PROVE  /\ pc = "batch" /\ cur \in Case
         /\ \E p \in Plugin : p = running[w] /\ PP!Progress(p) = "running"
<1>1. pc = "batch"
  BY DEF NothingOutlivesItsBatch
<1>2. cur \in Case
  BY <1>1 DEF MainInv, Case
<1>3. \E p \in PP!Task : p = running[w] /\ PP!Progress(p) = "running"
  BY PP!HeldIsRunning, PPAssumption DEF PP!NoTask
<1> QED BY <1>1, <1>2, <1>3 DEF PP!Task, Plugin

\* Main's program counter and case, and what is left of the executor.
LEMMA ControlNext ==
  ASSUME PP!IInv, PP!IInv', DeliveryInv, NothingOutlivesItsBatch, MainInv, [Next]_vars
  PROVE  NothingOutlivesItsBatch' /\ MainInv'
<1> USE DEF NothingOutlivesItsBatch, MainInv
<1>1. CASE UNCHANGED <<pc, cur, poolVars>>
  BY <1>1 DEF poolVars
<1>2. CASE Receive
  BY <1>2 DEF Receive, Pool!NewThreadPoolExecutor, Pool!NoTask
<1>3. CASE Dispatch
  BY <1>3 DEF Dispatch
<1>4. CASE Join
  <2>1. phase' = "returned" /\ pc' = "finishing" /\ cur' = cur /\ pc = "batch"
    BY <1>4 DEF Join, Pool!Wait
  <2>2. taskQueue' = <<>> /\ \A w \in Worker : running'[w] = 0
    BY <1>4, Vol3Assumption DEF Join, Pool!Wait, PP!IInv, PP!ExitedOnDrained, PP!NoTask
  <2> QED BY <2>1, <2>2
<1>5. CASE SetDone
  BY <1>5 DEF SetDone, poolVars
<1>6. ASSUME NEW w \in Worker, PoolStep(w) PROVE NothingOutlivesItsBatch' /\ MainInv'
  <2>1. /\ UNCHANGED <<pc, cur, phase>>
        /\ \/ taskQueue # <<>>
           \/ UNCHANGED <<taskQueue, running>>
    BY <1>6 DEF PoolStep, Pool!Take, Pool!Exit
  <2> QED BY <2>1
<1>7. ASSUME NEW w \in Worker, CacheHit(w) \/ Succeed(w) \/ Fail(w)
      PROVE  NothingOutlivesItsBatch' /\ MainInv'
  <2>1. running[w] # 0 /\ UNCHANGED <<pc, cur, phase>>
    BY <1>7 DEF CacheHit, Succeed, Fail, Pool!Finish
  <2>2. pc = "batch"
    BY <2>1, Holding
  <2> QED BY <2>1, <2>2
<1>8. CASE Crash
  BY <1>8 DEF Crash, Pool!NewThreadPoolExecutor, Pool!NoTask
<1>9. ASSUME \/ Skip \/ ReadError \/ Rebalance \/ UNCHANGED vars
             \/ \E w \in Worker : Execute(w)
             \/ \E c \in Case, p \in Plugin : Expire(c, p)
      PROVE  UNCHANGED <<pc, cur, poolVars>>
  BY <1>9 DEF Skip, ReadError, Rebalance, vars, Execute, Expire
<1> QED BY <1>1, <1>2, <1>3, <1>4, <1>5, <1>6, <1>7, <1>8, <1>9 DEF Next, Main, Goroutine

-----------------------------------------------------------------------------
(* How a closure ends. *)

\* CacheHit, Succeed and Fail settle the plugin their goroutine holds, which is
\* when the executor is done with it.
LEMMA ClosureEnds ==
  ASSUME TypeOK, PP!IInv, NothingOutlivesItsBatch, MainInv, NEW w \in Worker,
         CacheHit(w) \/ Succeed(w) \/ Fail(w)
  PROVE  /\ pc = "batch" /\ cur \in Case
         /\ UNCHANGED <<readerVars, pc, cur, done, crashes, faults>>
         /\ \E p \in Plugin, s \in Settled :
              /\ p = running[w]
              /\ stage' = [stage EXCEPT ![p] = s]
              /\ PP!Progress(p) = "running" /\ PP!Progress(p)' = "finished"
              /\ \A q \in Plugin \ {p} : PP!Progress(q)' = PP!Progress(q)
<1>1. running[w] # 0 /\ Pool!Finish(w) /\ UNCHANGED <<readerVars, pc, cur, done, crashes, faults>>
  BY DEF CacheHit, Succeed, Fail, redis
<1>2. pc = "batch" /\ cur \in Case
  BY <1>1, Holding
<1>3. PICK p \in Plugin : /\ p = running[w]
                          /\ PP!Progress(p) = "running" /\ PP!Progress(p)' = "finished"
                          /\ \A q \in Plugin \ {p} : PP!Progress(q)' = PP!Progress(q)
  <2>1. PP!Finish(w)
    BY <1>1, PoolNames
  <2> QED BY <2>1, PPAssumption, PP!FinishEndsOne DEF PP!Task, Plugin
<1>4. \E s \in Settled : stage' = [stage EXCEPT ![p] = s]
  <2>1. CASE CacheHit(w)
    BY <1>3, <2>1 DEF CacheHit, Settled
  <2>2. CASE Succeed(w)
    BY <1>3, <2>2 DEF Succeed, Settled
  <2>3. CASE Fail(w)
    BY <1>3, <2>3 DEF Fail, Settled
  <2> QED BY <2>1, <2>2, <2>3
<1> QED BY <1>1, <1>2, <1>3, <1>4

\* What the steps leave in Redis: a goroutine writes at most one key of the case,
\* and only expiry removes one.
LEMMA KeySteps ==
  ASSUME TypeOK, PP!IInv, NothingOutlivesItsBatch, MainInv, NEW w \in Worker,
         Succeed(w) \/ Fail(w), NEW p, p = running[w]
  PROVE  /\ p \in Plugin /\ cur \in Case /\ stage[p] = "executing"
         /\ \/ result' \in {result, [result EXCEPT ![cur][p] = TRUE]} /\ error' = error
            \/ error' \in {error, [error EXCEPT ![cur][p] = TRUE]} /\ result' = result
<1>1. p # 0 /\ stage[p] = "executing"
  BY DEF Succeed, Fail
<1>2. p \in Plugin /\ cur \in Case
  BY <1>1, Holding
<1> QED BY <1>1, <1>2 DEF Succeed, Fail

\* An expired key is gone and no other has appeared.
LEMMA ExpireOnlyRemoves ==
  ASSUME TypeOK, NEW d \in Case, NEW p \in Plugin, Expire(d, p), NEW c \in Case, NEW q \in Plugin
  PROVE  (result'[c][q] => result[c][q]) /\ (error'[c][q] => error[c][q])
<1>1. result \in [Case -> [Plugin -> BOOLEAN]] /\ error \in [Case -> [Plugin -> BOOLEAN]]
  BY DEF TypeOK
<1>2. CASE result' = [result EXCEPT ![d][p] = FALSE] /\ error' = error
  BY <1>1, <1>2
<1>3. CASE error' = [error EXCEPT ![d][p] = FALSE] /\ result' = result
  BY <1>1, <1>3
<1> QED BY <1>2, <1>3 DEF Expire

KeyTable == [Case -> [Plugin -> BOOLEAN]]
StageTable == [Plugin -> {"none", "executing"} \cup Settled]
CrashCount == 0..MaxCrashes

\* Everything in Redis, the stages and the faults.
OwnTypes ==
  /\ pc \in {"reading", "batch", "finishing"}
  /\ cur \in Message
  /\ stage \in StageTable
  /\ result \in KeyTable
  /\ error \in KeyTable
  /\ done \in [Case -> BOOLEAN]
  /\ crashes \in CrashCount
  /\ faults \in Scenario

LEMMA SetKey ==
  ASSUME NEW f \in KeyTable, NEW c \in Case, NEW p \in Plugin, NEW b \in BOOLEAN
  PROVE  [f EXCEPT ![c][p] = b] \in KeyTable
  BY DEF KeyTable

LEMMA SetStage ==
  ASSUME NEW f \in StageTable, NEW p \in Plugin, NEW s \in {"executing"} \cup Settled
  PROVE  [f EXCEPT ![p] = s] \in StageTable
  BY DEF StageTable

LEMMA NoStage == [p \in Plugin |-> "none"] \in StageTable
  BY DEF StageTable

LEMMA OwnTypesNext ==
  ASSUME TypeOK, PP!IInv, DeliveryInv, NothingOutlivesItsBatch, MainInv, [Next]_vars
  PROVE  OwnTypes'
<1>2. OwnTypes
  BY DEF TypeOK, OwnTypes, KeyTable, StageTable, CrashCount
<1> USE DEF OwnTypes
<1>3. CASE UNCHANGED <<pc, cur, stage, redis, crashes, faults>>
  BY <1>2, <1>3 DEF redis
<1>4. CASE Receive
  <2>1. topic[position] \in Message
    BY <1>4, MessageTyped DEF Receive, Reader!ReadMessage
  <2> QED BY <1>2, <1>4, <2>1, NoStage DEF Receive, redis
<1>5. CASE Join \/ SetDone
  BY <1>2, <1>5 DEF Join, SetDone, redis, Message
<1>6. ASSUME NEW w \in Worker, CacheHit(w) \/ Succeed(w) \/ Fail(w) PROVE OwnTypes'
  <2>1. PICK p \in Plugin, s \in Settled : p = running[w] /\ stage' = [stage EXCEPT ![p] = s]
    BY <1>6, ClosureEnds
  <2>2. cur \in Case /\ UNCHANGED <<readerVars, pc, cur, done, crashes, faults>>
    BY <1>6, ClosureEnds
  <2>3. stage' \in StageTable
    BY <1>2, <2>1, SetStage
  <2>4. result' \in KeyTable /\ error' \in KeyTable
    <3>1. CASE CacheHit(w)
      BY <1>2, <3>1 DEF CacheHit, redis
    <3>2. CASE Succeed(w) \/ Fail(w)
      <4>1. /\ [result EXCEPT ![cur][p] = TRUE] \in KeyTable
            /\ [error EXCEPT ![cur][p] = TRUE] \in KeyTable
        BY <1>2, <2>2, SetKey
      <4> QED BY <1>2, <3>2, <2>1, <4>1, KeySteps
    <3> QED BY <1>6, <3>1, <3>2
  <2> QED BY <1>2, <2>2, <2>3, <2>4
<1>7. ASSUME NEW w \in Worker, Execute(w) PROVE OwnTypes'
  <2>1. running[w] \in Plugin
    BY <1>7, Holding DEF Execute
  <2>2. stage' \in StageTable
    BY <1>2, <1>7, <2>1, SetStage DEF Execute
  <2> QED BY <1>2, <1>7, <2>2 DEF Execute, redis
<1>8. CASE Crash
  <2>1. crashes' \in CrashCount
    BY <1>2, <1>8, Vol3Assumption DEF Crash, CrashCount
  <2> QED BY <1>2, <1>8, <2>1, NoStage DEF Crash, redis, Message
<1>9. ASSUME NEW c \in Case, NEW p \in Plugin, Expire(c, p) PROVE OwnTypes'
  <2>1. [result EXCEPT ![c][p] = FALSE] \in KeyTable /\ [error EXCEPT ![c][p] = FALSE] \in KeyTable
    BY <1>2, SetKey
  <2> QED BY <1>2, <1>9, <2>1 DEF Expire
<1>10. ASSUME \/ Skip \/ ReadError \/ Dispatch \/ Rebalance \/ UNCHANGED vars
              \/ \E w \in Worker : PoolStep(w)
       PROVE  UNCHANGED <<pc, cur, stage, redis, crashes, faults>>
  BY <1>10 DEF Skip, ReadError, Dispatch, Rebalance, vars, PoolStep
<1> QED BY <1>3, <1>4, <1>5, <1>6, <1>7, <1>8, <1>9, <1>10 DEF Next, Main, Goroutine

LEMMA TypesNext ==
  ASSUME TypeOK, PP!IInv, PP!IInv', DeliveryInv, DeliveryInv', NothingOutlivesItsBatch, MainInv,
         [Next]_vars
  PROVE  TypeOK'
<1>1. Reader!TypeOK' /\ Pool!TypeOK'
  <2>1. Pool!TypeOK' <=> PP!TypeOK'
    BY DEF Pool!TypeOK, PP!TypeOK, Pool!Task, PP!Task, Pool!NoTask, PP!NoTask
  <2> QED BY <2>1 DEF DeliveryInv, PP!IInv
<1>2. OwnTypes'
  BY OwnTypesNext
<1>3. /\ pc' \in {"reading", "batch", "finishing"}
      /\ cur' \in Message
      /\ stage' \in [Plugin -> {"none", "executing"} \cup Settled]
      /\ result' \in [Case -> [Plugin -> BOOLEAN]]
      /\ error' \in [Case -> [Plugin -> BOOLEAN]]
      /\ done' \in [Case -> BOOLEAN]
      /\ crashes' \in 0..MaxCrashes
      /\ faults' \in Scenario
  BY <1>2 DEF OwnTypes, KeyTable, StageTable, CrashCount
<1> QED BY <1>1, <1>3 DEF TypeOK

-----------------------------------------------------------------------------
(* Plugins and their stages. *)

LEMMA ProgressSame ==
  ASSUME UNCHANGED poolVars, NEW p \in Plugin PROVE PP!Progress(p)' = PP!Progress(p)
  BY DEF poolVars, PP!Progress, PP!Queued, PP!Running

LEMMA StageNext ==
  ASSUME TypeOK, PP!IInv, NothingOutlivesItsBatch, MainInv, StageInv, [Next]_vars
  PROVE  StageInv'
<1> DEFINE Fits(p) == /\ stage'[p] \in Settled <=> PP!Progress(p)' = "finished"
                      /\ stage'[p] = "executing" => PP!Progress(p)' = "running"
<1> SUFFICES ASSUME NEW q \in Plugin PROVE Fits(q)
  BY DEF StageInv
<1>0. stage \in [Plugin -> {"none", "executing"} \cup Settled]
  BY DEF TypeOK
<1>1. CASE UNCHANGED <<poolVars, stage>>
  BY <1>1, ProgressSame DEF StageInv
<1>2. CASE Receive \/ Crash
  <2>1. PP!Progress(q)' = "new"
    <3>1. PP!NewThreadPoolExecutor
      BY <1>2, PoolNames DEF Receive, Crash
    <3> QED BY <3>1, PPAssumption, PP!NewIsNew DEF PP!Task, Plugin
  <2>2. stage'[q] = "none"
    BY <1>2 DEF Receive, Crash
  <2> QED BY <2>1, <2>2 DEF Settled
<1>3. ASSUME Dispatch \/ Join \/ \E w \in Worker : PoolStep(w) PROVE Fits(q)
  <2>1. stage' = stage
    BY <1>3 DEF Dispatch, Join, PoolStep
  <2>2. PP!Submit \/ PP!CloseQueue \/ PP!Wait \/ \E w \in Worker : PP!Take(w) \/ PP!Exit(w)
    BY <1>3, PoolNames DEF Dispatch, Join, PoolStep
  <2>3. /\ PP!Progress(q)' = "finished" <=> PP!Progress(q) = "finished"
        /\ PP!Progress(q) = "running" => PP!Progress(q)' = "running"
    BY <2>2, PPAssumption, PP!OthersEndNone DEF PP!Task, Plugin
  <2> QED BY <2>1, <2>3 DEF StageInv
<1>4. ASSUME NEW w \in Worker, CacheHit(w) \/ Succeed(w) \/ Fail(w) PROVE Fits(q)
  <2>1. PICK p \in Plugin, s \in Settled :
          /\ stage' = [stage EXCEPT ![p] = s]
          /\ PP!Progress(p)' = "finished"
          /\ \A r \in Plugin \ {p} : PP!Progress(r)' = PP!Progress(r)
    BY <1>4, ClosureEnds
  <2>2. CASE q = p
    BY <1>0, <2>1, <2>2 DEF Settled
  <2>3. CASE q # p
    BY <1>0, <2>1, <2>3 DEF StageInv
  <2> QED BY <2>2, <2>3
<1>5. ASSUME NEW w \in Worker, Execute(w) PROVE Fits(q)
  <2>1. PICK p \in Plugin : p = running[w] /\ PP!Progress(p) = "running"
    BY <1>5, Holding DEF Execute
  <2>2. stage' = [stage EXCEPT ![p] = "executing"]
    BY <1>5, <2>1 DEF Execute
  <2>3. PP!Progress(q)' = PP!Progress(q)
    BY <1>5, ProgressSame DEF Execute
  <2>4. CASE q = p
    BY <1>0, <2>1, <2>2, <2>3, <2>4 DEF Settled
  <2>5. CASE q # p
    BY <1>0, <2>2, <2>3, <2>5 DEF StageInv
  <2> QED BY <2>4, <2>5
<1>6. ASSUME \/ Skip \/ ReadError \/ SetDone \/ Rebalance \/ UNCHANGED vars
             \/ \E c \in Case, p \in Plugin : Expire(c, p)
      PROVE  UNCHANGED <<poolVars, stage>>
  BY <1>6 DEF Skip, ReadError, SetDone, Rebalance, vars, Expire
<1> QED BY <1>1, <1>2, <1>3, <1>4, <1>5, <1>6 DEF Next, Main, Goroutine

LEMMA FaultsFixed == [Next]_vars => faults' = faults
  BY DEF Next, Main, Goroutine, Skip, Receive, ReadError, Dispatch, Join, SetDone, PoolStep,
     CacheHit, Execute, Succeed, Fail, Crash, Rebalance, Expire, vars

\* When Shutdown has returned every closure of the batch has come to an end.
LEMMA FinishingIsSettled ==
  ASSUME PP!IInv, MainInv, StageInv, pc = "finishing" PROVE \A p \in Plugin : stage[p] \in Settled
<1>1. \A p \in PP!Task : PP!Progress(p) = "finished"
  BY PP!ReturnedIsDrained, PPAssumption DEF MainInv
<1> QED BY <1>1 DEF StageInv, PP!Task, Plugin

-----------------------------------------------------------------------------
(* Keys and the deliveries they stem from. *)

LEMMA DeliveriesFinite ==
  ASSUME DeliveryInv, NEW c
  PROVE  IsFiniteSet(Deliveries(c)) /\ Cardinality(Deliveries(c)) \in Nat
<1>1. Len(delivered) \in Nat
  BY DEF DeliveryInv, Reader!TypeOK
<1>2. IsFiniteSet(1..Len(delivered))
  BY <1>1, FS_Interval
<1>3. Deliveries(c) \subseteq 1..Len(delivered)
  BY DEF Deliveries
<1>4. IsFiniteSet(Deliveries(c))
  BY <1>2, <1>3, FS_Subset
<1> QED BY <1>4, FS_CardinalityType

\* A message read is one delivery more of its case.
LEMMA ReadCounts ==
  ASSUME DeliveryInv, Reader!ReadMessage, NEW c
  PROVE  Cardinality(Deliveries(c)') =
           IF topic[position] = c THEN Cardinality(Deliveries(c)) + 1 ELSE Cardinality(Deliveries(c))
<1> DEFINE n == Len(delivered) + 1
<1>1. /\ Len(delivered) \in Nat
      /\ Len(delivered') = n
      /\ \A i \in 1..Len(delivered) : delivered'[i] = delivered[i]
      /\ delivered'[n] = position
      /\ topic' = topic
  BY DEF DeliveryInv, Reader!TypeOK, Reader!ReadMessage, Reader!Offset
<1>2. CASE topic[position] = c
  <2>1. Deliveries(c)' = Deliveries(c) \cup {n}
    BY <1>1, <1>2 DEF Deliveries
  <2>2. n \notin Deliveries(c)
    BY <1>1 DEF Deliveries
  <2> HIDE DEF n
  <2>3. IsFiniteSet(Deliveries(c))
    BY DeliveriesFinite
  <2>4. Cardinality(Deliveries(c) \cup {n}) = Cardinality(Deliveries(c)) + 1
    BY <2>2, <2>3, FS_AddElement, Zenon
  <2> QED BY <1>2, <2>1, <2>4
<1>3. CASE topic[position] # c
  <2>1. Deliveries(c)' = Deliveries(c)
    BY <1>1, <1>3 DEF Deliveries
  <2> QED BY <1>3, <2>1
<1> QED BY <1>2, <1>3

\* A step that delivers nothing, writes no key and takes up no case.
LEMMA NoKeyCounts ==
  ASSUME NEW c, CaseKeys(c), UNCHANGED <<topic, delivered>>,
         \A p \in Plugin : /\ result'[c][p] => result[c][p]
                           /\ error'[c][p] => error[c][p],
         pc' # "reading" /\ cur' = c =>
           /\ pc # "reading" /\ cur = c
           /\ \A p \in Plugin : stage[p] \in Settled => stage'[p] \in Settled
  PROVE  CaseKeys(c)'
<1>1. Deliveries(c)' = Deliveries(c)
  BY DEF Deliveries
<1> QED BY <1>1 DEF CaseKeys, HasKey

\* A message read counts for every key its case has already.
LEMMA ReadKeyCounts ==
  ASSUME NEW c, DeliveryInv, CaseKeys(c), Reader!ReadMessage, UNCHANGED <<result, error>>,
         pc' # "reading" => cur' = topic[position]
  PROVE  CaseKeys(c)'
<1> DEFINE n == Cardinality(Deliveries(c))
<1>1. n \in Nat
  BY DeliveriesFinite
<1>2. Cardinality(Deliveries(c)') = IF topic[position] = c THEN n + 1 ELSE n
  BY ReadCounts
<1>3. \A p \in Plugin : /\ HasKey(c, p) => n >= 1
                        /\ result[c][p] /\ error[c][p] => n >= 2
  BY DEF CaseKeys
<1> HIDE DEF n
<1>4. pc' # "reading" /\ cur' = c => Cardinality(Deliveries(c)') = n + 1
  BY <1>2
<1> QED BY <1>1, <1>2, <1>3, <1>4 DEF CaseKeys, HasKey

\* The key a closure writes is its own, for a plugin it has settled.
LEMMA WriteCounts ==
  ASSUME NEW c \in Case, NEW w \in Worker, TypeOK, PP!IInv, DeliveryInv, NothingOutlivesItsBatch,
         MainInv, CaseKeys(c), Succeed(w) \/ Fail(w)
  PROVE  CaseKeys(c)'
<1>1. PICK p \in Plugin, s \in Settled : p = running[w] /\ stage' = [stage EXCEPT ![p] = s]
  BY ClosureEnds
<1>2. /\ UNCHANGED <<topic, delivered, pc, cur>> /\ pc = "batch"
      /\ cur \in Case /\ stage[p] = "executing"
      /\ \/ result' \in {result, [result EXCEPT ![cur][p] = TRUE]} /\ error' = error
         \/ error' \in {error, [error EXCEPT ![cur][p] = TRUE]} /\ result' = result
  BY <1>1, ClosureEnds, KeySteps DEF readerVars
<1>3. result \in [Case -> [Plugin -> BOOLEAN]] /\ error \in [Case -> [Plugin -> BOOLEAN]]
      /\ stage \in [Plugin -> {"none", "executing"} \cup Settled]
  BY DEF TypeOK
<1>4. stage'[p] \in Settled /\ \A q \in Plugin \ {p} : stage'[q] = stage[q]
  BY <1>1, <1>3
<1>5. CASE c # cur
  <2>1. result'[c] = result[c] /\ error'[c] = error[c]
    BY <1>2, <1>3, <1>5
  <2> QED BY <1>2, <1>5, <2>1, NoKeyCounts
<1>6. CASE c = cur
  <2>1. \A q \in Plugin \ {p} : result'[c][q] = result[c][q] /\ error'[c][q] = error[c][q]
    BY <1>2, <1>3, <1>6
  <2>2. result'[c][p] = result[c][p] \/ error'[c][p] = error[c][p]
    BY <1>2
  <2>3. Deliveries(c)' = Deliveries(c)
    BY <1>2 DEF Deliveries
  <2>4. /\ Cardinality(Deliveries(c)) >= 1
        /\ HasKey(c, p) => Cardinality(Deliveries(c)) >= 2
    BY <1>2, <1>6 DEF CaseKeys, Settled
  <2>5. ASSUME NEW q \in Plugin
        PROVE  /\ HasKey(c, q)' => Cardinality(Deliveries(c)) >= 1
               /\ result'[c][q] /\ error'[c][q] => Cardinality(Deliveries(c)) >= 2
               /\ stage'[q] \notin Settled /\ HasKey(c, q)' => Cardinality(Deliveries(c)) >= 2
    <3>1. CASE q = p
      BY <1>4, <2>2, <2>4, <3>1 DEF HasKey
    <3>2. CASE q # p
      BY <1>2, <1>4, <1>6, <2>1, <3>2 DEF CaseKeys, HasKey
    <3> QED BY <3>1, <3>2
  <2> QED BY <2>3, <2>4, <2>5 DEF CaseKeys
<1> QED BY <1>5, <1>6

LEMMA KeysNext ==
  ASSUME TypeOK, PP!IInv, DeliveryInv, NothingOutlivesItsBatch, MainInv, KeysCounted, [Next]_vars
  PROVE  KeysCounted'
<1> SUFFICES ASSUME NEW c \in Case PROVE CaseKeys(c)'
  BY DEF KeysCounted
<1>0. CaseKeys(c)
  BY DEF KeysCounted
<1>1. CASE Skip \/ Receive
  <2>1. Reader!ReadMessage /\ UNCHANGED <<result, error>>
        /\ (pc' # "reading" => cur' = topic[position])
    BY <1>1 DEF Skip, Receive, redis
  <2> QED BY <1>0, <2>1, ReadKeyCounts
<1>2. CASE ReadError \/ Rebalance \/ Dispatch \/ \E w \in Worker : PoolStep(w)
  <2>1. UNCHANGED <<topic, delivered, pc, cur, stage, result, error>>
    BY <1>2 DEF ReadError, Rebalance, Dispatch, PoolStep, Reader!CommitFails, Reader!Resume,
       readerVars, redis
  <2> QED BY <1>0, <2>1, NoKeyCounts
<1>3. CASE Join
  <2>1. UNCHANGED <<topic, delivered, cur, stage, result, error>> /\ pc = "batch"
    BY <1>3 DEF Join, readerVars, redis
  <2> QED BY <1>0, <2>1, NoKeyCounts
<1>4. CASE SetDone \/ Crash
  <2>1. UNCHANGED <<topic, delivered, result, error>> /\ pc' = "reading"
    BY <1>4 DEF SetDone, Crash, Reader!Resume, readerVars, redis
  <2> QED BY <1>0, <2>1, NoKeyCounts
<1>5. ASSUME NEW w \in Worker, CacheHit(w) PROVE CaseKeys(c)'
  <2>1. UNCHANGED <<topic, delivered, pc, cur, result, error>>
    BY <1>5 DEF CacheHit, readerVars, redis
  <2>2. \A p \in Plugin : stage[p] \in Settled => stage'[p] \in Settled
    <3>1. PICK p \in Plugin, s \in Settled : stage' = [stage EXCEPT ![p] = s]
      BY <1>5, ClosureEnds
    <3> QED BY <3>1 DEF TypeOK
  <2> QED BY <1>0, <2>1, <2>2, NoKeyCounts
<1>6. ASSUME NEW w \in Worker, Execute(w) PROVE CaseKeys(c)'
  <2>1. UNCHANGED <<topic, delivered, pc, cur, result, error>>
    BY <1>6 DEF Execute, readerVars, redis
  <2>2. \A p \in Plugin : stage[p] \in Settled => stage'[p] \in Settled
    BY <1>6 DEF Execute, Settled, TypeOK
  <2> QED BY <1>0, <2>1, <2>2, NoKeyCounts
<1>7. ASSUME NEW w \in Worker, Succeed(w) \/ Fail(w) PROVE CaseKeys(c)'
  BY <1>0, <1>7, WriteCounts
<1>8. ASSUME NEW d \in Case, NEW p \in Plugin, Expire(d, p) PROVE CaseKeys(c)'
  <2>1. UNCHANGED <<topic, delivered, pc, cur, stage>>
    BY <1>8 DEF Expire, readerVars
  <2>2. \A q \in Plugin : (result'[c][q] => result[c][q]) /\ (error'[c][q] => error[c][q])
    BY <1>8, ExpireOnlyRemoves
  <2> QED BY <1>0, <2>1, <2>2, NoKeyCounts
<1>9. CASE UNCHANGED vars
  <2>1. UNCHANGED <<topic, delivered, pc, cur, stage, result, error>>
    BY <1>9 DEF vars, readerVars, redis
  <2> QED BY <1>0, <2>1, NoKeyCounts
<1> QED BY <1>1, <1>2, <1>3, <1>4, <1>5, <1>6, <1>7, <1>8, <1>9 DEF Next, Main, Goroutine

-----------------------------------------------------------------------------
(* What is cached is not computed again. *)

LEMMA ExecutingNext ==
  ASSUME TypeOK, PP!IInv, NothingOutlivesItsBatch, MainInv, ExecutingIsNew, [Next]_vars
  PROVE  ExecutingIsNew'
<1> SUFFICES ASSUME ~RedisMayFail', pc' = "batch", NEW q \in Plugin, stage'[q] = "executing"
             PROVE  ~result'[cur'][q]
  BY DEF ExecutingIsNew
<1>0. /\ stage \in [Plugin -> {"none", "executing"} \cup Settled]
      /\ result \in [Case -> [Plugin -> BOOLEAN]]
  BY DEF TypeOK
<1>1. ~RedisMayFail
  BY FaultsFixed DEF RedisMayFail
<1>2. CASE UNCHANGED <<pc, cur, stage, result>>
  BY <1>1, <1>2 DEF ExecutingIsNew
<1>3. CASE Receive
  BY <1>3 DEF Receive
<1>4. CASE Join \/ SetDone \/ Crash
  BY <1>4 DEF Join, SetDone, Crash
<1>5. ASSUME NEW w \in Worker, CacheHit(w) \/ Succeed(w) \/ Fail(w) PROVE ~result'[cur'][q]
  <2>1. PICK p \in Plugin, s \in Settled : p = running[w] /\ stage' = [stage EXCEPT ![p] = s]
    BY <1>5, ClosureEnds
  <2>2. q # p /\ stage[q] = "executing"
    BY <1>0, <2>1 DEF Settled
  <2>3. pc = "batch" /\ cur \in Case /\ cur' = cur
    BY <1>5, ClosureEnds
  <2>4. ~result[cur][q]
    BY <1>1, <2>2, <2>3 DEF ExecutingIsNew
  <2>5. CASE CacheHit(w)
    BY <2>3, <2>4, <2>5 DEF CacheHit, redis
  <2>6. CASE Succeed(w) \/ Fail(w)
    <3>1. result' \in {result, [result EXCEPT ![cur][p] = TRUE]}
      BY <2>1, <2>6, KeySteps
    <3> QED BY <1>0, <2>2, <2>3, <2>4, <3>1
  <2> QED BY <1>5, <2>5, <2>6
<1>6. ASSUME NEW w \in Worker, Execute(w) PROVE ~result'[cur'][q]
  <2>1. PICK p \in Plugin : p = running[w]
    BY <1>6, Holding DEF Execute
  <2>2. /\ ~result[cur][p]
        /\ stage' = [stage EXCEPT ![p] = "executing"]
        /\ UNCHANGED <<pc, cur, result>>
    BY <1>1, <1>6, <2>1 DEF Execute, redis
  <2>3. CASE q = p
    BY <2>2, <2>3
  <2>4. CASE q # p
    BY <1>0, <1>1, <2>2, <2>4 DEF ExecutingIsNew
  <2> QED BY <2>3, <2>4
<1>7. ASSUME NEW d \in Case, NEW p \in Plugin, Expire(d, p) PROVE ~result'[cur'][q]
  <2>1. UNCHANGED <<pc, cur, stage>>
    BY <1>7 DEF Expire
  <2>2. cur \in Case
    BY <2>1 DEF MainInv, Case
  <2> QED BY <1>1, <1>7, <2>1, <2>2, ExpireOnlyRemoves DEF ExecutingIsNew
<1>8. ASSUME \/ Skip \/ ReadError \/ Dispatch \/ Rebalance \/ UNCHANGED vars
             \/ \E w \in Worker : PoolStep(w)
      PROVE  UNCHANGED <<pc, cur, stage, result>>
  BY <1>8 DEF Skip, ReadError, Dispatch, Rebalance, vars, PoolStep, redis
<1> QED BY <1>2, <1>3, <1>4, <1>5, <1>6, <1>7, <1>8 DEF Next, Main, Goroutine

-----------------------------------------------------------------------------
(* Done and answered. *)

\* Only main, back from ProcessVolExec, marks a case done.
LEMMA DoneOnlyBySetDone ==
  ASSUME [Next]_vars, TypeOK, NEW c \in Case, ~done[c], done'[c]
  PROVE  SetDone /\ cur = c /\ pc = "finishing"
<1>1. done' # done
  OBVIOUS
<1>2. SetDone
  BY <1>1 DEF Next, Main, Goroutine, Skip, Receive, ReadError, Dispatch, Join, PoolStep,
     CacheHit, Execute, Succeed, Fail, Crash, Rebalance, Expire, vars, redis
<1>3. cur = c
  BY <1>1, <1>2 DEF SetDone, TypeOK
<1> QED BY <1>2, <1>3 DEF SetDone

\* While no key is due, a key stays.
LEMMA KeysStay ==
  ASSUME TypeOK, PP!IInv, NothingOutlivesItsBatch, MainInv, [Next]_vars, ~MayExpire,
         NEW c \in Case, NEW q \in Plugin, HasKey(c, q)
  PROVE  HasKey(c, q)'
<1>1. CASE UNCHANGED <<result, error>>
  BY <1>1 DEF HasKey
<1>2. ASSUME NEW w \in Worker, Succeed(w) \/ Fail(w) PROVE HasKey(c, q)'
  <2>1. PICK p \in Plugin : p = running[w]
    BY <1>2, ClosureEnds
  <2>2. /\ cur \in Case
        /\ \/ result' \in {result, [result EXCEPT ![cur][p] = TRUE]} /\ error' = error
           \/ error' \in {error, [error EXCEPT ![cur][p] = TRUE]} /\ result' = result
    BY <1>2, <2>1, KeySteps
  <2>3. result \in [Case -> [Plugin -> BOOLEAN]] /\ error \in [Case -> [Plugin -> BOOLEAN]]
    BY DEF TypeOK
  <2>4. result[c][q] => [result EXCEPT ![cur][p] = TRUE][c][q]
    BY <2>2, <2>3
  <2>5. error[c][q] => [error EXCEPT ![cur][p] = TRUE][c][q]
    BY <2>2, <2>3
  <2> QED BY <2>2, <2>4, <2>5 DEF HasKey
<1>3. ASSUME \/ Skip \/ Receive \/ ReadError \/ Dispatch \/ Join \/ SetDone \/ Crash \/ Rebalance
             \/ UNCHANGED vars
             \/ \E w \in Worker : PoolStep(w) \/ CacheHit(w) \/ Execute(w)
      PROVE  UNCHANGED <<result, error>>
  BY <1>3 DEF Skip, Receive, ReadError, Dispatch, Join, SetDone, Crash, Rebalance, vars, PoolStep,
     CacheHit, Execute, redis
<1>4. \A d \in Case, p \in Plugin : ~Expire(d, p)
  BY DEF Expire
<1> QED BY <1>1, <1>2, <1>3, <1>4 DEF Next, Main, Goroutine

\* While Redis answers, a closure that comes to an end leaves a key.
LEMMA EndLeavesKey ==
  ASSUME TypeOK, PP!IInv, NothingOutlivesItsBatch, MainInv, ~RedisMayFail,
         NEW w \in Worker, CacheHit(w) \/ Succeed(w) \/ Fail(w), NEW p \in Plugin, p = running[w]
  PROVE  result'[cur][p] \/ error'[cur][p]
<1>1. cur \in Case
  BY ClosureEnds
<1>2. result \in [Case -> [Plugin -> BOOLEAN]] /\ error \in [Case -> [Plugin -> BOOLEAN]]
  BY DEF TypeOK
<1>3. CASE CacheHit(w)
  BY <1>3 DEF CacheHit, redis
<1>4. CASE Succeed(w)
  <2>1. result' = [result EXCEPT ![cur][p] = TRUE]
    BY <1>4 DEF Succeed
  <2> QED BY <1>1, <1>2, <2>1
<1>5. CASE Fail(w)
  <2>1. error' = [error EXCEPT ![cur][p] = TRUE]
    BY <1>5 DEF Fail
  <2> QED BY <1>1, <1>2, <2>1
<1> QED BY <1>3, <1>4, <1>5

LEMMA AnsweredNext ==
  ASSUME TypeOK, PP!IInv, NothingOutlivesItsBatch, MainInv, StageInv, SettledIsAnswered,
         DoneMeansAnswered, [Next]_vars
  PROVE  SettledIsAnswered' /\ DoneMeansAnswered'
<1> SUFFICES ASSUME faults' \cap {"redis", "expire"} = {}
             PROVE  /\ pc' # "reading" => \A q \in Plugin : stage'[q] \in Settled => HasKey(cur, q)'
                    /\ \A c \in Case : done'[c] => \A q \in Plugin : HasKey(c, q)'
  BY DEF SettledIsAnswered, DoneMeansAnswered, HasKey
<1>1. faults \cap {"redis", "expire"} = {}
  BY FaultsFixed
<1>2. ~RedisMayFail /\ ~MayExpire
  BY <1>1 DEF RedisMayFail, MayExpire
<1>3. ASSUME pc' # "reading", NEW q \in Plugin, stage'[q] \in Settled PROVE HasKey(cur, q)'
  <2>1. CASE pc # "reading" /\ cur' = cur /\ stage[q] \in Settled
    <3>1. PICK c \in Case : c = cur
      BY <2>1 DEF MainInv, Case
    <3>2. HasKey(c, q)
      BY <1>1, <2>1, <3>1 DEF SettledIsAnswered
    <3>3. HasKey(c, q)'
      BY <1>2, <3>2, KeysStay
    <3> QED BY <2>1, <3>1, <3>3 DEF HasKey
  <2>2. CASE Receive
    BY <1>3, <2>2 DEF Receive, Settled
  <2>3. ASSUME NEW w \in Worker, CacheHit(w) \/ Succeed(w) \/ Fail(w) PROVE HasKey(cur, q)'
    <3>1. PICK p \in Plugin, s \in Settled : p = running[w] /\ stage' = [stage EXCEPT ![p] = s]
      BY <2>3, ClosureEnds
    <3>2. cur' = cur /\ pc = "batch"
      BY <2>3, ClosureEnds
    <3>3. CASE q = p
      BY <1>2, <2>3, <3>1, <3>2, <3>3, EndLeavesKey DEF HasKey
    <3>4. CASE q # p
      BY <1>3, <2>1, <3>1, <3>2, <3>4 DEF TypeOK
    <3> QED BY <3>3, <3>4
  <2>4. ASSUME NEW w \in Worker, Execute(w) PROVE HasKey(cur, q)'
    <3>1. cur' = cur /\ pc' = pc /\ stage[q] \in Settled
      BY <1>3, <2>4 DEF Execute, TypeOK, Settled
    <3> QED BY <1>3, <2>1, <3>1
  <2>5. ASSUME \/ Skip \/ ReadError \/ Dispatch \/ Rebalance \/ UNCHANGED vars
               \/ \E w \in Worker : PoolStep(w)
               \/ \E d \in Case, p \in Plugin : Expire(d, p)
        PROVE  UNCHANGED <<pc, cur, stage>>
    BY <2>5 DEF Skip, ReadError, Dispatch, Rebalance, vars, PoolStep, Expire
  <2>6. ASSUME Join PROVE pc # "reading" /\ UNCHANGED <<cur, stage>>
    BY <2>6 DEF Join
  <2>7. ~SetDone /\ ~Crash
    BY <1>3 DEF SetDone, Crash
  <2> QED BY <1>3, <2>1, <2>2, <2>3, <2>4, <2>5, <2>6, <2>7 DEF Next, Main, Goroutine
<1>4. ASSUME NEW c \in Case, done'[c], NEW q \in Plugin PROVE HasKey(c, q)'
  <2>1. CASE done[c]
    <3>1. HasKey(c, q)
      BY <1>1, <2>1 DEF DoneMeansAnswered, HasKey
    <3> QED BY <1>2, <3>1, KeysStay
  <2>2. CASE ~done[c]
    <3>1. SetDone /\ cur = c /\ pc = "finishing"
      BY <1>4, <2>2, DoneOnlyBySetDone
    <3>2. stage[q] \in Settled
      BY <3>1, FinishingIsSettled
    <3>3. HasKey(c, q)
      BY <1>1, <3>1, <3>2 DEF SettledIsAnswered
    <3> QED BY <1>2, <3>3, KeysStay
  <2> QED BY <2>1, <2>2
<1> QED BY <1>3, <1>4

-----------------------------------------------------------------------------
LEMMA InitIInv == Init => IInv
<1> SUFFICES ASSUME Init PROVE IInv
  OBVIOUS
<1>1. PP!IInv /\ DeliveryInv
  BY InitParts, PoolInit, ReaderInit
<1>2. OwnTypes
  BY NoStage, Vol3Assumption DEF Init, OwnTypes, KeyTable, CrashCount, Message
<1>3. TypeOK
  BY <1>1, <1>2, PoolNames DEF TypeOK, OwnTypes, KeyTable, StageTable, CrashCount, DeliveryInv, PP!IInv
<1>4. NothingOutlivesItsBatch /\ MainInv
  BY DEF Init, Pool!Init, NothingOutlivesItsBatch, MainInv, Pool!NoTask
<1>5. StageInv
  <2>1. \A p \in Plugin : PP!Progress(p) = "new"
    BY Vol3Assumption DEF Init, Pool!Init, PP!Progress, Plugin
  <2> QED BY <2>1 DEF Init, StageInv, Settled
<1>6. KeysCounted
  BY DEF Init, KeysCounted, CaseKeys, HasKey
<1>7. ExecutingIsNew /\ SettledIsAnswered /\ DoneMeansAnswered
  BY DEF Init, ExecutingIsNew, SettledIsAnswered, DoneMeansAnswered
<1> QED BY <1>1, <1>3, <1>4, <1>5, <1>6, <1>7 DEF IInv

LEMMA NextIInv == IInv /\ [Next]_vars => IInv'
<1> SUFFICES ASSUME IInv, [Next]_vars PROVE IInv'
  OBVIOUS
<1> USE DEF IInv
<1>1. PP!IInv' /\ DeliveryInv'
  BY StepKinds, PoolNext, ReaderNext DEF readerVars, Reader!vars
<1>2. NothingOutlivesItsBatch' /\ MainInv'
  BY <1>1, ControlNext
<1>3. TypeOK'
  BY <1>1, TypesNext
<1>4. StageInv' /\ KeysCounted'
  BY StageNext, KeysNext
<1>5. ExecutingIsNew' /\ SettledIsAnswered' /\ DoneMeansAnswered'
  BY ExecutingNext, AnsweredNext
<1> QED BY <1>1, <1>2, <1>3, <1>4, <1>5

LEMMA Invariance == SafeSpec => []IInv
  BY InitIInv, NextIInv, PTL DEF SafeSpec

\* The state of the process, its executor and Redis stays well-formed through
\* every fault, crash and restart (main.go:20-60, worker.go:60-106).
THEOREM TypeCorrect == SafeSpec => []TypeOK
<1>1. IInv => TypeOK
  BY DEF IInv
<1> QED BY <1>1, Invariance, PTL

\* What is left when main is not inside ProcessVolExec is all there will be, and
\* the keys tell how each plugin of each case ended (worker.go:70-106).
THEOREM KeysTrue == SafeSpec => []KeysAreTrue
<1>1. KeysCounted => ResultAndErrorNeedTwoBatches
  BY DEF KeysCounted, CaseKeys, Deliveries, ResultAndErrorNeedTwoBatches
<1>2. IInv => KeysAreTrue
  BY <1>1 DEF IInv, KeysAreTrue
<1> QED BY <1>2, Invariance, PTL

\* vol3_done is set only after every closure of the case's own batch has come to
\* an end, whatever Redis does meanwhile (main.go:51-53).
THEOREM DoneSettled == SafeSpec => DoneMeansSettled
<1>1. ASSUME IInv, [Next]_vars
      PROVE  [\A c \in Case :
                ~done[c] /\ done'[c] => c = cur /\ \A p \in Plugin : stage[p] \in Settled]_vars
  BY <1>1, DoneOnlyBySetDone, FinishingIsSettled DEF IInv
<1> QED BY <1>1, Invariance, PTL DEF SafeSpec, DoneMeansSettled

\* While Redis answers, a cached result is never computed and stored again, not
\* by a duplicate of the message nor after a crash (worker.go:73-97).
THEOREM NothingRecomputed == SafeSpec => NoRedundantExecution
<1>1. ASSUME IInv, [Next]_vars
      PROVE  [\A p \in Plugin :
                ~RedisMayFail /\ stage[p] = "executing" /\ stage'[p] = "saved" => ~result[cur][p]]_vars
  <2> SUFFICES ASSUME NEW p \in Plugin, ~RedisMayFail, stage[p] = "executing", stage'[p] = "saved"
               PROVE  ~result[cur][p]
    OBVIOUS
  <2>1. PP!Progress(p) = "running"
    BY <1>1 DEF IInv, StageInv
  <2>2. \E w \in Worker : running[w] # 0
    BY <2>1, Vol3Assumption DEF PP!Progress, PP!Running, Plugin
  <2>3. pc = "batch"
    BY <1>1, <2>2 DEF IInv, NothingOutlivesItsBatch
  <2> QED BY <1>1, <2>3 DEF IInv, ExecutingIsNew
<1> QED BY <1>1, Invariance, PTL DEF SafeSpec, NoRedundantExecution
=============================================================================
