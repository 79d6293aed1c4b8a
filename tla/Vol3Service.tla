---------------------------- MODULE Vol3Service ----------------------------
(***************************************************************************)
(* vol3-service: one process that reads evidence-ready messages            *)
(* (cmd/main.go) and runs every Volatility plugin of a memory case on a    *)
(* fresh ThreadPoolExecutor (internal/worker/worker.go), caching the       *)
(* answers in Redis.  Composes GroupReader (the topic) and ThreadPool (the *)
(* executor); the goroutines' closures and the Redis keys are added here.  *)
(***************************************************************************)
EXTENDS Naturals, Sequences, FiniteSets

CONSTANTS
  Worker,       \* goroutines of an executor (6 in the code)
  NumPlugins,   \* length of linuxPlugins (8 in the code)
  MemoryCase,   \* cases whose evidence is a memory dump
  LogCase,      \* cases whose evidence is a log file
  Malformed,    \* a message that does not unmarshal
  MaxTopic,     \* bound: messages in the topic
  MaxCrashes,   \* bound: how often the process dies and is restarted
  Scenario      \* the combinations of faults considered, see Fault

Case == MemoryCase \cup LogCase
Message == Case \cup {Malformed}
Plugin == 1..NumPlugins

\* A Redis command may fail, or fail though applied; an offset commit may fail
\* or the group be rebalanced; the 2 h keys may expire; the process may die.
Fault == {"redis", "commit", "expire", "crash"}

ASSUME Vol3Assumption ==
  /\ Worker # {}
  /\ NumPlugins \in Nat \ {0}
  /\ MaxTopic \in Nat
  /\ MaxCrashes \in Nat
  /\ MemoryCase \cap LogCase = {}
  /\ Malformed \notin Case
  /\ Scenario # {} /\ Scenario \subseteq SUBSET Fault

VARIABLES
  topic, position, committed, delivered,        \* the evidence-ready partition
  taskQueue, submitted, phase, running, wg,     \* the current executor
  pc,        \* main: "reading", "batch" (in ProcessVolExec) or "finishing"
  cur,       \* the case of the current message, Malformed when there is none
  stage,     \* stage[p]: how far the closure of plugin p has come in this batch
  result,    \* result[c][p]: does Redis hold vol3:<c>:<p>
  error,     \* error[c][p]: does Redis hold vol3:<c>:<p>:error
  done,      \* done[c]: does Redis hold pipeline:<c>:vol3_done
  crashes,   \* how often the process has died
  faults     \* the faults this behaviour may meet, chosen once

readerVars == <<topic, position, committed, delivered>>
poolVars == <<taskQueue, submitted, phase, running, wg>>
redis == <<result, error, done>>
vars == <<readerVars, poolVars, pc, cur, stage, redis, crashes, faults>>

Reader == INSTANCE GroupReader
Pool == INSTANCE ThreadPool WITH NumTasks <- NumPlugins, QueueSize <- NumPlugins

RedisMayFail == "redis" \in faults
CommitMayFail == "commit" \in faults
MayExpire == "expire" \in faults

\* How a closure can end.
Settled == {"cached", "saved", "unsaved", "failed"}

TypeOK ==
  /\ Reader!TypeOK
  /\ Pool!TypeOK
  /\ pc \in {"reading", "batch", "finishing"}
  /\ cur \in Message
  /\ stage \in [Plugin -> {"none", "executing"} \cup Settled]
  /\ result \in [Case -> [Plugin -> BOOLEAN]]
  /\ error \in [Case -> [Plugin -> BOOLEAN]]
  /\ done \in [Case -> BOOLEAN]
  /\ crashes \in 0..MaxCrashes
  /\ faults \in Scenario

-----------------------------------------------------------------------------
Init ==
  /\ topic \in UNION {[1..n -> Message] : n \in 0..MaxTopic}
  /\ Reader!Init
  /\ Pool!Init
  /\ pc = "reading"
  /\ cur = Malformed
  /\ stage = [p \in Plugin |-> "none"]
  /\ result = [c \in Case |-> [p \in Plugin |-> FALSE]]
  /\ error = [c \in Case |-> [p \in Plugin |-> FALSE]]
  /\ done = [c \in Case |-> FALSE]
  /\ crashes = 0
  /\ faults \in Scenario

\* A message that does not unmarshal, or is not a memory dump: logged, dropped.
Skip ==
  /\ pc = "reading"
  /\ Reader!ReadMessage
  /\ topic[position] \notin MemoryCase
  /\ UNCHANGED <<poolVars, pc, cur, stage, redis, crashes, faults>>

\* A memory dump: ProcessVolExec makes its executor.
Receive ==
  /\ pc = "reading"
  /\ Reader!ReadMessage
  /\ topic[position] \in MemoryCase
  /\ Pool!NewThreadPoolExecutor
  /\ pc' = "batch"
  /\ cur' = topic[position]
  /\ stage' = [p \in Plugin |-> "none"]
  /\ UNCHANGED <<redis, crashes, faults>>

\* ReadMessage returns an error: continue.
ReadError ==
  /\ pc = "reading"
  /\ CommitMayFail
  /\ Reader!CommitFails
  /\ UNCHANGED <<poolVars, pc, cur, stage, redis, crashes, faults>>

\* The loop of executor.Submit calls, and the first half of Shutdown.
Dispatch ==
  /\ pc = "batch"
  /\ Pool!Submit \/ Pool!CloseQueue
  /\ UNCHANGED <<readerVars, pc, cur, stage, redis, crashes, faults>>

\* Shutdown, and with it ProcessVolExec, returns.
Join ==
  /\ pc = "batch"
  /\ Pool!Wait
  /\ pc' = "finishing"
  /\ UNCHANGED <<readerVars, cur, stage, redis, crashes, faults>>

\* SET pipeline:<case>:vol3_done; an error is only logged.
SetDone ==
  /\ pc = "finishing"
  /\ \/ done' = [done EXCEPT ![cur] = TRUE]
     \/ RedisMayFail /\ UNCHANGED done
  /\ pc' = "reading"
  /\ cur' = Malformed
  /\ UNCHANGED <<readerVars, poolVars, stage, result, error, crashes, faults>>

\* A goroutine receives its next closure, or leaves its range loop.
PoolStep(w) ==
  /\ Pool!Take(w) \/ Pool!Exit(w)
  /\ UNCHANGED <<readerVars, pc, cur, stage, redis, crashes, faults>>

\* EXISTS finds the result of an earlier batch: the closure returns.
CacheHit(w) ==
  LET p == running[w] IN
  /\ p # 0
  /\ stage[p] = "none"
  /\ result[cur][p]
  /\ stage' = [stage EXCEPT ![p] = "cached"]
  /\ Pool!Finish(w)
  /\ UNCHANGED <<readerVars, pc, cur, redis, crashes, faults>>

\* Mutant: the closure does not ask Redis before it runs the plugin.
Execute_NoCacheCheck(w) ==
  LET p == running[w] IN
  /\ p # 0
  /\ stage[p] = "none"
  /\ stage' = [stage EXCEPT ![p] = "executing"]
  /\ UNCHANGED <<readerVars, poolVars, pc, cur, redis, crashes, faults>>

\* EXISTS answers 0, or fails, which Val() turns into 0: the plugin is started.
Execute(w) ==
  LET p == running[w] IN
  /\ p # 0
  /\ stage[p] = "none"
  /\ ~result[cur][p] \/ RedisMayFail
  /\ stage' = [stage EXCEPT ![p] = "executing"]
  /\ UNCHANGED <<readerVars, poolVars, pc, cur, redis, crashes, faults>>

\* The plugin succeeds; its output is SET, unless Redis fails.  A SET whose
\* answer is lost has been applied but counts as "unsaved".
Succeed(w) ==
  LET p == running[w] IN
  /\ p # 0
  /\ stage[p] = "executing"
  /\ \/ /\ stage' = [stage EXCEPT ![p] = "saved"]
        /\ result' = [result EXCEPT ![cur][p] = TRUE]
     \/ /\ RedisMayFail
        /\ stage' = [stage EXCEPT ![p] = "unsaved"]
        /\ result' \in {result, [result EXCEPT ![cur][p] = TRUE]}
  /\ Pool!Finish(w)
  /\ UNCHANGED <<readerVars, pc, cur, error, done, crashes, faults>>

\* Mutant: the error branch does not return, so the partial output is SET too.
Fail_FallsThrough(w) ==
  LET p == running[w] IN
  /\ p # 0
  /\ stage[p] = "executing"
  /\ stage' = [stage EXCEPT ![p] = "failed"]
  /\ error' = [error EXCEPT ![cur][p] = TRUE]
  /\ result' = [result EXCEPT ![cur][p] = TRUE]
  /\ Pool!Finish(w)
  /\ UNCHANGED <<readerVars, pc, cur, done, crashes, faults>>

\* Mutant: a timeout is logged and nothing is SET.
Fail_TimeoutNotRecorded(w) ==
  LET p == running[w] IN
  /\ p # 0
  /\ stage[p] = "executing"
  /\ stage' = [stage EXCEPT ![p] = "failed"]
  /\ error' \in {error, [error EXCEPT ![cur][p] = TRUE]}
  /\ Pool!Finish(w)
  /\ UNCHANGED <<readerVars, pc, cur, result, done, crashes, faults>>

\* The plugin exits with an error or is killed after 120 s: the error key is
\* SET, and nobody looks whether that worked.
Fail(w) ==
  LET p == running[w] IN
  /\ p # 0
  /\ stage[p] = "executing"
  /\ stage' = [stage EXCEPT ![p] = "failed"]
  /\ \/ error' = [error EXCEPT ![cur][p] = TRUE]
     \/ RedisMayFail /\ UNCHANGED error
  /\ Pool!Finish(w)
  /\ UNCHANGED <<readerVars, pc, cur, result, done, crashes, faults>>

\* The process dies with its goroutines and plugins and is started again.
\* Redis and the committed offset survive.
Crash ==
  /\ "crash" \in faults
  /\ crashes < MaxCrashes
  /\ crashes' = crashes + 1
  /\ Reader!Resume
  /\ Pool!NewThreadPoolExecutor
  /\ pc' = "reading"
  /\ cur' = Malformed
  /\ stage' = [p \in Plugin |-> "none"]
  /\ UNCHANGED <<redis, faults>>

\* The consumer group is rebalanced: the reader goes back to the committed
\* offset in the middle of whatever main is doing.
Rebalance ==
  /\ CommitMayFail
  /\ Reader!Resume
  /\ UNCHANGED <<poolVars, pc, cur, stage, redis, crashes, faults>>

\* A result or error key reaches the end of its 2 h.  A batch takes minutes,
\* so a key that the current batch wrote is not yet due.
Expire(c, p) ==
  /\ MayExpire
  /\ \/ /\ result[c][p] /\ ~(c = cur /\ stage[p] = "saved")
        /\ result' = [result EXCEPT ![c][p] = FALSE]
        /\ UNCHANGED error
     \/ /\ error[c][p] /\ ~(c = cur /\ stage[p] = "failed")
        /\ error' = [error EXCEPT ![c][p] = FALSE]
        /\ UNCHANGED result
  /\ UNCHANGED <<readerVars, poolVars, pc, cur, stage, done, crashes, faults>>

Main == Skip \/ Receive \/ ReadError \/ Dispatch \/ Join \/ SetDone
Goroutine(w) == PoolStep(w) \/ CacheHit(w) \/ Execute(w) \/ Succeed(w) \/ Fail(w)

Next ==
  \/ Main
  \/ \E w \in Worker : Goroutine(w)
  \/ Crash \/ Rebalance
  \/ \E c \in Case, p \in Plugin : Expire(c, p)

\* The Go scheduler runs the main loop and every goroutine; a plugin is killed
\* after 120 s.  Crashes, failures and expiry are never forced.
Fairness == WF_vars(Main) /\ \A w \in Worker : WF_vars(Goroutine(w))

SafeSpec == Init /\ [][Next]_vars
Spec == SafeSpec /\ Fairness

-----------------------------------------------------------------------------
\* A message of evidence-ready is analysed at most once and in topic order,
\* whatever commits fail, at whatever point the process dies (main.go:31).
DeliveredOnce == Reader!InOrderAtMostOnce

\* When main is not inside ProcessVolExec no closure is waiting or running, so
\* two cases never compete for the dump or the Redis keys (worker.go:105).
NothingOutlivesItsBatch ==
  pc # "batch" => taskQueue = <<>> /\ \A w \in Worker : running[w] = 0

\* A plugin has both a result and an error key only if its case was analysed
\* twice: one closure never writes both (worker.go:86-97).
ResultAndErrorNeedTwoBatches ==
  \A c \in Case, p \in Plugin :
    result[c][p] /\ error[c][p] =>
      Cardinality({i \in 1..Len(delivered) : topic[delivered[i]] = c}) >= 2

\* vol3_done appears only after every closure of the case's own batch has come
\* to an end, even if the key stood there already or Redis fails on the way
\* (main.go:51-53).
DoneMeansSettled ==
  [][\A c \in Case :
       ~done[c] /\ done'[c] => c = cur /\ \A p \in Plugin : stage[p] \in Settled]_vars

\* While Redis answers and no key is due, a case marked done has an answer,
\* result or error, for every plugin, crashes notwithstanding.
DoneMeansAnswered ==
  faults \cap {"redis", "expire"} = {} =>
    \A c \in Case : done[c] => \A p \in Plugin : result[c][p] \/ error[c][p]

\* While Redis answers, a cached result is never computed and stored again,
\* not by a duplicate of the message nor after a crash (worker.go:73-97).
NoRedundantExecution ==
  [][\A p \in Plugin :
       ~RedisMayFail /\ stage[p] = "executing" /\ stage'[p] = "saved" =>
         ~result[cur][p]]_vars

\* What is left when main is not inside ProcessVolExec is all there will be, and
\* the keys tell how each plugin of each case ended (worker.go:70-106).
KeysAreTrue == NothingOutlivesItsBatch /\ ResultAndErrorNeedTwoBatches /\ DoneMeansAnswered

\* Without crashes, failed commits and Redis failures, every memory dump
\* announced on the topic gets its vol3_done.
EveryMemoryCaseAnalysed ==
  \A c \in MemoryCase :
    (faults \subseteq {"expire"} /\ \E i \in Reader!Offset : topic[i] = c) ~> done[c]

\* However Redis fails, plugins fail and the process crashes (finitely often),
\* the service works through its topic and comes back to reading.
TopicDrained ==
  CommitMayFail \/ <>[](pc = "reading" /\ position = Len(topic) + 1)
=============================================================================
