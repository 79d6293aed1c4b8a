---------------------------- MODULE Orchestrator ----------------------------
(***************************************************************************)
(* The orchestrator (orchestrator/main.go): replicas of one process that   *)
(* read ml1-scored, take a 30 s Redis lock per case that is never          *)
(* released, run the tools a message calls for in an errgroup of at most   *)
(* five goroutines under a 30 s context, and publish their findings.       *)
(*                                                                         *)
(* A second is a tick of the model's clock.  The lock and the context are  *)
(* count-downs; nothing else in the handler is bounded by the clock.       *)
(***************************************************************************)
EXTENDS Hypotheses, FiniteSetsExt

CONSTANTS
  Replica,      \* processes of the consumer group, one partition each
  Case,
  ML1Message,   \* the messages ML1 may produce
  MaxMessages,  \* bound: messages on the topic, over all partitions
  LockTTL,      \* life of lock:<case> (30 s)
  ToolTimeout,  \* life of the tools' context (30 s)
  ToolLimit,    \* g.SetLimit (5)
  Scenario,     \* the combinations of faults considered, see Fault
  Prompt        \* TRUE if only tools take time: all else within a tick

\* SETNX may fail, or fail though applied; an offset commit may fail and its
\* message be skipped; a replica may die.
Fault == {"redis", "commit", "crash"}

ASSUME OrchestratorAssumption ==
  /\ ML1Message # {} /\ ML1Message \subseteq ScoredMessage(Case)
  /\ {MaxMessages, LockTTL, ToolTimeout} \subseteq Nat
  /\ ToolLimit \in Nat \ {0}
  /\ IsFiniteSet(Replica)
  /\ Scenario # {} /\ Scenario \subseteq SUBSET Fault
  /\ Prompt \in BOOLEAN

VARIABLES
  inbox,      \* inbox[r]: what replica r has still to read
  pc,         \* pc[r]: where replica r is in its loop
  msg,        \* msg[r]: the message in hand (the last one, while reading)
  lock,       \* lock[c]: remaining life of lock:<c>, 0 when absent
  held,       \* held[r]: ticks since r's SETNX succeeded, capped at LockTTL
  ctxLeft,    \* ctxLeft[r]: ticks until the context's deadline
  cancelled,  \* cancelled[r]: the errgroup has cancelled the context
  spawned,    \* spawned[r]: place in ToolOrder of the last tool handed over
  tool,       \* tool[r][t]: "idle", "running", "doomed", "found", "clean", "error"
  hyp,        \* hyp[r]: the hypotheses
  gemma,      \* gemma[r]: what became of the call to Gemma, "none" without one
  findings,   \* findings[c]: how many messages of c reached agent-findings
  started,    \* history: started[c]: how often a replica has begun to handle c
  finished,   \* history: cases whose handler has returned
  dropped,    \* history: cases of messages dropped as locked
  faults      \* the faults this behaviour may meet, chosen once

clock == <<lock, held, ctxLeft>>
handler == <<msg, cancelled, spawned, tool, hyp, gemma>>
history == <<started, finished, dropped>>
vars == <<inbox, pc, handler, clock, findings, history, faults>>

RedisMayFail == "redis" \in faults
CommitMayFail == "commit" \in faults

ToolState == {"idle", "running", "doomed", "found", "clean", "error"}

\* Past the lock: the replica takes itself for the case's only worker.
Handling(r) == pc[r] \in {"saving", "tools", "scoring", "publishing"}

Active(r) == {t \in Tool : tool[r][t] \in {"running", "doomed"}}
Found(r) == {t \in Tool : tool[r][t] = "found"}
CtxLive(r) == ~cancelled[r] /\ ctxLeft[r] > 0

NoHypotheses == [rootkit |-> 0, lateral |-> 0, falsePositive |-> 0]

TypeOK ==
  /\ inbox \in [Replica -> Seq(ML1Message)]
  /\ pc \in [Replica -> {"reading", "locking", "saving", "tools", "scoring", "publishing"}]
  /\ msg \in [Replica -> ML1Message]
  /\ lock \in [Case -> 0..LockTTL]
  /\ held \in [Replica -> 0..LockTTL]
  /\ ctxLeft \in [Replica -> 0..ToolTimeout]
  /\ cancelled \in [Replica -> BOOLEAN]
  /\ spawned \in [Replica -> 0..Len(ToolOrder)]
  /\ tool \in [Replica -> [Tool -> ToolState]]
  /\ hyp \in [Replica -> [rootkit : Nat, lateral : Nat, falsePositive : Nat]]
  /\ gemma \in [Replica -> {"none", "asked", "refused"}]
  /\ findings \in [Case -> Nat]
  /\ started \in [Case -> Nat]
  /\ finished \subseteq Case
  /\ dropped \subseteq Case
  /\ faults \in Scenario

-----------------------------------------------------------------------------
\* Every way to spread at most MaxMessages over the partitions.
Inboxes ==
  {i \in [Replica -> UNION {[1..n -> ML1Message] : n \in 0..MaxMessages}] :
     MapThenSumSet(LAMBDA r : Len(i[r]), Replica) <= MaxMessages}

Init ==
  /\ inbox \in Inboxes
  /\ pc = [r \in Replica |-> "reading"]
  /\ msg = [r \in Replica |-> CHOOSE m \in ML1Message : TRUE]
  /\ lock = [c \in Case |-> 0]
  /\ held = [r \in Replica |-> 0]
  /\ ctxLeft = [r \in Replica |-> 0]
  /\ cancelled = [r \in Replica |-> FALSE]
  /\ spawned = [r \in Replica |-> 0]
  /\ tool = [r \in Replica |-> [t \in Tool |-> "idle"]]
  /\ hyp = [r \in Replica |-> NoHypotheses]
  /\ gemma = [r \in Replica |-> "none"]
  /\ findings = [c \in Case |-> 0]
  /\ started = [c \in Case |-> 0]
  /\ finished = {}
  /\ dropped = {}
  /\ faults \in Scenario

Goto(r, label) == pc' = [pc EXCEPT ![r] = label]

\* ReadMessage returns the next message, already committed.
Read(r) ==
  /\ pc[r] = "reading"
  /\ inbox[r] # <<>>
  /\ inbox' = [inbox EXCEPT ![r] = Tail(@)]
  /\ msg' = [msg EXCEPT ![r] = Head(inbox[r])]
  /\ Goto(r, "locking")
  /\ UNCHANGED <<cancelled, spawned, tool, hyp, gemma, clock, findings, history, faults>>

\* The commit fails, or the message is no JSON: logged, continue.
ReadNothing(r) ==
  /\ CommitMayFail
  /\ pc[r] = "reading"
  /\ inbox[r] # <<>>
  /\ inbox' = [inbox EXCEPT ![r] = Tail(@)]
  /\ UNCHANGED <<pc, handler, clock, findings, history, faults>>

\* Mutant: GET and SET instead of SETNX; the key has appeared in between.
Acquire_NotAtomic(r) ==
  LET c == msg[r].case IN
  /\ pc[r] = "locking"
  /\ lock' = [lock EXCEPT ![c] = LockTTL]
  /\ held' = [held EXCEPT ![r] = 0]
  /\ started' = [started EXCEPT ![c] = @ + 1]
  /\ Goto(r, "saving")
  /\ UNCHANGED <<inbox, handler, ctxLeft, findings, finished, dropped, faults>>

\* SETNX lock:<case> "1" EX 30 succeeds.
Acquire(r) ==
  LET c == msg[r].case IN
  /\ pc[r] = "locking"
  /\ lock[c] = 0
  /\ lock' = [lock EXCEPT ![c] = LockTTL]
  /\ held' = [held EXCEPT ![r] = 0]
  /\ started' = [started EXCEPT ![c] = @ + 1]
  /\ Goto(r, "saving")
  /\ UNCHANGED <<inbox, handler, ctxLeft, findings, finished, dropped, faults>>

\* Mutant: one lock key for all cases.
LockedOut_OneKey(r) ==
  LET c == msg[r].case IN
  /\ pc[r] = "locking"
  /\ \E d \in Case : lock[d] > 0
  /\ dropped' = dropped \cup {c}
  /\ Goto(r, "reading")
  /\ UNCHANGED <<inbox, handler, clock, findings, started, finished, faults>>

\* The key is there: the message is dropped.
LockedOut(r) ==
  LET c == msg[r].case IN
  /\ pc[r] = "locking"
  /\ lock[c] > 0
  /\ dropped' = dropped \cup {c}
  /\ Goto(r, "reading")
  /\ UNCHANGED <<inbox, handler, clock, findings, started, finished, faults>>

\* Mutant: the error of SETNX is not looked at and the handler goes on.
LockError_Ignored(r) ==
  /\ RedisMayFail
  /\ pc[r] = "locking"
  /\ Goto(r, "saving")
  /\ UNCHANGED <<inbox, handler, clock, findings, history, faults>>

\* SETNX fails, or its answer is lost after Redis has applied it: dropped too.
LockError(r) ==
  LET c == msg[r].case IN
  /\ RedisMayFail
  /\ pc[r] = "locking"
  /\ lock' \in {lock, [lock EXCEPT ![c] = IF @ = 0 THEN LockTTL ELSE @]}
  /\ dropped' = dropped \cup {c}
  /\ Goto(r, "reading")
  /\ UNCHANGED <<inbox, handler, held, ctxLeft, findings, started, finished, faults>>

\* Mutant: the flags are declared outside the loop and keep their values.
Begin_StaleFlags(r) ==
  /\ pc[r] = "saving"
  /\ hyp' = [hyp EXCEPT ![r] = HypothesisTracker(msg[r])]
  /\ ctxLeft' = [ctxLeft EXCEPT ![r] = ToolTimeout]
  /\ cancelled' = [cancelled EXCEPT ![r] = FALSE]
  /\ spawned' = [spawned EXCEPT ![r] = 0]
  /\ gemma' = [gemma EXCEPT ![r] = "none"]
  /\ Goto(r, "tools")
  /\ UNCHANGED <<inbox, msg, tool, lock, held, findings, history, faults>>

\* HypothesisTracker, the status key (its error is only logged), and the
\* context and errgroup of the tools.
Begin(r) ==
  /\ pc[r] = "saving"
  /\ hyp' = [hyp EXCEPT ![r] = HypothesisTracker(msg[r])]
  /\ ctxLeft' = [ctxLeft EXCEPT ![r] = ToolTimeout]
  /\ cancelled' = [cancelled EXCEPT ![r] = FALSE]
  /\ spawned' = [spawned EXCEPT ![r] = 0]
  /\ tool' = [tool EXCEPT ![r] = [t \in Tool |-> "idle"]]
  /\ gemma' = [gemma EXCEPT ![r] = "none"]
  /\ Goto(r, "tools")
  /\ UNCHANGED <<inbox, msg, lock, held, findings, history, faults>>

\* The places of the tools that are planned and not yet handed over.
Pending(r) == {i \in Planned(msg[r]) : i > spawned[r]}

\* Mutant: no g.SetLimit.
Spawn_NoLimit(r) ==
  \E i \in Pending(r) :
    /\ pc[r] = "tools"
    /\ \A j \in Pending(r) : i <= j
    /\ spawned' = [spawned EXCEPT ![r] = i]
    /\ tool' = [tool EXCEPT ![r][ToolOrder[i]] = "running"]
    /\ UNCHANGED <<inbox, pc, msg, cancelled, hyp, gemma, clock, findings, history, faults>>

\* g.Go: blocks while ToolLimit tools are active.  A command is not even
\* started under a dead context; AnalyzeLogTimeline does not look at it.
Spawn(r) ==
  \E i \in Pending(r) :
    /\ pc[r] = "tools"
    /\ \A j \in Pending(r) : i <= j
    /\ Cardinality(Active(r)) < ToolLimit
    /\ spawned' = [spawned EXCEPT ![r] = i]
    /\ tool' = [tool EXCEPT ![r][ToolOrder[i]] =
                  IF CtxLive(r) \/ ToolOrder[i] = "AnalyzeLogTimeline" THEN "running" ELSE "doomed"]
    /\ UNCHANGED <<inbox, pc, msg, cancelled, hyp, gemma, clock, findings, history, faults>>

\* A tool returns.  The first error cancels the context of all the others.
ToolReturns(r, t) ==
  /\ \/ tool[r][t] = "running" /\ tool' \in {[tool EXCEPT ![r][t] = o] : o \in {"found", "clean", "error"}}
     \/ tool[r][t] = "doomed" /\ tool' = [tool EXCEPT ![r][t] = "error"]
  /\ cancelled' = [cancelled EXCEPT ![r] = @ \/ tool'[r][t] = "error"]
  /\ UNCHANGED <<inbox, pc, msg, spawned, hyp, gemma, clock, findings, history, faults>>

\* Mutant: the handler waits until every tool has succeeded.
WaitTools_NoneFailed(r) ==
  /\ pc[r] = "tools"
  /\ Pending(r) = {}
  /\ Active(r) = {} /\ \A t \in Tool : tool[r][t] # "error"
  /\ cancelled' = [cancelled EXCEPT ![r] = TRUE]
  /\ hyp' = [hyp EXCEPT ![r] = Adjust(@, Found(r))]
  /\ Goto(r, "scoring")
  /\ UNCHANGED <<inbox, msg, spawned, tool, gemma, clock, findings, history, faults>>

\* g.Wait returns when every tool has; it cancels the context in any case.
\* What the tools found is added to the scores.
WaitTools(r) ==
  /\ pc[r] = "tools"
  /\ Pending(r) = {}
  /\ Active(r) = {}
  /\ cancelled' = [cancelled EXCEPT ![r] = TRUE]
  /\ hyp' = [hyp EXCEPT ![r] = Adjust(@, Found(r))]
  /\ Goto(r, "scoring")
  /\ UNCHANGED <<inbox, msg, spawned, tool, gemma, clock, findings, history, faults>>

\* The self-correction loop: with a gap below 0.1 Gemma is called under the
\* errgroup's context.  Under a dead context no request leaves the process and
\* the error ends the loop; what an answer would lead to is not modelled.
SelfCorrect(r) ==
  /\ pc[r] = "scoring"
  /\ \/ /\ Uncertain(hyp[r]) \/ Borderline(hyp[r])
        /\ gemma' = [gemma EXCEPT ![r] = IF CtxLive(r) THEN "asked" ELSE "refused"]
     \/ ~Uncertain(hyp[r]) /\ UNCHANGED gemma
  /\ Goto(r, "publishing")
  /\ UNCHANGED <<inbox, msg, cancelled, spawned, tool, hyp, clock, findings, history, faults>>

\* WriteMessages under the same context.  Once it is dead the call returns its
\* error, either before the message is batched or while the batch is on its way.
Publish(r) ==
  LET c == msg[r].case
      sent == [findings EXCEPT ![c] = @ + 1]
  IN
  /\ pc[r] = "publishing"
  /\ findings' \in IF CtxLive(r) THEN {sent} ELSE {sent, findings}
  /\ finished' = finished \cup {c}
  /\ Goto(r, "reading")
  /\ UNCHANGED <<inbox, handler, clock, started, dropped, faults>>

\* A replica dies with its tools and is restarted; what it had read is lost.
Crash(r) ==
  /\ "crash" \in faults
  /\ pc[r] # "reading"
  /\ tool' = [tool EXCEPT ![r] = [t \in Tool |-> "idle"]]
  /\ Goto(r, "reading")
  /\ UNCHANGED <<inbox, msg, cancelled, spawned, hyp, gemma, clock, findings, history, faults>>

\* Nothing is left for the handler but to wait for a tool.
InTools(r) ==
  /\ pc[r] = "tools"
  /\ Active(r) # {}
  /\ Cardinality(Active(r)) = ToolLimit \/ Pending(r) = {}

\* Mutant: the tools' context has no deadline.
Tick_NoDeadline ==
  /\ \E c \in Case : lock[c] > 0
  /\ lock' = [c \in Case |-> IF lock[c] > 0 THEN lock[c] - 1 ELSE 0]
  /\ held' = [r \in Replica |-> IF held[r] < LockTTL THEN held[r] + 1 ELSE LockTTL]
  /\ UNCHANGED <<inbox, pc, handler, ctxLeft, findings, history, faults>>

\* Mutant: the remaining life is taken to be non-zero for every key.
Tick_Underflow ==
  /\ \E c \in Case : lock[c] > 0
  /\ lock' = [c \in Case |-> lock[c] - 1]
  /\ UNCHANGED <<inbox, pc, handler, held, ctxLeft, findings, history, faults>>

\* A second passes: for the locks in Redis and for every handler's context.
Tick ==
  /\ \/ \E c \in Case : lock[c] > 0
     \/ \E r \in Replica : ctxLeft[r] > 0
  /\ Prompt => \A r \in Replica : pc[r] = "reading" \/ InTools(r)
  /\ lock' = [c \in Case |-> IF lock[c] > 0 THEN lock[c] - 1 ELSE 0]
  /\ held' = [r \in Replica |-> IF held[r] < LockTTL THEN held[r] + 1 ELSE LockTTL]
  /\ ctxLeft' = [r \in Replica |-> IF ctxLeft[r] > 0 THEN ctxLeft[r] - 1 ELSE 0]
  /\ UNCHANGED <<inbox, pc, handler, findings, history, faults>>

Main(r) ==
  \/ Read(r) \/ ReadNothing(r)
  \/ Acquire(r) \/ LockedOut(r) \/ LockError(r)
  \/ Begin(r) \/ Spawn(r) \/ WaitTools(r) \/ SelfCorrect(r) \/ Publish(r)

Next ==
  \/ Tick
  \/ \E r \in Replica :
       \/ Main(r)
       \/ Crash(r)
       \/ \E t \in Tool : ToolReturns(r, t)

\* A tool comes back by itself only if it need not be killed first: the log
\* scan of a finite file, or a command whose context is dead.
MustReturn(r, t) == t = "AnalyzeLogTimeline" \/ ~CtxLive(r)

Fairness ==
  /\ WF_vars(Tick)
  /\ \A r \in Replica :
       /\ WF_vars(Main(r))
       /\ \A t \in Tool : WF_vars(MustReturn(r, t) /\ ToolReturns(r, t))

SafeSpec == Init /\ [][Next]_vars
Spec == SafeSpec /\ Fairness

-----------------------------------------------------------------------------
\* What the lock does promise: of two replicas in the handler of one case, one
\* has been there for longer than the lock lives (main.go:61-65).
ExclusiveWithinTTL ==
  \A r, s \in Replica :
    r # s /\ Handling(r) /\ Handling(s) /\ msg[r].case = msg[s].case =>
      held[r] = LockTTL \/ held[s] = LockTTL

\* The flags the tools set are read only when exactly the planned tools have
\* run and all have returned: no unsynchronised read, no flag of an earlier
\* case (main.go:74-196).
ScoredOnCompleteEvidence ==
  \A r \in Replica, t \in Tool :
    pc[r] \in {"scoring", "publishing"} =>
      (tool[r][t] \in {"found", "clean", "error"} <=> Gate(msg[r], t))

\* However tools end, fail and are cancelled, at most ToolLimit of a replica's
\* goroutines are active (main.go:73).
WithinToolLimit == \A r \in Replica : Cardinality(Active(r)) <= ToolLimit

\* The errgroup holds the tools back and brings them all home before a score is
\* read (main.go:71-196).
ToolsAreJoined == ScoredOnCompleteEvidence /\ WithinToolLimit

\* Only a replica that holds, or held, the lock publishes, and once per lock.
PublishedByOwner == \A c \in Case : findings[c] <= started[c]

\* Without Redis failures a message is dropped as locked only for a case that
\* some replica has begun to handle (main.go:62-65).
DroppedIsClaimed == ~RedisMayFail => \A c \in dropped : started[c] > 0

\* Nobody speaks for a case, or gives one up as taken, without a lock that was set
\* for it (main.go:61-65, 331-348).
ClaimsAreKept == PublishedByOwner /\ DroppedIsClaimed

\* Whatever tools hang or fail, a replica comes back to reading: the context's
\* deadline ends the commands and g.Wait returns (main.go:71-166).
HandlerReturns == \A r \in Replica : pc[r] # "reading" ~> pc[r] = "reading"

\* Without crashes and failures every case on the topic is handled to the end
\* by some replica, although messages are dropped at the lock.
EveryCaseHandled ==
  \A c \in Case :
    (faults = {} /\ \E r \in Replica : \E i \in 1..Len(inbox[r]) : inbox[r][i].case = c)
      ~> c \in finished

\* README.md:74: the lock is to "ensure single-worker case processing".
SingleWorker ==
  \A r, s \in Replica :
    r # s /\ Handling(r) /\ Handling(s) => msg[r].case # msg[s].case

\* README.md:76: a gap below 0.1 "automatically triggers an extended validation
\* subroutine", the call to Gemma.
UncertainAsksGemma ==
  \A r \in Replica : pc[r] = "publishing" /\ Uncertain(hyp[r]) => gemma[r] = "asked"
=============================================================================
