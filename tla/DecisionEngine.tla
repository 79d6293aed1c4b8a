--------------------------- MODULE DecisionEngine ---------------------------
(***************************************************************************)
(* The decision engine (decision_engine/cmd/main.go and internal/worker):  *)
(* one process that reads ml2-verified-findings, looks the case up in      *)
(* Redis, routes unknown cases to the dead-letter topic, and for the       *)
(* others settles a risk band, writes the report of HIGH cases to disk and *)
(* overwrites the case's pipeline state.  A message is known by its        *)
(* offset, which is also what a report or a state is stamped with.         *)
(***************************************************************************)
EXTENDS RiskBands, Sequences, FiniteSets

CONSTANTS
  Case,
  ML2Message,    \* the messages ML2 may produce
  Malformed,     \* a message that does not unmarshal
  MaxTopic,      \* bound: messages in the topic
  MaxCrashes,    \* bound: how often the process dies and is restarted
  Scenario       \* the combinations of faults considered, see Fault

Message == ML2Message \cup {Malformed}

\* A Redis command may fail, or fail though applied; so may an offset commit or
\* a write to the dead-letter topic; mkdir or a file write; the process may die.
Fault == {"redis", "broker", "disk", "crash"}

ASSUME DecisionAssumption ==
  /\ ML2Message \subseteq [case : Case, confidence : Nat, rate : Nat, disputed : BOOLEAN]
  /\ Malformed \notin ML2Message
  /\ MaxTopic \in Nat
  /\ MaxCrashes \in Nat
  /\ Scenario # {} /\ Scenario \subseteq SUBSET Fault

VARIABLES
  topic, position, committed, delivered,  \* the ml2-verified-findings partition
  pc,      \* where main is in its loop
  cur,     \* offset of the message in hand, 0 when there is none
  known,   \* cases with a key case:<id>:status, which other programs write
  dlq,     \* offsets of the messages the dead-letter topic holds
  report,  \* report[c]: offset whose narrative is in ir_report.md
  trace,   \* trace[c]: offset whose facts are in hypothesis_trace.json
  state,   \* state[c]: pipeline:<c>:state, as the band and the offset it is from
  crashes, \* how often the process has died
  faults   \* the faults this behaviour may meet, chosen once

readerVars == <<topic, position, committed, delivered>>
disk == <<report, trace>>
vars == <<readerVars, pc, cur, known, dlq, disk, state, crashes, faults>>

Reader == INSTANCE GroupReader

RedisMayFail == "redis" \in faults
BrokerMayFail == "broker" \in faults
DiskMayFail == "disk" \in faults

\* A file that is missing, and one that is truncated or half written.
NoFile == 0
Torn == -1

\* The key holds nothing of this process: absent, or the loader's "ready".
NotDecided == [risk |-> "none", from |-> 0]

m == topic[cur]
Confidence == Final(m.confidence, m.rate)

TypeOK ==
  /\ Reader!TypeOK
  /\ pc \in {"reading", "checking", "dead_letter", "consulting", "deciding",
             "report", "trace", "saving"}
  /\ cur \in 0..Len(topic)
  /\ pc # "reading" => cur # 0 /\ m # Malformed
  /\ known \subseteq Case
  /\ dlq \subseteq Reader!Offset
  /\ report \in [Case -> {Torn, NoFile} \cup Reader!Offset]
  /\ trace \in [Case -> {Torn, NoFile} \cup Reader!Offset]
  /\ state \in [Case -> [risk : {"none", "LOW", "MEDIUM", "HIGH"}, from : 0..Len(topic)]]
  /\ crashes \in 0..MaxCrashes
  /\ faults \in Scenario

-----------------------------------------------------------------------------
Init ==
  /\ topic \in UNION {[1..n -> Message] : n \in 0..MaxTopic}
  /\ Reader!Init
  /\ pc = "reading"
  /\ cur = 0
  /\ known \in SUBSET Case
  /\ dlq = {}
  /\ report = [c \in Case |-> NoFile]
  /\ trace = [c \in Case |-> NoFile]
  /\ state = [c \in Case |-> NotDecided]
  /\ crashes = 0
  /\ faults \in Scenario

\* The message does not unmarshal: logged, dropped.
Drop ==
  /\ pc = "reading"
  /\ Reader!ReadMessage
  /\ topic[position] = Malformed
  /\ UNCHANGED <<pc, cur, known, dlq, disk, state, crashes, faults>>

Receive ==
  /\ pc = "reading"
  /\ Reader!ReadMessage
  /\ topic[position] # Malformed
  /\ cur' = position
  /\ pc' = "checking"
  /\ UNCHANGED <<known, dlq, disk, state, crashes, faults>>

\* ReadMessage returns an error: continue.
ReadError ==
  /\ BrokerMayFail
  /\ pc = "reading"
  /\ Reader!CommitFails
  /\ UNCHANGED <<pc, cur, known, dlq, disk, state, crashes, faults>>

\* EXISTS case:<id>:status answers, or fails, which drops the message.
Check ==
  /\ pc = "checking"
  /\ \/ /\ m.case \in known
        /\ pc' = IF Consults(m.rate, m.disputed) THEN "consulting" ELSE "deciding"
        /\ UNCHANGED cur
     \/ m.case \notin known /\ pc' = "dead_letter" /\ UNCHANGED cur
     \/ RedisMayFail /\ pc' = "reading" /\ cur' = 0
  /\ UNCHANGED <<readerVars, known, dlq, disk, state, crashes, faults>>

\* Mutant: no continue after the write; the message is decided as well.
DeadLetter_FallsThrough ==
  /\ pc = "dead_letter"
  /\ dlq' = dlq \cup {cur}
  /\ pc' = "deciding"
  /\ UNCHANGED <<readerVars, cur, known, disk, state, crashes, faults>>

\* The write to the dead-letter topic; an error, which may come after the
\* message was stored, is only logged.
DeadLetter ==
  /\ pc = "dead_letter"
  /\ dlq' \in {dlq \cup {cur}} \cup IF BrokerMayFail THEN {dlq} ELSE {}
  /\ pc' = "reading"
  /\ cur' = 0
  /\ UNCHANGED <<readerVars, known, disk, state, crashes, faults>>

\* Mutant: Gemma is asked again until it answers, and it does not.
Consult_UntilAnswered ==
  /\ pc = "consulting"
  /\ UNCHANGED vars

\* MakeDecision returns a resolution or, after at most 30 s, an error; neither
\* changes anything.
Consult ==
  /\ pc = "consulting"
  /\ pc' = "deciding"
  /\ UNCHANGED <<readerVars, cur, known, dlq, disk, state, crashes, faults>>

\* Mutant: the status is saved and SaveDataToStorage is never reached.
Decide_StatusOnly ==
  /\ pc = "deciding"
  /\ pc' = "saving"
  /\ UNCHANGED <<readerVars, cur, known, dlq, disk, state, crashes, faults>>

\* Only a HIGH case reaches SaveDataToStorage.
Decide ==
  /\ pc = "deciding"
  /\ pc' = IF Risk(Confidence) = "HIGH" THEN "report" ELSE "saving"
  /\ UNCHANGED <<readerVars, cur, known, dlq, disk, state, crashes, faults>>

\* MkdirAll and WriteFile of ir_report.md.  An error, before or after the file
\* was truncated, skips the trace and is only logged.
WriteReport ==
  /\ pc = "report"
  /\ \/ report' = [report EXCEPT ![m.case] = cur] /\ pc' = "trace"
     \/ /\ DiskMayFail
        /\ report' \in {report, [report EXCEPT ![m.case] = Torn]}
        /\ pc' = "saving"
  /\ UNCHANGED <<readerVars, cur, known, dlq, trace, state, crashes, faults>>

\* WriteFile of hypothesis_trace.json.
WriteTrace ==
  /\ pc = "trace"
  /\ \/ trace' = [trace EXCEPT ![m.case] = cur]
     \/ DiskMayFail /\ trace' \in {trace, [trace EXCEPT ![m.case] = Torn]}
  /\ pc' = "saving"
  /\ UNCHANGED <<readerVars, cur, known, dlq, report, state, crashes, faults>>

\* SaveStatusToRedis: SET pipeline:<case>:state EX 24 h; an error is only logged.
SaveStatus ==
  LET saved == [state EXCEPT ![m.case] = [risk |-> Risk(Confidence), from |-> cur]] IN
  /\ pc = "saving"
  /\ state' \in {saved} \cup IF RedisMayFail THEN {state} ELSE {}
  /\ pc' = "reading"
  /\ cur' = 0
  /\ UNCHANGED <<readerVars, known, dlq, disk, crashes, faults>>

\* The process dies, possibly in the middle of a file, and is started again.
Crash ==
  /\ "crash" \in faults
  /\ crashes < MaxCrashes
  /\ crashes' = crashes + 1
  /\ Reader!Resume
  /\ pc' = "reading"
  /\ cur' = 0
  /\ report' \in {report} \cup
       IF pc = "report" THEN {[report EXCEPT ![m.case] = Torn]} ELSE {}
  /\ trace' \in {trace} \cup
       IF pc = "trace" THEN {[trace EXCEPT ![m.case] = Torn]} ELSE {}
  /\ UNCHANGED <<known, dlq, state, faults>>

\* The group is rebalanced while main is doing whatever it does.
Rebalance ==
  /\ BrokerMayFail
  /\ Reader!Resume
  /\ UNCHANGED <<pc, cur, known, dlq, disk, state, crashes, faults>>

\* Another program sets or deletes the status key of a case.
StatusKeyChanges(c) ==
  /\ known' = IF c \in known THEN known \ {c} ELSE known \cup {c}
  /\ UNCHANGED <<readerVars, pc, cur, dlq, disk, state, crashes, faults>>

\* The pipeline state reaches the end of its 24 h.
StateExpires(c) ==
  /\ state[c] # NotDecided
  /\ state' = [state EXCEPT ![c] = NotDecided]
  /\ UNCHANGED <<readerVars, pc, cur, known, dlq, disk, crashes, faults>>

Main ==
  \/ Drop \/ Receive \/ ReadError
  \/ Check \/ DeadLetter \/ Consult \/ Decide
  \/ WriteReport \/ WriteTrace \/ SaveStatus

Next ==
  \/ Main
  \/ Crash \/ Rebalance
  \/ \E c \in Case : StatusKeyChanges(c) \/ StateExpires(c)

\* The loop never blocks for good: the call to Ollama has a timeout of 30 s,
\* the Redis and Kafka clients have theirs.
Fairness == WF_vars(Main)

SafeSpec == Init /\ [][Next]_vars
Spec == SafeSpec /\ Fairness

-----------------------------------------------------------------------------
\* A message in the dead-letter topic, left to an analyst, has not left a
\* report, a trace or a risk behind, and never will (main.go:61-71).
DeadLetterNotDecided ==
  \A o \in dlq, c \in Case : report[c] # o /\ trace[c] # o /\ state[c].from # o

\* The state and the files of a case only move forward in the topic: whatever
\* crashes, an older message never replaces what a newer one left (main.go:43-103).
NewestDecides ==
  [][\A c \in Case :
       /\ state'[c].from >= state[c].from \/ state'[c] = NotDecided
       /\ report'[c] >= report[c] \/ report'[c] = Torn
       /\ trace'[c] >= trace[c] \/ trace'[c] = Torn]_vars

\* While the disk works, HIGH is announced only when the report and the trace
\* of that very message are on disk, whole (main.go:91-97).
HighOnlyWithReport ==
  [][\A c \in Case :
       ~DiskMayFail /\ state'[c] # state[c] /\ state'[c].risk = "HIGH" =>
         report'[c] = state'[c].from /\ trace'[c] = state'[c].from]_vars

\* Without crashes and failures every readable message read is settled: it
\* sets the risk of its case or goes to the dead-letter topic, however long
\* Gemma takes and whenever status keys come and go.
EveryMessageSettled ==
  \A o \in 1..MaxTopic :
    (faults = {} /\ position = o /\ o <= Len(topic) /\ topic[o] # Malformed) ~>
      (o \in dlq \/ \E c \in Case : state[c].from = o)

=============================================================================
