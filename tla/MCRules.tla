------------------------------ MODULE MCRules ------------------------------
(* Evaluates the pure rules of the pipeline, one input to a state: the
   orchestrator's scoring on scores around every threshold and every set of
   findings, the decision engine's bands on every confidence in thousandths,
   the loader's two passes on every file, and the tools on small dumps. *)
EXTENDS Hypotheses, RiskBands, Artifacts, Tools, MCInput

CONSTANTS
  MCScore,   \* the ML1 scores tried
  MCRate     \* the hallucination rates tried

ASSUME RulesAssumption == MCScore \subseteq Score /\ MCRate \subseteq Nat

\* The tools whose findings count, and one whose findings do not.
MCFindings == SUBSET {"GetProcessTree", "CheckMemoryInjection", "GetNetworkConnections",
                      "AnalyzeBashHistory", "CheckKernelModules", "CheckPersistence"}

Scoring == {[what |-> "scoring", memory |-> a, logs |-> b, found |-> s] :
              a \in MCScore, b \in MCScore, s \in MCFindings}
Decision == [what : {"decision"}, confidence : 0..1000, rate : MCRate]
Acceptance == [what : {"acceptance"}, file : Artifact]

\* One dump to look at its processes, one for what is counted row by row.
MCProcess == [pid : {1, 40, 41}, ppid : {0, 1, 40},
              comm : {"systemd", "cron", "bash", "sshd", "implant"}]
UpTo(n, S) == UNION {[1..k -> S] : k \in 0..n}
MCDump == [processes : UpTo(2, MCProcess), regions : {<<>>}, commands : {<<>>}, modules : {<<>>}]
            \cup [processes : {<<>>}, regions : UpTo(2, {40, 41}),
                  commands : UpTo(2, {"wget", "rm -rf /var/log", "harmless"}),
                  modules : UpTo(2, {"ext4", "implant"})]
Dump == [what : {"dump"}, dump : MCDump, pid : {0, 1, 40}]
Line == [head : BOOLEAN, rest : BOOLEAN, full : BOOLEAN, long : BOOLEAN]
Log == [what : {"log"}, syslog : [there : BOOLEAN, lines : UpTo(2, Line)]]

RulesInit ==
  input \in Scoring \/ input \in Decision \/ input \in Acceptance \/ input \in Dump
  \/ input \in Log

\* The ML1 message with the scores of an input.
Scored == [case |-> "c", memory |-> input.memory, logs |-> input.logs, signals |-> {}]

\* The gap that decides whether Gemma is asked is that of Go's sort.Float64s:
\* of the sorted scores, the last minus the one before (main.go:206-212).
GapIsSorted ==
  input.what = "scoring" =>
    LET a == Adjust(HypothesisTracker(Scored), input.found)
        scores == <<a.rootkit, a.lateral, a.falsePositive>>
        sorted == CHOOSE p \in {<<1, 2, 3>>, <<1, 3, 2>>, <<2, 1, 3>>,
                                <<2, 3, 1>>, <<3, 1, 2>>, <<3, 2, 1>>} :
                    scores[p[1]] <= scores[p[2]] /\ scores[p[2]] <= scores[p[3]]
    IN Gap(a) = scores[sorted[3]] - scores[sorted[2]]

\* The orchestrator is uncertain about exactly two kinds of message
\* (func.go:19-32, main.go:206-213).
Uncertainty == input.what = "scoring" => UncertainExactly(Scored)

\* However much the tools find, a confidence has its bounds (main.go:169-197).
Bounds == input.what = "scoring" => ConfidenceBounds(Scored, input.found)

\* The band of a message, read off its fields (decision_engine main.go:72-104).
Bands == input.what = "decision" => BandExactly(input.confidence, input.rate)

\* A hallucination rate costs a message at most one band (main.go:74-104).
OneBand ==
  input.what = "decision" =>
    \A other \in MCRate : PenaltyCostsOneBand(input.confidence, input.rate, other)

\* Which recognised names are dead ends (worker.go:209-273, 310-361).
DeadEnds == input.what = "acceptance" => DeadEnd(input.file)

\* No file is accepted on its name alone (worker.go:209-361).
OnContent == input.what = "acceptance" => AcceptedOnContent(input.file)

\* What the tools conclude from a dump (func.go:36-295).
ToolsAnswer == input.what = "dump" => ToolsSee(input.dump, input.pid)

\* What they conclude from a syslog (func.go:217-271, main.go:126-146).
LogAnswer == input.what = "log" => LogAlertCounts(input.syslog)

\* The scores of a case are what its ML1 scores and its tools' findings make
\* them, and the band what confidence and hallucination rate make it, each on
\* its side of every threshold (orchestrator func.go:16-34, main.go:169-215;
\* decision_engine main.go:72-104).
ScoresAndBands == GapIsSorted /\ Uncertainty /\ Bounds /\ Bands /\ OneBand

\* What the services read off evidence: the two passes of the loader over a file,
\* and the tools over the rows of a plugin or the lines of a syslog
\* (evidence-loader worker.go:208-362, orchestrator func.go:36-295).
EvidenceIsRead == DeadEnds /\ OnContent /\ ToolsAnswer /\ LogAnswer

\* README.md:187: the plugins give "binary ground truth", "exact process trees";
\* a process that is listed, not being init, is found in the tree.
ListedProcessIsFound ==
  input.what = "dump" =>
    LET d == input.dump IN
    input.pid \notin {0, 1} /\ (\E i \in DOMAIN d.processes : d.processes[i].pid = input.pid)
      => GetProcessTree(d, input.pid) = "found"
=============================================================================
