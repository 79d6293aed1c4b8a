--------------------------- MODULE MCOrchestrator ---------------------------
(* Messages for model-checking Orchestrator. *)
EXTENDS Orchestrator

CONSTANTS c1, c2

MCCase == {c1, c2}

\* Two tools, so that the errgroup's limit of one is felt.
RootkitMessage ==
  [case |-> c1, memory |-> 900, logs |-> 0,
   signals |-> {"suspicious_pids", "memory_injection"}]

\* The same case again, scored on its log: one tool that ignores the context.
LogMessage == [case |-> c1, memory |-> 0, logs |-> 800, signals |-> {"log_anomaly", "encoded_cmd"}]

\* Scores between the thresholds: no hypothesis, no tool, a gap of zero.
UndecidedMessage == [case |-> c2, memory |-> 500, logs |-> 500, signals |-> {}]

MCMessage == {RootkitMessage, LogMessage, UndecidedMessage}

\* One tool at most, for the runs that contradict a document.
FewMessages == {[LogMessage EXCEPT !.signals = {"log_anomaly"}], UndecidedMessage}
=============================================================================
