----------------------------- MODULE Hypotheses -----------------------------
(***************************************************************************)
(* The rule-based scoring of the orchestrator: the three hypotheses that   *)
(* HypothesisTracker derives from an ML1 message (func.go), the tools the  *)
(* message calls for, what the tools' findings add (main.go:74-196), and   *)
(* the gap that decides whether Gemma is asked (main.go:205-215).          *)
(*                                                                         *)
(* ML1 scores are in thousandths and confidences in ten-thousandths, so    *)
(* that 0.8 * score is the integer 8 * score.  A feature or a SHAP value   *)
(* is a signal that is present (above the threshold the code compares it   *)
(* with) or absent.  The arithmetic is exact; where float64 rounding       *)
(* decides a comparison, the definition concerned says so.                 *)
(***************************************************************************)
EXTENDS Integers, Sequences

Signal == {"suspicious_pids", "memory_injection", "external_connection",
           "suspicious_bash_cmd", "suspicious_kernel_module", "log_anomaly",
           "new_service_or_cron", "encoded_cmd"}

\* The fields of ML1ScoredMessage that the orchestrator decides on.
Score == 0..1000
ScoredMessage(Case) == [case : Case, memory : Score, logs : Score, signals : SUBSET Signal]

\* In the order in which they are handed to the errgroup.
ToolOrder == <<"GetProcessTree", "CheckMemoryInjection", "GetNetworkConnections",
               "AnalyzeBashHistory", "CheckKernelModules", "AnalyzeLogTimeline",
               "CheckPersistence", "DecodeCommands">>

Tool == {ToolOrder[i] : i \in 1..Len(ToolOrder)}

-----------------------------------------------------------------------------
\* Mutant: the rule for the false positive looks at one score only.
HypothesisTracker_EitherScoreLow(m) ==
  [rootkit |-> IF m.memory > 700 THEN 8 * m.memory ELSE 0,
   lateral |-> IF m.logs > 700 THEN 8 * m.logs ELSE 0,
   falsePositive |-> IF m.memory < 400 \/ m.logs < 400 THEN 7000 ELSE 0]

HypothesisTracker(m) ==
  [rootkit |-> IF m.memory > 700 THEN 8 * m.memory ELSE 0,
   lateral |-> IF m.logs > 700 THEN 8 * m.logs ELSE 0,
   falsePositive |-> IF m.memory < 400 /\ m.logs < 400 THEN 7000 ELSE 0]

\* What a message must show for a tool to be started.  In float64 0.8 * 0.875
\* exceeds 0.7, so the code's > is >= here.
Gate(m, t) ==
  CASE t = "GetProcessTree" ->
         HypothesisTracker(m).rootkit >= 7000 /\ "suspicious_pids" \in m.signals
    [] t = "CheckMemoryInjection" -> {"memory_injection", "suspicious_pids"} \subseteq m.signals
    [] t = "GetNetworkConnections" -> "external_connection" \in m.signals
    [] t = "AnalyzeBashHistory" -> "suspicious_bash_cmd" \in m.signals
    [] t = "CheckKernelModules" -> "suspicious_kernel_module" \in m.signals
    [] t = "AnalyzeLogTimeline" -> "log_anomaly" \in m.signals
    [] t = "CheckPersistence" -> "new_service_or_cron" \in m.signals
    [] t = "DecodeCommands" -> "encoded_cmd" \in m.signals

\* Where in ToolOrder the tools stand that a message calls for.
Planned(m) == {i \in 1..Len(ToolOrder) : Gate(m, ToolOrder[i])}

Gain(found, t, amount) == IF t \in found THEN amount ELSE 0

\* Mutant: the kernel module is counted for the bash history as well.
Evidence_CountedTwice(found) ==
  Gain(found, "GetProcessTree", 1000) + Gain(found, "CheckMemoryInjection", 1500)
  + Gain(found, "CheckKernelModules", 3000)
  + Gain(found, "AnalyzeBashHistory", 1000) + Gain(found, "CheckPersistence", 1500)

\* Network, log and decoding findings go to Against and leave the score alone.
Evidence(found) ==
  Gain(found, "GetProcessTree", 1000) + Gain(found, "CheckMemoryInjection", 1500)
  + Gain(found, "CheckKernelModules", 1500)
  + Gain(found, "AnalyzeBashHistory", 1000) + Gain(found, "CheckPersistence", 1500)

Adjust(h, found) ==
  [rootkit |-> h.rootkit + Evidence(found),
   lateral |-> h.lateral,
   falsePositive |-> h.falsePositive]

Larger(a, b) == IF a >= b THEN a ELSE b
Smaller(a, b) == IF a <= b THEN a ELSE b

Top(h) == Larger(Larger(h.rootkit, h.lateral), h.falsePositive)
Bottom(h) == Smaller(Smaller(h.rootkit, h.lateral), h.falsePositive)
Second(h) == h.rootkit + h.lateral + h.falsePositive - Top(h) - Bottom(h)

\* Mutant: the gap between the best and the worst.
Gap_TopToBottom(h) == Top(h) - Bottom(h)

\* totalScore[2] - totalScore[1] of the sorted scores.
Gap(h) == Top(h) - Second(h)

\* Below 0.1 the code turns to Gemma.
Uncertain(h) == Gap(h) < 1000

\* Where the exact gap is 0.1, rounding decides: 0.8 * 0.827 - 0.8 * 0.702
\* falls below 0.1 in float64, 0.8 * 0.826 - 0.8 * 0.701 does not.
Borderline(h) == Gap(h) = 1000

-----------------------------------------------------------------------------
\* Before any tool has run, the code is uncertain in two cases only: nothing
\* was hypothesised, or a rootkit and lateral movement are both suspected on
\* scores less than 0.125 apart (func.go:19-32, main.go:206-213).  A difference
\* of exactly 0.125 is Borderline.
UncertainExactly(m) ==
  LET h == HypothesisTracker(m) IN
  Uncertain(h) <=>
    \/ h = [rootkit |-> 0, lateral |-> 0, falsePositive |-> 0]
    \/ /\ h.rootkit > 0 /\ h.lateral > 0
       /\ -125 < m.memory - m.logs /\ m.memory - m.logs < 125

\* The confidences are not normalised: a rootkit may reach 1.45, no more, and
\* nothing is negative (main.go:169-197).
ConfidenceBounds(m, found) ==
  LET a == Adjust(HypothesisTracker(m), found) IN
  /\ 0 <= a.rootkit /\ a.rootkit <= 14500
  /\ 0 <= Gap(a) /\ Gap(a) <= 14500
=============================================================================
