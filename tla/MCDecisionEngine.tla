-------------------------- MODULE MCDecisionEngine --------------------------
(* Messages for model-checking DecisionEngine. *)
EXTENDS DecisionEngine

CONSTANTS c1, c2

MCCase == {c1, c2}

\* HIGH in spite of the penalty, so Gemma is asked.
DoubtedHigh == [case |-> c1, confidence |-> 950, rate |-> 400, disputed |-> FALSE]

\* The same case again, MEDIUM and undisputed.
Medium == [case |-> c1, confidence |-> 600, rate |-> 0, disputed |-> FALSE]

\* Another case: disputed, and LOW because of the penalty.
DisputedLow == [case |-> c2, confidence |-> 600, rate |-> 301, disputed |-> TRUE]

MCMessage == {DoubtedHigh, Medium, DisputedLow}
=============================================================================
