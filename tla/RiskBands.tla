----------------------------- MODULE RiskBands -----------------------------
(***************************************************************************)
(* The arithmetic of the decision engine (decision_engine/cmd/main.go:72-  *)
(* 104): the confidence of an ML2 message after the hallucination penalty, *)
(* and the band it falls into.  Confidences and rates are in thousandths.  *)
(***************************************************************************)
EXTENDS Integers

\* finalConfidence -= 0.15.  In float64 0.60 - 0.15 falls short of the 0.45 the
\* result is compared with; no other number of thousandths crosses a boundary.
Penalised(confidence) == IF confidence = 600 THEN 449 ELSE confidence - 150

\* Mutant: the rate itself is subtracted.
Final_RateSubtracted(confidence, rate) ==
  LET c == IF rate > 300 THEN confidence - rate ELSE confidence
  IN IF c < 0 THEN 10 ELSE c

\* finalConfidence, after the penalty and the clamp.
Final(confidence, rate) ==
  LET c == IF rate > 300 THEN Penalised(confidence) ELSE confidence
  IN IF c < 0 THEN 10 ELSE c

\* Mutant: the upper bound of MEDIUM is tested first and excludes 0.75.
Risk_OpenUpperBound(final) ==
  IF final >= 750 THEN "HIGH" ELSE IF final >= 450 THEN "MEDIUM" ELSE "LOW"

Risk(final) ==
  IF final > 750 THEN "HIGH" ELSE IF final >= 450 THEN "MEDIUM" ELSE "LOW"

Band(confidence, rate) == Risk(Final(confidence, rate))

\* Gemma is asked, but its resolution is only logged.
Consults(rate, disputed) == rate > 200 \/ disputed

-----------------------------------------------------------------------------
\* Read off the message: a doubted message is HIGH only above 0.90 and MEDIUM
\* only above 0.60, where a trusted one needs 0.75 and 0.45; the clamp never
\* lifts a message into a band (main.go:72-104).
BandExactly(confidence, rate) ==
  /\ Band(confidence, rate) = "HIGH" <=>
       confidence > 900 \/ (rate <= 300 /\ confidence > 750)
  /\ Band(confidence, rate) = "LOW" <=>
       confidence < 450 \/ (rate > 300 /\ confidence <= 600)

\* Two messages about a case that differ in the rate only are at most one band
\* apart: no hallucination takes a HIGH case past MEDIUM to LOW (main.go:74-104).
PenaltyCostsOneBand(confidence, rate, other) ==
  Band(confidence, rate) = "HIGH" => Band(confidence, other) # "LOW"
=============================================================================
