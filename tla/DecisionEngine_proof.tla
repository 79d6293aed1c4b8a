------------------------ MODULE DecisionEngine_proof ------------------------
(***************************************************************************)
(* The separation of the dead-letter topic from the decided cases, for any *)
(* number of messages, crashes and failures.                               *)
(***************************************************************************)
EXTENDS DecisionEngine, SequenceTheorems, TLAPS

\* Every trace that a message leaves, in the dead-letter topic or in a case, is
\* behind the committed offset, so the next message received is a fresh one;
\* and until it is routed, the message in hand has left none.
Fresh ==
  /\ committed <= position
  /\ \A o \in dlq : o < committed
  /\ \A c \in Case : report[c] < committed /\ trace[c] < committed /\ state[c].from < committed
  /\ pc # "reading" => cur < committed /\ cur \notin dlq
  /\ pc \in {"checking", "dead_letter"} =>
       \A c \in Case : report[c] # cur /\ trace[c] # cur /\ state[c].from # cur

IInv == TypeOK /\ Fresh /\ DeadLetterNotDecided

LEMMA InitIInv == Init => IInv
<1> SUFFICES ASSUME Init PROVE IInv
  OBVIOUS
<1>1. topic \in Seq(Message)
  BY DEF Init, Reader!Init
<1>2. position = 1 /\ committed = 1 /\ delivered = <<>>
  BY DEF Init, Reader!Init
<1>3. Len(topic) \in Nat
  BY <1>1
<1>4. Reader!TypeOK
  BY <1>1, <1>2, <1>3 DEF Reader!TypeOK, Reader!Offset
<1>5. TypeOK
  BY <1>3, <1>4, DecisionAssumption DEF Init, TypeOK, NotDecided, NoFile, Torn
<1>6. Fresh /\ DeadLetterNotDecided
  BY <1>2 DEF Init, Fresh, DeadLetterNotDecided, NotDecided, NoFile
<1> QED BY <1>5, <1>6 DEF IInv

\* Whatever the reader does, its topic stays and the committed offset grows.
LEMMA ReaderStep ==
  ASSUME Reader!TypeOK, committed <= position,
         Reader!ReadMessage \/ Reader!CommitFails \/ Reader!Resume \/ UNCHANGED readerVars
  PROVE  /\ topic' = topic /\ Reader!TypeOK' /\ Reader!Offset' = Reader!Offset
         /\ committed' <= position' /\ committed <= committed'
<1>1. /\ Len(topic) \in Nat /\ delivered \in Seq(Reader!Offset)
      /\ position \in Nat /\ committed \in Nat
  BY DEF Reader!TypeOK
<1>2. topic' = topic /\ Reader!Offset' = Reader!Offset
  BY DEF Reader!ReadMessage, Reader!CommitFails, Reader!Resume, readerVars, Reader!Offset
<1>3. committed' <= position' /\ committed <= committed'
  BY <1>1 DEF Reader!ReadMessage, Reader!CommitFails, Reader!Resume, readerVars
<1>4. position' \in 1..(Len(topic) + 1) /\ committed' \in 1..(Len(topic) + 1)
  BY <1>1 DEF Reader!TypeOK, Reader!ReadMessage, Reader!CommitFails, Reader!Resume, readerVars
<1>5. delivered' \in Seq(Reader!Offset)
  <2>1. CASE Reader!ReadMessage
    <3>1. position \in Reader!Offset
      BY <1>1, <2>1 DEF Reader!TypeOK, Reader!ReadMessage, Reader!Offset
    <3> QED BY <1>1, <2>1, <3>1 DEF Reader!ReadMessage
  <2>2. CASE ~Reader!ReadMessage
    BY <1>1, <2>2 DEF Reader!CommitFails, Reader!Resume, readerVars
  <2> QED BY <2>1, <2>2
<1> QED BY <1>2, <1>3, <1>4, <1>5 DEF Reader!TypeOK

\* The message in hand is one of ML2's about one of the cases.
LEMMA InHand ==
  ASSUME TypeOK, pc # "reading"
  PROVE  cur \in Reader!Offset /\ m \in ML2Message /\ m.case \in Case
<1>1. Len(topic) \in Nat /\ topic \in Seq(Message) /\ cur \in 0..Len(topic) /\ cur # 0 /\ m # Malformed
  BY DEF TypeOK, Reader!TypeOK
<1>2. cur \in Reader!Offset /\ m \in Message
  BY <1>1 DEF Reader!Offset, m
<1> QED BY <1>1, <1>2, DecisionAssumption DEF Message

\* Offsets are positive numbers, and what the cases are stamped with are numbers.
LEMMA Stamps ==
  ASSUME TypeOK
  PROVE  /\ position \in Nat /\ committed \in Nat /\ cur \in Nat /\ Len(topic) \in Nat
         /\ \A o \in dlq : o \in Nat /\ o > 0
         /\ \A c \in Case : report[c] \in Int /\ trace[c] \in Int /\ state[c].from \in Nat
<1>1. Len(topic) \in Nat
  BY DEF TypeOK, Reader!TypeOK
<1> QED BY <1>1 DEF TypeOK, Reader!TypeOK, Reader!Offset, Torn, NoFile

\* A step that leaves dead letters and cases alone and goes back to reading, or
\* on with the message in hand without going back to its routing.
LEMMA NothingLeft ==
  ASSUME IInv, UNCHANGED <<dlq, report, trace, state>>,
         committed' <= position', committed <= committed', committed' \in Nat,
         \/ pc' = "reading"
         \/ pc # "reading" /\ cur' = cur /\ (pc' = pc \/ pc = "checking" \/ pc' \notin {"checking", "dead_letter"})
  PROVE  Fresh' /\ DeadLetterNotDecided'
<1>1. /\ TypeOK /\ Fresh /\ DeadLetterNotDecided
      /\ position \in Nat /\ committed \in Nat /\ cur \in Nat
      /\ \A o \in dlq : o \in Nat
      /\ \A c \in Case : report[c] \in Int /\ trace[c] \in Int /\ state[c].from \in Nat
  BY Stamps DEF IInv
<1>2. /\ \A o \in dlq' : o < committed'
      /\ \A c \in Case : report'[c] < committed' /\ trace'[c] < committed' /\ state'[c].from < committed'
  BY <1>1 DEF Fresh
<1>3. pc' # "reading" => cur' < committed' /\ cur' \notin dlq'
  BY <1>1 DEF Fresh
<1>4. pc' \in {"checking", "dead_letter"} =>
        \A c \in Case : report'[c] # cur' /\ trace'[c] # cur' /\ state'[c].from # cur'
  BY <1>1 DEF Fresh
<1> QED BY <1>1, <1>2, <1>3, <1>4 DEF Fresh, DeadLetterNotDecided

-----------------------------------------------------------------------------
\* Steps that read or leave a message, or only move on in the loop.
LEMMA PlainStep ==
  ASSUME IInv,
         Reader!ReadMessage \/ Reader!CommitFails \/ Reader!Resume \/ UNCHANGED readerVars,
         UNCHANGED <<dlq, report, trace, state>>,
         known' \subseteq Case, crashes' \in 0..MaxCrashes, faults' = faults,
         \/ pc' = "reading" /\ cur' \in {0, cur}
         \/ /\ pc # "reading" /\ cur' = cur
            /\ pc' = pc \/ (pc = "checking" /\ pc' = "dead_letter")
                 \/ pc' \in {"consulting", "deciding", "report", "trace", "saving"}
  PROVE  IInv'
<1>1. TypeOK /\ Reader!TypeOK /\ committed <= position
  BY DEF IInv, TypeOK, Fresh
<1>2. /\ topic' = topic /\ Reader!TypeOK' /\ Reader!Offset' = Reader!Offset
      /\ committed' <= position' /\ committed <= committed'
  BY <1>1, ReaderStep
<1>3. committed' \in Nat /\ Len(topic) \in Nat
  BY <1>2 DEF Reader!TypeOK
<1>4. Fresh' /\ DeadLetterNotDecided'
  BY <1>2, <1>3, NothingLeft
<1>5. /\ pc' \in {"reading", "checking", "dead_letter", "consulting", "deciding",
                  "report", "trace", "saving"}
      /\ cur' \in 0..Len(topic)
      /\ pc' # "reading" => cur' # 0 /\ topic[cur'] # Malformed
  BY <1>1, <1>3 DEF TypeOK, m
<1>6. TypeOK'
  BY <1>1, <1>2, <1>5 DEF TypeOK, m
<1> QED BY <1>4, <1>6 DEF IInv

LEMMA ReceiveKeepsIInv == ASSUME IInv, Receive PROVE IInv'
<1>1. /\ TypeOK /\ Reader!TypeOK /\ Fresh /\ DeadLetterNotDecided
      /\ position \in Nat /\ committed \in Nat /\ Len(topic) \in Nat
      /\ \A o \in dlq : o \in Nat
      /\ \A c \in Case : report[c] \in Int /\ trace[c] \in Int /\ state[c].from \in Nat
  BY Stamps DEF IInv, TypeOK
<1>2. /\ topic' = topic /\ Reader!TypeOK' /\ Reader!Offset' = Reader!Offset
      /\ committed' <= position' /\ committed <= committed'
  BY <1>1, ReaderStep DEF Receive, Fresh
<1>3. /\ pc' = "checking" /\ cur' = position /\ committed' = position + 1
      /\ topic[position] # Malformed /\ position \in 1..Len(topic)
      /\ known' = known /\ dlq' = dlq /\ report' = report /\ trace' = trace /\ state' = state
      /\ crashes' = crashes /\ faults' = faults
  BY <1>1 DEF Receive, Reader!ReadMessage, Reader!TypeOK, disk
<1>4. TypeOK'
  <2>1. cur' \in 0..Len(topic) /\ cur' # 0 /\ m' # Malformed
    BY <1>1, <1>2, <1>3 DEF m
  <2> QED BY <1>1, <1>2, <1>3, <2>1 DEF TypeOK
<1>5. Fresh'
  <2>1. \A o \in dlq : o < position
    BY <1>1 DEF Fresh
  <2>2. \A c \in Case : report[c] < position /\ trace[c] < position /\ state[c].from < position
    BY <1>1 DEF Fresh
  <2> QED BY <1>1, <1>2, <1>3, <2>1, <2>2 DEF Fresh
<1>6. DeadLetterNotDecided'
  BY <1>1, <1>3 DEF DeadLetterNotDecided
<1> QED BY <1>4, <1>5, <1>6 DEF IInv

LEMMA CheckKeepsIInv == ASSUME IInv, Check PROVE IInv'
<1>1. pc = "checking" /\ TypeOK
  BY DEF Check, IInv
<1>2. known' \subseteq Case /\ crashes' \in 0..MaxCrashes /\ faults' = faults
  BY <1>1 DEF Check, TypeOK
<1>3. UNCHANGED <<dlq, report, trace, state>> /\ UNCHANGED readerVars
  BY DEF Check, disk
<1>4. \/ pc' = "reading" /\ cur' \in {0, cur}
      \/ cur' = cur /\ pc' \in {"dead_letter", "consulting", "deciding"}
  BY DEF Check
<1> QED BY <1>1, <1>2, <1>3, <1>4, PlainStep

LEMMA DeadLetterKeepsIInv == ASSUME IInv, DeadLetter PROVE IInv'
<1>1. /\ TypeOK /\ Reader!TypeOK /\ Fresh /\ DeadLetterNotDecided /\ pc = "dead_letter"
      /\ Len(topic) \in Nat
  BY Stamps DEF IInv, TypeOK, DeadLetter
<1>2. cur \in Reader!Offset
  BY <1>1, InHand
<1>3. /\ pc' = "reading" /\ cur' = 0 /\ known' = known /\ report' = report /\ trace' = trace
      /\ state' = state /\ crashes' = crashes /\ faults' = faults
      /\ topic' = topic /\ position' = position /\ committed' = committed
      /\ delivered' = delivered
      /\ dlq' = dlq \/ dlq' = dlq \cup {cur}
  BY DEF DeadLetter, readerVars, disk
<1>4. Reader!TypeOK' /\ Reader!Offset' = Reader!Offset
  BY <1>1, <1>3 DEF Reader!TypeOK, Reader!Offset
<1>5. TypeOK'
  <2>1. dlq \subseteq Reader!Offset
    BY <1>1 DEF TypeOK
  <2>2. dlq' \subseteq Reader!Offset
    BY <1>2, <1>3, <2>1, Zenon
  <2>3. cur' \in 0..Len(topic)
    BY <1>1, <1>3
  <2> QED BY <1>1, <1>3, <1>4, <2>2, <2>3 DEF TypeOK
<1>6. Fresh'
  BY <1>1, <1>3 DEF Fresh
<1>7. DeadLetterNotDecided'
  BY <1>1, <1>3 DEF Fresh, DeadLetterNotDecided
<1> QED BY <1>5, <1>6, <1>7 DEF IInv

\* The three steps that leave something in the case of the message in hand:
\* what they leave is a tear, or stamped with that message.
LEMMA CaseStep ==
  ASSUME IInv, pc \in {"report", "trace", "saving"},
         UNCHANGED <<readerVars, known, dlq, crashes, faults>>,
         \/ pc' = "reading" /\ cur' = 0
         \/ pc' \in {"trace", "saving"} /\ cur' = cur,
         report' = report \/ report' = [report EXCEPT ![m.case] = Torn]
           \/ report' = [report EXCEPT ![m.case] = cur],
         trace' = trace \/ trace' = [trace EXCEPT ![m.case] = Torn]
           \/ trace' = [trace EXCEPT ![m.case] = cur],
         state' = state \/ \E r \in {"LOW", "MEDIUM", "HIGH"} :
           state' = [state EXCEPT ![m.case] = [risk |-> r, from |-> cur]]
  PROVE  IInv'
<1>1. /\ TypeOK /\ Reader!TypeOK /\ Fresh /\ DeadLetterNotDecided
      /\ position \in Nat /\ committed \in Nat /\ Len(topic) \in Nat /\ cur \in Nat
      /\ \A o \in dlq : o \in Nat /\ o > 0
      /\ cur \in Reader!Offset /\ m.case \in Case
  BY Stamps, InHand DEF IInv, TypeOK
<1>2. /\ topic' = topic /\ position' = position /\ committed' = committed
      /\ delivered' = delivered /\ known' = known /\ dlq' = dlq /\ crashes' = crashes
      /\ faults' = faults
      /\ faults' = faults
  BY DEF readerVars
<1>3. Reader!TypeOK' /\ Reader!Offset' = Reader!Offset
  BY <1>1, <1>2 DEF Reader!TypeOK, Reader!Offset
<1>4. /\ report' \in [Case -> {Torn, NoFile} \cup Reader!Offset]
      /\ \A c \in Case : report'[c] \in {report[c], Torn, cur}
  <2> DEFINE S == {Torn, NoFile} \cup Reader!Offset
             k == m.case
  <2>1. report \in [Case -> S] /\ Torn \in S /\ cur \in S /\ k \in Case
    BY <1>1 DEF TypeOK
  <2>2. report' = report \/ report' = [report EXCEPT ![k] = Torn] \/ report' = [report EXCEPT ![k] = cur]
    OBVIOUS
  <2> HIDE DEF S, k
  <2>3. report' \in [Case -> S] /\ \A c \in Case : report'[c] \in {report[c], Torn, cur}
    BY <2>1, <2>2
  <2> QED BY <2>3 DEF S
<1>5. /\ trace' \in [Case -> {Torn, NoFile} \cup Reader!Offset]
      /\ \A c \in Case : trace'[c] \in {trace[c], Torn, cur}
  <2> DEFINE S == {Torn, NoFile} \cup Reader!Offset
             k == m.case
  <2>1. trace \in [Case -> S] /\ Torn \in S /\ cur \in S /\ k \in Case
    BY <1>1 DEF TypeOK
  <2>2. trace' = trace \/ trace' = [trace EXCEPT ![k] = Torn] \/ trace' = [trace EXCEPT ![k] = cur]
    OBVIOUS
  <2> HIDE DEF S, k
  <2>3. trace' \in [Case -> S] /\ \A c \in Case : trace'[c] \in {trace[c], Torn, cur}
    BY <2>1, <2>2
  <2> QED BY <2>3 DEF S
<1>6. /\ state' \in [Case -> [risk : {"none", "LOW", "MEDIUM", "HIGH"}, from : 0..Len(topic)]]
      /\ \A c \in Case : state'[c].from \in {state[c].from, cur}
  <2>1. state \in [Case -> [risk : {"none", "LOW", "MEDIUM", "HIGH"}, from : 0..Len(topic)]]
    BY <1>1 DEF TypeOK
  <2>2. CASE state' = state
    BY <2>1, <2>2
  <2>3. ASSUME NEW r \in {"LOW", "MEDIUM", "HIGH"},
               state' = [state EXCEPT ![m.case] = [risk |-> r, from |-> cur]]
        PROVE  <1>6
    <3> DEFINE R == [risk : {"none", "LOW", "MEDIUM", "HIGH"}, from : 0..Len(topic)]
               e == [risk |-> r, from |-> cur]
    <3>1. e \in R /\ e.from = cur
      BY <1>1 DEF Reader!Offset
    <3>2. state \in [Case -> R] /\ state' = [state EXCEPT ![m.case] = e]
      BY <2>1, <2>3
    <3> HIDE DEF R, e
    <3>3. state' \in [Case -> R] /\ \A c \in Case : state'[c] \in {state[c], e}
      BY <3>1, <3>2, <1>1
    <3>4. \A c \in Case : state'[c].from \in {state[c].from, cur}
      BY <3>1, <3>3
    <3> QED BY <3>3, <3>4 DEF R
  <2> QED BY <2>2, <2>3
<1>7. TypeOK'
  <2>1. cur' \in 0..Len(topic) /\ (pc' # "reading" => cur' # 0 /\ m' # Malformed)
    BY <1>1, <1>2 DEF TypeOK, m
  <2>2. pc' \in {"reading", "checking", "dead_letter", "consulting", "deciding",
                 "report", "trace", "saving"}
    OBVIOUS
  <2>3. known' \subseteq Case /\ dlq' \subseteq Reader!Offset' /\ crashes' \in 0..MaxCrashes
        /\ faults' \in Scenario
    BY <1>1, <1>2, <1>3, Zenon DEF TypeOK
  <2>4. /\ report' \in [Case -> {Torn, NoFile} \cup Reader!Offset']
        /\ trace' \in [Case -> {Torn, NoFile} \cup Reader!Offset']
    BY <1>3, <1>4, <1>5
  <2>5. /\ state' \in [Case -> [risk : {"none", "LOW", "MEDIUM", "HIGH"}, from : 0..Len(topic')]]
        /\ cur' \in 0..Len(topic')
    BY <1>2, <1>6, <2>1
  <2> QED BY <1>3, <2>1, <2>2, <2>3, <2>4, <2>5, Zenon DEF TypeOK, Torn, NoFile
<1>8. cur < committed /\ cur \notin dlq
  BY <1>1 DEF Fresh
<1>9. \A c \in Case : report'[c] < committed /\ trace'[c] < committed /\ state'[c].from < committed
  <2>1. /\ Torn < committed
        /\ \A c \in Case : report[c] < committed /\ trace[c] < committed /\ state[c].from < committed
    BY <1>1 DEF Fresh, Torn
  <2>2. \A c \in Case : /\ report'[c] \in {report[c], Torn, cur}
                        /\ trace'[c] \in {trace[c], Torn, cur}
                        /\ state'[c].from \in {state[c].from, cur}
    BY <1>4, <1>5, <1>6
  <2> QED BY <1>8, <2>1, <2>2
<1>10. Fresh'
  BY <1>1, <1>2, <1>8, <1>9 DEF Fresh
<1>11. DeadLetterNotDecided'
  BY <1>1, <1>2, <1>4, <1>5, <1>6, <1>8 DEF DeadLetterNotDecided, Torn
<1> QED BY <1>7, <1>10, <1>11 DEF IInv

LEMMA WriteReportKeepsIInv == ASSUME IInv, WriteReport PROVE IInv'
<1>1. /\ pc = "report" /\ pc' \in {"trace", "saving"} /\ cur' = cur /\ trace' = trace /\ state' = state
      /\ UNCHANGED <<readerVars, known, dlq, crashes, faults>>
      /\ \/ report' = report \/ report' = [report EXCEPT ![m.case] = Torn]
         \/ report' = [report EXCEPT ![m.case] = cur]
  BY DEF WriteReport
<1> QED BY <1>1, CaseStep

LEMMA WriteTraceKeepsIInv == ASSUME IInv, WriteTrace PROVE IInv'
<1>1. /\ pc = "trace" /\ pc' = "saving" /\ cur' = cur /\ report' = report /\ state' = state
      /\ UNCHANGED <<readerVars, known, dlq, crashes, faults>>
      /\ \/ trace' = trace \/ trace' = [trace EXCEPT ![m.case] = Torn]
         \/ trace' = [trace EXCEPT ![m.case] = cur]
  BY DEF WriteTrace
<1> QED BY <1>1, CaseStep

LEMMA SaveStatusKeepsIInv == ASSUME IInv, SaveStatus PROVE IInv'
<1> DEFINE r == Risk(Confidence)
<1>1. r \in {"LOW", "MEDIUM", "HIGH"}
  BY DEF Risk
<1>2. /\ pc = "saving" /\ pc' = "reading" /\ cur' = 0 /\ report' = report /\ trace' = trace
      /\ UNCHANGED <<readerVars, known, dlq, crashes, faults>>
      /\ state' = state \/ state' = [state EXCEPT ![m.case] = [risk |-> r, from |-> cur]]
  BY DEF SaveStatus, disk
<1> HIDE DEF r
<1> QED BY <1>1, <1>2, CaseStep

\* Crash tears at most the file that was being written.
LEMMA CrashKeepsIInv == ASSUME IInv, Crash PROVE IInv'
<1>1. /\ TypeOK /\ Reader!TypeOK /\ Fresh /\ DeadLetterNotDecided
      /\ position \in Nat /\ committed \in Nat /\ Len(topic) \in Nat
      /\ \A o \in dlq : o \in Nat /\ o > 0
      /\ \A c \in Case : report[c] \in Int /\ trace[c] \in Int /\ state[c].from \in Nat
  BY Stamps DEF IInv, TypeOK
<1>2. /\ topic' = topic /\ Reader!TypeOK' /\ Reader!Offset' = Reader!Offset
      /\ committed' = committed /\ committed' <= position'
  BY <1>1, ReaderStep DEF Crash, Reader!Resume, Fresh
<1>3. /\ pc' = "reading" /\ cur' = 0 /\ known' = known /\ dlq' = dlq /\ state' = state
      /\ crashes' = crashes + 1 /\ crashes < MaxCrashes /\ faults' = faults
      /\ report' = report \/ report' = [report EXCEPT ![m.case] = Torn]
      /\ trace' = trace \/ trace' = [trace EXCEPT ![m.case] = Torn]
  BY DEF Crash
<1>4. /\ report' \in [Case -> {Torn, NoFile} \cup Reader!Offset]
      /\ \A c \in Case : report'[c] \in {report[c], Torn}
  BY <1>1, <1>3 DEF TypeOK
<1>5. /\ trace' \in [Case -> {Torn, NoFile} \cup Reader!Offset]
      /\ \A c \in Case : trace'[c] \in {trace[c], Torn}
  BY <1>1, <1>3 DEF TypeOK
<1>6. TypeOK'
  <2>1. cur' \in 0..Len(topic) /\ crashes' \in 0..MaxCrashes
    BY <1>1, <1>3, DecisionAssumption DEF TypeOK
  <2> QED BY <1>1, <1>2, <1>3, <1>4, <1>5, <2>1 DEF TypeOK
<1>7. \A c \in Case : report'[c] < committed /\ trace'[c] < committed /\ state'[c].from < committed
  BY <1>1, <1>3, <1>4, <1>5 DEF Fresh, Torn
<1>8. Fresh'
  BY <1>1, <1>2, <1>3, <1>7 DEF Fresh
<1>9. DeadLetterNotDecided'
  BY <1>1, <1>3, <1>4, <1>5 DEF DeadLetterNotDecided, Torn
<1> QED BY <1>6, <1>8, <1>9 DEF IInv

LEMMA StateExpiresKeepsIInv == ASSUME NEW c \in Case, IInv, StateExpires(c) PROVE IInv'
<1>1. /\ TypeOK /\ Reader!TypeOK /\ Fresh /\ DeadLetterNotDecided
      /\ position \in Nat /\ committed \in Nat /\ Len(topic) \in Nat /\ cur \in Nat
      /\ \A o \in dlq : o \in Nat /\ o > 0
      /\ Reader!Offset' = Reader!Offset /\ Reader!TypeOK'
      /\ topic' = topic /\ position' = position /\ committed' = committed
      /\ pc' = pc /\ cur' = cur /\ known' = known /\ dlq' = dlq /\ report' = report
      /\ trace' = trace /\ crashes' = crashes /\ faults' = faults
  BY Stamps DEF IInv, TypeOK, StateExpires, readerVars, disk, Reader!Offset, Reader!TypeOK
<1>2. /\ state' \in [Case -> [risk : {"none", "LOW", "MEDIUM", "HIGH"}, from : 0..Len(topic)]]
      /\ \A d \in Case : state'[d].from \in {state[d].from, 0}
  <2> DEFINE R == [risk : {"none", "LOW", "MEDIUM", "HIGH"}, from : 0..Len(topic)]
  <2>1. NotDecided \in R /\ NotDecided.from = 0
    BY <1>1 DEF NotDecided
  <2>2. state \in [Case -> R] /\ state' = [state EXCEPT ![c] = NotDecided]
    BY <1>1 DEF TypeOK, StateExpires
  <2> HIDE DEF R
  <2>3. state' \in [Case -> R] /\ \A d \in Case : state'[d] \in {state[d], NotDecided}
    BY <2>1, <2>2
  <2>4. \A d \in Case : state'[d].from \in {state[d].from, 0}
    BY <2>1, <2>3
  <2> QED BY <2>3, <2>4 DEF R
<1>3. TypeOK'
  BY <1>1, <1>2 DEF TypeOK, m
<1>4. committed > 0
  BY <1>1 DEF Reader!TypeOK
<1>5. Fresh'
  <2>1. \A d \in Case : report'[d] < committed' /\ trace'[d] < committed' /\ state'[d].from < committed'
    BY <1>1, <1>2, <1>4 DEF Fresh
  <2>2. pc' \in {"checking", "dead_letter"} =>
          \A d \in Case : report'[d] # cur' /\ trace'[d] # cur' /\ state'[d].from # cur'
    BY <1>1, <1>2 DEF Fresh, TypeOK
  <2> QED BY <1>1, <2>1, <2>2 DEF Fresh
<1>6. DeadLetterNotDecided'
  BY <1>1, <1>2 DEF DeadLetterNotDecided
<1> QED BY <1>3, <1>5, <1>6 DEF IInv

\* Every step keeps the invariant.
LEMMA NextKeepsIInv == IInv /\ [Next]_vars => IInv'
<1> SUFFICES ASSUME IInv, [Next]_vars PROVE IInv'
  OBVIOUS
<1>1. known \subseteq Case /\ crashes \in 0..MaxCrashes
  BY DEF IInv, TypeOK
<1>2. CASE Drop \/ ReadError
  <2>1. /\ Reader!ReadMessage \/ Reader!CommitFails
        /\ pc = "reading" /\ UNCHANGED <<pc, cur, known, dlq, report, trace, state, crashes, faults>>
    BY <1>2 DEF Drop, ReadError, disk
  <2> QED BY <1>1, <2>1, PlainStep
<1>3. CASE Consult \/ Decide
  <2>1. /\ pc # "reading" /\ pc' \in {"deciding", "report", "saving"}
        /\ UNCHANGED <<readerVars, cur, known, dlq, report, trace, state, crashes, faults>>
    BY <1>3 DEF Consult, Decide, disk
  <2> QED BY <1>1, <2>1, PlainStep
<1>4. CASE Rebalance
  <2>1. Reader!Resume /\ UNCHANGED <<pc, cur, known, dlq, report, trace, state, crashes, faults>>
    BY <1>4 DEF Rebalance, disk
  <2> QED BY <1>1, <2>1, PlainStep
<1>5. ASSUME NEW c \in Case, StatusKeyChanges(c) PROVE IInv'
  <2>1. known' \subseteq Case /\ UNCHANGED <<readerVars, pc, cur, dlq, report, trace, state, crashes, faults>>
    BY <1>1, <1>5 DEF StatusKeyChanges, disk
  <2> QED BY <1>1, <2>1, PlainStep
<1>6. CASE UNCHANGED vars
  <2>1. UNCHANGED <<readerVars, pc, cur, known, dlq, report, trace, state, crashes, faults>>
    BY <1>6 DEF vars, disk
  <2> QED BY <1>1, <2>1, PlainStep
<1> QED BY <1>2, <1>3, <1>4, <1>5, <1>6, ReceiveKeepsIInv, CheckKeepsIInv, DeadLetterKeepsIInv,
       WriteReportKeepsIInv, WriteTraceKeepsIInv, SaveStatusKeepsIInv, CrashKeepsIInv,
       StateExpiresKeepsIInv DEF Next, Main

-----------------------------------------------------------------------------
\* No message is both left to an analyst and acted on, for any number of
\* messages, crashes and failures (main.go:61-103).
THEOREM DeadLettersStayUndecided == SafeSpec => []DeadLetterNotDecided
<1>1. IInv => DeadLetterNotDecided
  BY DEF IInv
<1> QED BY <1>1, InitIInv, NextKeepsIInv, PTL DEF SafeSpec

\* The engine's state is well typed; in particular the message in hand is a
\* readable one until it has been settled.
THEOREM TypeCorrect == SafeSpec => []TypeOK
<1>1. IInv => TypeOK
  BY DEF IInv
<1> QED BY <1>1, InitIInv, NextKeepsIInv, PTL DEF SafeSpec
-----------------------------------------------------------------------------
\* What a step leaves in a case: what was there, a tear or nothing, or what is
\* stamped with the message in hand; and a message taken in hand is a new one.
Leaves(c) ==
  /\ report'[c] \in {report[c], Torn} \/ (pc # "reading" /\ report'[c] = cur)
  /\ trace'[c] \in {trace[c], Torn} \/ (pc # "reading" /\ trace'[c] = cur)
  /\ state'[c] \in {state[c], NotDecided} \/ (pc # "reading" /\ state'[c].from = cur)
TakesNew ==
  pc' = "reading" \/ (pc # "reading" /\ cur' = cur) \/
    (cur' = position /\ UNCHANGED <<report, trace, state>>)

\* The steps that leave every case alone.
LEMMA QuietStep ==
  ASSUME UNCHANGED <<report, trace, state>>, NEW c \in Case
  PROVE  Leaves(c)
BY DEF Leaves

LEMMA StepLeaves ==
  ASSUME IInv, [Next]_vars
  PROVE  (\A c \in Case : Leaves(c)) /\ TakesNew
<1>1. /\ TypeOK
      /\ pc # "reading" => m.case \in Case
  BY InHand DEF IInv
<1>2. CASE Drop \/ ReadError \/ Check \/ DeadLetter \/ Consult \/ Decide \/ Rebalance
           \/ (\E c \in Case : StatusKeyChanges(c)) \/ UNCHANGED vars
  <2>1. UNCHANGED <<report, trace, state>>
    BY <1>2 DEF Drop, ReadError, Check, DeadLetter, Consult, Decide, Rebalance, StatusKeyChanges,
       vars, disk
  <2>2. TakesNew
    BY <1>2 DEF Drop, ReadError, Check, DeadLetter, Consult, Decide, Rebalance, StatusKeyChanges,
       vars, TakesNew
  <2> QED BY <2>1, <2>2, QuietStep
<1>3. CASE Receive
  <2>1. UNCHANGED <<report, trace, state>> /\ cur' = position
    BY <1>3 DEF Receive, disk
  <2> QED BY <2>1, QuietStep DEF TakesNew
<1>4. CASE WriteReport
  <2>1. /\ pc = "report" /\ cur' = cur /\ trace' = trace /\ state' = state
        /\ \/ report' = report \/ report' = [report EXCEPT ![m.case] = Torn]
           \/ report' = [report EXCEPT ![m.case] = cur]
    BY <1>4 DEF WriteReport
  <2>2. \A c \in Case : report'[c] \in {report[c], Torn, cur}
    BY <1>1, <2>1 DEF TypeOK
  <2> QED BY <2>1, <2>2 DEF Leaves, TakesNew
<1>5. CASE WriteTrace
  <2>1. /\ pc = "trace" /\ cur' = cur /\ report' = report /\ state' = state
        /\ \/ trace' = trace \/ trace' = [trace EXCEPT ![m.case] = Torn]
           \/ trace' = [trace EXCEPT ![m.case] = cur]
    BY <1>5 DEF WriteTrace
  <2>2. \A c \in Case : trace'[c] \in {trace[c], Torn, cur}
    BY <1>1, <2>1 DEF TypeOK
  <2> QED BY <2>1, <2>2 DEF Leaves, TakesNew
<1>6. CASE SaveStatus
  <2> DEFINE r == Risk(Confidence)
             e == [risk |-> r, from |-> cur]
             R == [risk : {"none", "LOW", "MEDIUM", "HIGH"}, from : 0..Len(topic)]
  <2>1. /\ pc = "saving" /\ pc' = "reading" /\ report' = report /\ trace' = trace
        /\ state' = state \/ state' = [state EXCEPT ![m.case] = e]
    BY <1>6 DEF SaveStatus, disk
  <2>2. state \in [Case -> R] /\ e.from = cur
    BY <1>1 DEF TypeOK
  <2> HIDE DEF e, R
  <2>3. \A c \in Case : state'[c] \in {state[c], e}
    BY <1>1, <2>1, <2>2
  <2> QED BY <2>1, <2>2, <2>3 DEF Leaves, TakesNew
<1>7. CASE Crash
  <2>1. /\ pc' = "reading" /\ state' = state
        /\ report' = report \/ (pc = "report" /\ report' = [report EXCEPT ![m.case] = Torn])
        /\ trace' = trace \/ (pc = "trace" /\ trace' = [trace EXCEPT ![m.case] = Torn])
    BY <1>7 DEF Crash
  <2>2. \A c \in Case : report'[c] \in {report[c], Torn} /\ trace'[c] \in {trace[c], Torn}
    BY <1>1, <2>1 DEF TypeOK
  <2> QED BY <2>1, <2>2 DEF Leaves, TakesNew
<1>8. ASSUME NEW d \in Case, StateExpires(d) PROVE (\A c \in Case : Leaves(c)) /\ TakesNew
  <2> DEFINE R == [risk : {"none", "LOW", "MEDIUM", "HIGH"}, from : 0..Len(topic)]
  <2>1. /\ pc' = pc /\ cur' = cur /\ report' = report /\ trace' = trace
        /\ state' = [state EXCEPT ![d] = NotDecided] /\ state \in [Case -> R]
    BY <1>1, <1>8 DEF StateExpires, disk, TypeOK
  <2> HIDE DEF R
  <2>2. \A c \in Case : state'[c] \in {state[c], NotDecided}
    BY <2>1
  <2>3. pc' = "reading" \/ (pc # "reading" /\ cur' = cur)
    BY <2>1
  <2> QED BY <2>1, <2>2, <2>3 DEF Leaves, TakesNew
<1> QED BY <1>2, <1>3, <1>4, <1>5, <1>6, <1>7, <1>8 DEF Next, Main

\* The message in hand is newer than whatever the cases are stamped with, or the
\* one they are stamped with.
Newest ==
  pc # "reading" =>
    \A c \in Case : report[c] <= cur /\ trace[c] <= cur /\ state[c].from <= cur

LEMMA NewestKept == IInv /\ Newest /\ [Next]_vars => Newest'
<1> SUFFICES ASSUME IInv, Newest, [Next]_vars, pc' # "reading", NEW c \in Case
             PROVE  report'[c] <= cur' /\ trace'[c] <= cur' /\ state'[c].from <= cur'
  BY DEF Newest
<1>1. /\ TypeOK /\ Fresh /\ position \in Nat /\ committed \in Nat /\ cur \in Nat
      /\ report[c] \in Int /\ trace[c] \in Int /\ state[c].from \in Nat
  BY Stamps DEF IInv
<1>2. Leaves(c) /\ TakesNew
  BY StepLeaves
<1>3. CASE pc # "reading" /\ cur' = cur
  BY <1>1, <1>2, <1>3 DEF Newest, Leaves, Torn, NotDecided
<1>4. CASE cur' = position /\ UNCHANGED <<report, trace, state>>
  <2>1. report[c] < committed /\ trace[c] < committed /\ state[c].from < committed /\ committed <= position
    BY <1>1 DEF Fresh
  <2> QED BY <1>1, <1>4, <2>1
<1> QED BY <1>2, <1>3, <1>4 DEF TakesNew

\* An older message never replaces what a newer one left, for any number of
\* messages, crashes and failures (main.go:43-103).
THEOREM NewestAlwaysDecides == SafeSpec => NewestDecides
<1> DEFINE Forward(c) == /\ state'[c].from >= state[c].from \/ state'[c] = NotDecided
                         /\ report'[c] >= report[c] \/ report'[c] = Torn
                         /\ trace'[c] >= trace[c] \/ trace'[c] = Torn
           A == \A c \in Case : Forward(c)
<1>1. Init => Newest
  BY DEF Init, Newest
<1>2. IInv /\ Newest /\ [Next]_vars => [A]_vars
  <2> SUFFICES ASSUME IInv, Newest, [Next]_vars, NEW c \in Case PROVE Forward(c)
    OBVIOUS
  <2>1. /\ cur \in Nat /\ report[c] \in Int /\ trace[c] \in Int /\ state[c].from \in Nat
    BY Stamps DEF IInv
  <2>2. Leaves(c)
    BY StepLeaves
  <2> QED BY <2>1, <2>2 DEF Newest, Leaves
<1> QED BY <1>1, <1>2, InitIInv, NextKeepsIInv, NewestKept, PTL DEF SafeSpec, NewestDecides

-----------------------------------------------------------------------------
\* While the disk works, the trace is written after the report, and the state of a
\* HIGH case after both.
Written ==
  ~DiskMayFail =>
    /\ pc = "trace" => report[m.case] = cur
    /\ pc = "saving" /\ Risk(Confidence) = "HIGH" => report[m.case] = cur /\ trace[m.case] = cur

LEMMA WrittenKept == IInv /\ Written /\ [Next]_vars => Written'
<1> SUFFICES ASSUME IInv, Written, [Next]_vars PROVE Written'
  OBVIOUS
<1>1. /\ TypeOK
      /\ pc # "reading" => m.case \in Case
  BY InHand DEF IInv
<1>2. CASE Drop \/ Receive \/ ReadError \/ Check \/ DeadLetter \/ Consult \/ SaveStatus \/ Crash
  BY <1>2 DEF Drop, Receive, ReadError, Check, DeadLetter, Consult, SaveStatus, Crash, Written
<1>3. ASSUME topic' = topic, UNCHANGED <<pc, cur, report, trace, faults>> PROVE Written'
  BY <1>3 DEF Written, m, Confidence, DiskMayFail
<1>4. CASE Rebalance \/ UNCHANGED vars \/ \E c \in Case : StatusKeyChanges(c) \/ StateExpires(c)
  BY <1>3, <1>4 DEF Rebalance, StatusKeyChanges, StateExpires, vars, readerVars, disk, Reader!Resume
<1>5. CASE Decide
  <2>1. /\ pc' = IF Risk(Confidence) = "HIGH" THEN "report" ELSE "saving"
        /\ topic' = topic /\ cur' = cur
    BY <1>5 DEF Decide, readerVars
  <2>2. Confidence' = Confidence
    BY <2>1 DEF Confidence, m
  <2> QED BY <2>1, <2>2 DEF Written
<1>6. CASE WriteReport
  <2>1. /\ pc = "report" /\ topic' = topic /\ cur' = cur /\ faults' = faults
        /\ \/ report' = [report EXCEPT ![m.case] = cur] /\ pc' = "trace"
           \/ DiskMayFail /\ pc' = "saving"
    BY <1>6 DEF WriteReport, readerVars
  <2>2. m' = m /\ m.case \in Case
    BY <1>1, <2>1 DEF m
  <2>3. CASE report' = [report EXCEPT ![m.case] = cur] /\ pc' = "trace"
    BY <1>1, <2>1, <2>2, <2>3 DEF TypeOK, Written
  <2>4. CASE DiskMayFail
    BY <2>1, <2>4 DEF Written, DiskMayFail
  <2> QED BY <2>1, <2>3, <2>4
<1>7. CASE WriteTrace
  <2>1. /\ pc = "trace" /\ pc' = "saving" /\ topic' = topic /\ cur' = cur /\ faults' = faults
        /\ report' = report
        /\ trace' = [trace EXCEPT ![m.case] = cur] \/ DiskMayFail
    BY <1>7 DEF WriteTrace, readerVars
  <2>2. m' = m /\ m.case \in Case
    BY <1>1, <2>1 DEF m
  <2>3. CASE trace' = [trace EXCEPT ![m.case] = cur]
    BY <1>1, <2>1, <2>2, <2>3 DEF TypeOK, Written, DiskMayFail
  <2>4. CASE DiskMayFail
    BY <2>1, <2>4 DEF Written, DiskMayFail
  <2> QED BY <2>1, <2>3, <2>4
<1> QED BY <1>2, <1>4, <1>5, <1>6, <1>7 DEF Next, Main

\* While the disk works, HIGH is announced only when report and trace of that very
\* message are on disk, for any number of messages and crashes (main.go:91-97).
THEOREM HighAlwaysWithReport == SafeSpec => HighOnlyWithReport
<1> DEFINE Backed(c) == ~DiskMayFail /\ state'[c] # state[c] /\ state'[c].risk = "HIGH" =>
                          report'[c] = state'[c].from /\ trace'[c] = state'[c].from
           A == \A c \in Case : Backed(c)
<1>1. Init => Written
  BY DEF Init, Written
<1>2. IInv /\ Written /\ [Next]_vars => [A]_vars
  <2> SUFFICES ASSUME IInv, Written, [Next]_vars, NEW c \in Case PROVE Backed(c)
    OBVIOUS
  <2>1. /\ TypeOK
        /\ pc # "reading" => m.case \in Case
    BY InHand DEF IInv
  <2>2. CASE SaveStatus
    <3> DEFINE r == Risk(Confidence)
               e == [risk |-> r, from |-> cur]
               R == [risk : {"none", "LOW", "MEDIUM", "HIGH"}, from : 0..Len(topic)]
    <3>1. /\ pc = "saving" /\ report' = report /\ trace' = trace
          /\ state' = state \/ state' = [state EXCEPT ![m.case] = e]
      BY <2>2 DEF SaveStatus, disk
    <3>2. state \in [Case -> R] /\ e.from = cur /\ e.risk = r
      BY <2>1 DEF TypeOK
    <3>3. ~DiskMayFail /\ r = "HIGH" => report[m.case] = cur /\ trace[m.case] = cur
      BY <3>1 DEF Written
    <3> HIDE DEF e, R, r
    <3>4. state'[c] = state[c] \/ (c = m.case /\ state'[c] = e)
      BY <2>1, <3>1, <3>2
    <3> QED BY <3>1, <3>2, <3>3, <3>4
  <2>3. ASSUME NEW d \in Case, StateExpires(d) PROVE Backed(c)
    <3> DEFINE R == [risk : {"none", "LOW", "MEDIUM", "HIGH"}, from : 0..Len(topic)]
    <3>1. state' = [state EXCEPT ![d] = NotDecided] /\ state \in [Case -> R] /\ NotDecided.risk # "HIGH"
      BY <2>1, <2>3 DEF StateExpires, TypeOK, NotDecided
    <3> HIDE DEF R
    <3>2. state'[c] \in {state[c], NotDecided}
      BY <3>1
    <3> QED BY <3>1, <3>2
  <2>4. ASSUME state' = state PROVE Backed(c)
    BY <2>4
  <2>5. CASE Drop \/ Receive \/ ReadError \/ Check \/ DeadLetter \/ Consult \/ Decide \/ WriteReport
             \/ WriteTrace \/ Crash \/ Rebalance \/ (\E d \in Case : StatusKeyChanges(d)) \/ UNCHANGED vars
    <3>1. state' = state
      BY <2>5 DEF Drop, Receive, ReadError, Check, DeadLetter, Consult, Decide, WriteReport, WriteTrace,
         Crash, Rebalance, StatusKeyChanges, vars
    <3> QED BY <2>4, <3>1
  <2> QED BY <2>2, <2>3, <2>5 DEF Next, Main
<1> QED BY <1>1, <1>2, InitIInv, NextKeepsIInv, WrittenKept, PTL DEF SafeSpec, HighOnlyWithReport
=============================================================================
