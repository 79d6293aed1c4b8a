----------------------------- MODULE Rules_proof -----------------------------
(***************************************************************************)
(* The pure rules of the pipeline for every input: the orchestrator's      *)
(* scoring for all ML1 messages and findings, the decision engine's bands  *)
(* for all confidences and rates, the loader's two passes over all files,  *)
(* and the tools over all dumps and syslogs.  The last section collects    *)
(* them in the two invariants that TLC evaluates.  Bounds are written as   *)
(* inequalities rather than as membership in an interval, which the SMT    *)
(* backend handles badly.                                                  *)
(***************************************************************************)
EXTENDS MCRules, SequenceTheorems, TLAPS

LEMMA ScoreBounds == ASSUME NEW x \in Score PROVE x \in Nat /\ x <= 1000
  BY DEF Score

\* The scores of a message are thousandths.
LEMMA ScoreValues ==
  ASSUME NEW Case, NEW m \in ScoredMessage(Case)
  PROVE  /\ m.memory \in Nat /\ m.memory <= 1000
         /\ m.logs \in Nat /\ m.logs <= 1000
<1>1. m.memory \in Score /\ m.logs \in Score
  BY DEF ScoredMessage
<1>2. m.memory \in Nat /\ m.memory <= 1000
  BY <1>1, ScoreBounds
<1>3. m.logs \in Nat /\ m.logs <= 1000
  BY <1>1, ScoreBounds
<1> QED BY <1>2, <1>3

\* What findings add to a rootkit lies between nothing and 0.65.
LEMMA EvidenceValue ==
  ASSUME NEW found
  PROVE  /\ Evidence(found) \in Nat
         /\ Evidence(found) <= 6500
  BY DEF Evidence, Gain

\* Of three numbers, the largest minus the middle one.
LEMMA GapOfThree ==
  ASSUME NEW x \in Nat, NEW y \in Nat, NEW z \in Nat,
         NEW h, h = [rootkit |-> x, lateral |-> y, falsePositive |-> z]
  PROVE  /\ Gap(h) \in Nat
         /\ Gap(h) <= x \/ Gap(h) <= y \/ Gap(h) <= z
         /\ Uncertain(h) <=>
               \/ x >= y /\ y >= z /\ x - y < 1000
               \/ x >= z /\ z >= y /\ x - z < 1000
               \/ y >= x /\ x >= z /\ y - x < 1000
               \/ y >= z /\ z >= x /\ y - z < 1000
               \/ z >= x /\ x >= y /\ z - x < 1000
               \/ z >= y /\ y >= x /\ z - y < 1000
  BY DEF Uncertain, Gap, Top, Second, Bottom, Larger, Smaller

\* The arithmetic of the tracker's thresholds: when its three confidences are
\* within 0.1 at the top.
LEMMA SmallGap ==
  ASSUME NEW a \in Nat, NEW b \in Nat, NEW x \in Nat, NEW y \in Nat, NEW z \in Nat,
         x = IF a > 700 THEN 8 * a ELSE 0,
         y = IF b > 700 THEN 8 * b ELSE 0,
         z = IF a < 400 /\ b < 400 THEN 7000 ELSE 0
  PROVE  (\/ x >= y /\ y >= z /\ x - y < 1000
          \/ x >= z /\ z >= y /\ x - z < 1000
          \/ y >= x /\ x >= z /\ y - x < 1000
          \/ y >= z /\ z >= x /\ y - z < 1000
          \/ z >= x /\ x >= y /\ z - x < 1000
          \/ z >= y /\ y >= x /\ z - y < 1000)
         <=> (\/ x = 0 /\ y = 0 /\ z = 0
              \/ x > 0 /\ y > 0 /\ -125 < a - b /\ a - b < 125)
<1>1. CASE a > 700 /\ b > 700
  BY <1>1
<1>2. CASE a > 700 /\ b <= 700
  BY <1>2
<1>3. CASE a <= 700 /\ b > 700
  BY <1>3
<1>4. CASE a <= 700 /\ b <= 700
  BY <1>4
<1> QED BY <1>1, <1>2, <1>3, <1>4

\* Before the tools run, Gemma is called for exactly two kinds of message: no
\* hypothesis, or two close ones (func.go:19-32, main.go:206-213).
THEOREM UncertaintyCharacterised ==
  ASSUME NEW Case, NEW m \in ScoredMessage(Case)
  PROVE  UncertainExactly(m)
<1> DEFINE a == m.memory
           b == m.logs
<1>1. a \in Nat /\ b \in Nat
  BY ScoreValues
<1>2. UncertainExactly(m) <=>
        LET h == [rootkit |-> IF a > 700 THEN 8 * a ELSE 0,
                  lateral |-> IF b > 700 THEN 8 * b ELSE 0,
                  falsePositive |-> IF a < 400 /\ b < 400 THEN 7000 ELSE 0]
        IN Uncertain(h) <=>
             \/ h = [rootkit |-> 0, lateral |-> 0, falsePositive |-> 0]
             \/ h.rootkit > 0 /\ h.lateral > 0 /\ -125 < a - b /\ a - b < 125
  BY DEF UncertainExactly, HypothesisTracker
<1> HIDE DEF a, b
<1> DEFINE x == IF a > 700 THEN 8 * a ELSE 0
           y == IF b > 700 THEN 8 * b ELSE 0
           z == IF a < 400 /\ b < 400 THEN 7000 ELSE 0
           h == [rootkit |-> x, lateral |-> y, falsePositive |-> z]
           small == Uncertain(h)
<1>3. x \in Nat /\ y \in Nat /\ z \in Nat
  BY <1>1
<1>4. (\/ x >= y /\ y >= z /\ x - y < 1000
       \/ x >= z /\ z >= y /\ x - z < 1000
       \/ y >= x /\ x >= z /\ y - x < 1000
       \/ y >= z /\ z >= x /\ y - z < 1000
       \/ z >= x /\ x >= y /\ z - x < 1000
       \/ z >= y /\ y >= x /\ z - y < 1000)
      <=> (\/ x = 0 /\ y = 0 /\ z = 0
           \/ x > 0 /\ y > 0 /\ -125 < a - b /\ a - b < 125)
  <2> DEFINE p == x  q == y  r == z
  <2>1. /\ p = IF a > 700 THEN 8 * a ELSE 0
        /\ q = IF b > 700 THEN 8 * b ELSE 0
        /\ r = IF a < 400 /\ b < 400 THEN 7000 ELSE 0
        /\ p \in Nat /\ q \in Nat /\ r \in Nat
    BY <1>3
  <2> HIDE DEF p, q, r
  <2>2. (\/ p >= q /\ q >= r /\ p - q < 1000
         \/ p >= r /\ r >= q /\ p - r < 1000
         \/ q >= p /\ p >= r /\ q - p < 1000
         \/ q >= r /\ r >= p /\ q - r < 1000
         \/ r >= p /\ p >= q /\ r - p < 1000
         \/ r >= q /\ q >= p /\ r - q < 1000)
        <=> (\/ p = 0 /\ q = 0 /\ r = 0
             \/ p > 0 /\ q > 0 /\ -125 < a - b /\ a - b < 125)
    BY <1>1, <2>1, SmallGap
  <2> QED BY <2>2 DEF p, q, r
<1> HIDE DEF x, y, z
<1>5. small <=>
        \/ x >= y /\ y >= z /\ x - y < 1000
        \/ x >= z /\ z >= y /\ x - z < 1000
        \/ y >= x /\ x >= z /\ y - x < 1000
        \/ y >= z /\ z >= x /\ y - z < 1000
        \/ z >= x /\ x >= y /\ z - x < 1000
        \/ z >= y /\ y >= x /\ z - y < 1000
  BY <1>3, GapOfThree
<1>6. /\ h.rootkit = x /\ h.lateral = y
      /\ h = [rootkit |-> 0, lateral |-> 0, falsePositive |-> 0] <=> x = 0 /\ y = 0 /\ z = 0
  OBVIOUS
<1>7. UncertainExactly(m) <=>
        (small <=>
           \/ h = [rootkit |-> 0, lateral |-> 0, falsePositive |-> 0]
           \/ h.rootkit > 0 /\ h.lateral > 0 /\ -125 < a - b /\ a - b < 125)
  BY <1>2 DEF x, y, z
<1> HIDE DEF small, h
<1> QED BY <1>4, <1>5, <1>6, <1>7

\* The rootkit's confidence stays below 1.45, beyond the 1.0 of a probability
\* (main.go:169-197).
THEOREM ConfidencesBounded ==
  ASSUME NEW Case, NEW m \in ScoredMessage(Case), NEW found
  PROVE  ConfidenceBounds(m, found)
<1> DEFINE x == HypothesisTracker(m).rootkit
           y == HypothesisTracker(m).lateral
           z == HypothesisTracker(m).falsePositive
           h == [rootkit |-> x, lateral |-> y, falsePositive |-> z]
           e == Evidence(found)
           w == x + e
           a == [rootkit |-> w, lateral |-> y, falsePositive |-> z]
           g == Gap(a)
<1>1. x \in Nat /\ x <= 8000 /\ y \in Nat /\ y <= 8000 /\ z \in Nat /\ z <= 7000
  BY ScoreValues DEF HypothesisTracker
<1>2. HypothesisTracker(m) = h
  BY DEF HypothesisTracker
<1>3. Adjust(h, found) = a
  BY DEF Adjust
<1>4. e \in Nat /\ e <= 6500
  BY EvidenceValue
<1> HIDE DEF x, y, z, e
<1>5. w \in Nat /\ w <= 14500
  BY <1>1, <1>4
<1> HIDE DEF w
<1>6. g \in Nat /\ (g <= w \/ g <= y \/ g <= z)
  BY <1>1, <1>5, GapOfThree
<1> HIDE DEF g
<1>7. 0 <= w /\ w <= 14500 /\ 0 <= g /\ g <= 14500
  BY <1>1, <1>5, <1>6
<1>8. a.rootkit = w
  OBVIOUS
<1> HIDE DEF a, h
<1>9. ConfidenceBounds(m, found) <=>
        /\ 0 <= a.rootkit /\ a.rootkit <= 14500
        /\ 0 <= g /\ g <= 14500
  BY <1>2, <1>3 DEF ConfidenceBounds, g
<1> QED BY <1>7, <1>8, <1>9

\* The scores in one of their six orders: sort.Float64s.
LEMMA SomeOrder ==
  ASSUME NEW x \in Nat, NEW y \in Nat, NEW z \in Nat
  PROVE  LET scores == <<x, y, z>> IN
         \E p \in {<<1, 2, 3>>, <<1, 3, 2>>, <<2, 1, 3>>,
                   <<2, 3, 1>>, <<3, 1, 2>>, <<3, 2, 1>>} :
           scores[p[1]] <= scores[p[2]] /\ scores[p[2]] <= scores[p[3]]
<1> DEFINE scores == <<x, y, z>>
<1>1. scores[1] = x /\ scores[2] = y /\ scores[3] = z
  OBVIOUS
<1> HIDE DEF scores
<1>2. CASE x <= y /\ y <= z
  BY <1>1, <1>2
<1>3. CASE x <= z /\ z <= y
  BY <1>1, <1>3
<1>4. CASE y <= x /\ x <= z
  BY <1>1, <1>4
<1>5. CASE y <= z /\ z <= x
  BY <1>1, <1>5
<1>6. CASE z <= x /\ x <= y
  BY <1>1, <1>6
<1>7. CASE z <= y /\ y <= x
  BY <1>1, <1>7
<1>8. \/ x <= y /\ y <= z
      \/ x <= z /\ z <= y
      \/ y <= x /\ x <= z
      \/ y <= z /\ z <= x
      \/ z <= x /\ x <= y
      \/ z <= y /\ y <= x
  OBVIOUS
<1> QED BY <1>2, <1>3, <1>4, <1>5, <1>6, <1>7, <1>8

\* In whichever order they are, the gap is the last minus the one before.
LEMMA GapOfSorted ==
  ASSUME NEW x \in Nat, NEW y \in Nat, NEW z \in Nat,
         NEW p \in {<<1, 2, 3>>, <<1, 3, 2>>, <<2, 1, 3>>,
                    <<2, 3, 1>>, <<3, 1, 2>>, <<3, 2, 1>>},
         <<x, y, z>>[p[1]] <= <<x, y, z>>[p[2]], <<x, y, z>>[p[2]] <= <<x, y, z>>[p[3]]
  PROVE  Gap([rootkit |-> x, lateral |-> y, falsePositive |-> z])
           = <<x, y, z>>[p[3]] - <<x, y, z>>[p[2]]
<1> DEFINE h == [rootkit |-> x, lateral |-> y, falsePositive |-> z]
<1>1. h.rootkit = x /\ h.lateral = y /\ h.falsePositive = z
  OBVIOUS
<1> HIDE DEF h
<1>2. CASE p = <<1, 2, 3>>
  BY <1>1, <1>2 DEF Gap, Top, Second, Bottom, Larger, Smaller
<1>3. CASE p = <<1, 3, 2>>
  BY <1>1, <1>3 DEF Gap, Top, Second, Bottom, Larger, Smaller
<1>4. CASE p = <<2, 1, 3>>
  BY <1>1, <1>4 DEF Gap, Top, Second, Bottom, Larger, Smaller
<1>5. CASE p = <<2, 3, 1>>
  BY <1>1, <1>5 DEF Gap, Top, Second, Bottom, Larger, Smaller
<1>6. CASE p = <<3, 1, 2>>
  BY <1>1, <1>6 DEF Gap, Top, Second, Bottom, Larger, Smaller
<1>7. CASE p = <<3, 2, 1>>
  BY <1>1, <1>7 DEF Gap, Top, Second, Bottom, Larger, Smaller
<1> QED BY <1>2, <1>3, <1>4, <1>5, <1>6, <1>7 DEF h

-----------------------------------------------------------------------------
\* The bands as a reader of the message sees them (main.go:72-104).
THEOREM BandsCharacterised ==
  \A confidence, rate \in Nat : BandExactly(confidence, rate)
<1> TAKE confidence, rate \in Nat
<1>1. CASE rate > 300
  BY <1>1, SMTT(30) DEF BandExactly, Band, Risk, Final, Penalised
<1>2. CASE rate <= 300
  BY <1>2, SMTT(30) DEF BandExactly, Band, Risk, Final, Penalised
<1> QED BY <1>1, <1>2

\* The penalty never takes a HIGH case to LOW (main.go:74-104).
THEOREM PenaltyIsOneBand ==
  \A confidence, rate, other \in Nat : PenaltyCostsOneBand(confidence, rate, other)
<1> TAKE confidence, rate, other \in Nat
<1>1. Band(confidence, rate) = "HIGH" => confidence > 750
  BY BandsCharacterised DEF BandExactly
<1>2. Band(confidence, other) = "LOW" => confidence <= 600
  BY BandsCharacterised DEF BandExactly
<1> QED BY <1>1, <1>2 DEF PenaltyCostsOneBand

-----------------------------------------------------------------------------
\* Only a name of one of three kinds makes a file a memory dump, and only one
\* of the others a log.
LEMMA DetectedByKind ==
  ASSUME NEW f, f.kind \in Kind
  PROVE  /\ DetectArtifact(f) = "memory" => f.kind \in {"raw", "lime", "bin"}
         /\ DetectArtifact(f) = "logs" => f.kind \in Kind \ {"raw", "lime", "bin", "other"}
  BY DEF DetectArtifact, Kind

\* A recognised log can be accepted under its name if and only if the name is in
\* lower case and not one that FileValidation forgets (worker.go:209-273, 310-361).
THEOREM DeadEndsCharacterised == \A f \in Artifact : DeadEnd(f)
<1> SUFFICES ASSUME NEW f \in Artifact, DetectArtifact(f) = "logs"
             PROVE  (\A g \in Named({f.kind}, {f.lower}) : ~FileValidation(g))
                      <=> ~f.lower \/ f.kind = "log"
  BY DEF DeadEnd
<1>1. f.kind \in Kind /\ f.lower \in BOOLEAN
  BY DEF Artifact, Named
<1>2. f.kind \in Kind \ {"raw", "lime", "bin", "other"}
  BY <1>1, DetectedByKind
<1>3. ASSUME NEW g \in Named({f.kind}, {f.lower})
      PROVE  g.kind = f.kind /\ g.lower = f.lower /\ DetectArtifact(g) # "memory"
  <2>1. g.kind = f.kind /\ g.lower = f.lower
    BY DEF Named
  <2> QED BY <1>2, <2>1, DetectedByKind
<1>4. ASSUME ~f.lower \/ f.kind = "log", NEW g \in Named({f.kind}, {f.lower})
      PROVE  ~FileValidation(g)
  BY <1>3, <1>4 DEF FileValidation
<1>5. ASSUME f.lower, f.kind # "log"
      PROVE  \E g \in Named({f.kind}, {f.lower}) : FileValidation(g)
  <2> DEFINE best == [kind |-> f.kind, lower |-> f.lower, magic |-> "other",
                      large |-> TRUE, dense |-> TRUE, banner |-> TRUE, tenLines |-> TRUE,
                      auth |-> TRUE, audit |-> TRUE, realtime |-> TRUE, json |-> TRUE]
  <2>1. best \in Named({f.kind}, {f.lower})
    BY <1>1 DEF Named
  <2>2. f.kind \in {"auth.log", "syslog", "kern.log", "audit.log", "json", "journald"}
    BY <1>2, <1>5 DEF Kind
  <2>3. /\ best.kind = f.kind /\ best.lower /\ best.tenLines /\ best.audit
        /\ best.json /\ best.realtime
    BY <1>5
  <2>4. DetectArtifact(best) # "memory"
    BY <2>1, <1>3
  <2> HIDE DEF best
  <2>5. FileValidation(best)
    BY <2>2, <2>3, <2>4 DEF FileValidation
  <2> QED BY <2>1, <2>5
<1> QED BY <1>1, <1>4, <1>5

\* Each accepted file has content that only its type has, the two logs with
\* free text aside (worker.go:209-361).
THEOREM AcceptedForItsContent == \A f \in Artifact : AcceptedOnContent(f)
<1> SUFFICES ASSUME NEW f \in Artifact, Accepted(f)
             PROVE  \/ f.kind \in {"raw", "lime", "bin"} /\ f.banner
                    \/ f.kind \in {"auth.log", "audit.log"} /\ (f.auth \/ f.audit)
                    \/ f.kind \in {"json", "journald"} /\ f.realtime
                    \/ f.kind \in {"syslog", "kern.log"} /\ f.tenLines
  BY DEF AcceptedOnContent
<1>1. f.kind \in Kind
  BY DEF Artifact, Named
<1>2. CASE DetectArtifact(f) = "memory"
  BY <1>1, <1>2, DetectedByKind DEF Accepted, FileValidation
<1>3. CASE DetectArtifact(f) # "memory"
  BY <1>1, <1>3 DEF Accepted, FileValidation, DetectArtifact, Kind
<1> QED BY <1>2, <1>3

-----------------------------------------------------------------------------
\* The columns of pslist leave every field of Process at its zero value.
LEMMA ProcessesAreZero ==
  ASSUME NEW d, NEW i \in DOMAIN d.processes
  PROVE  UnmarshalAll(Process, PsList(d))[i] = Process
<1>1. UnmarshalAll(Process, PsList(d))[i] = Unmarshal(Process, PsList(d)[i])
  BY DEF UnmarshalAll, PsList
<1>2. /\ DOMAIN PsList(d)[i] = {"pid", "ppid", "comm"}
      /\ DOMAIN Process = {"id", "parent_id", "name"}
  BY DEF PsList, Process
<1>3. Unmarshal(Process, PsList(d)[i]) = [tag \in DOMAIN Process |-> Process[tag]]
  BY <1>2 DEF Unmarshal
<1> QED
  BY <1>1, <1>3 DEF Process

\* Whatever processes a dump has and whichever is suspected, GetProcessTree and
\* CheckPersistence find nothing (models.go:57-61, func.go:36-65, 162-215).
THEOREM NoProcessIsRecognised ==
  ASSUME NEW d, NEW pid \in Int
  PROVE  GetProcessTree(d, pid) = "clean" /\ CheckPersistence(d) = "clean"
<1> DEFINE procs == UnmarshalAll(Process, PsList(d))
<1>1. DOMAIN procs = DOMAIN d.processes
  BY DEF UnmarshalAll, PsList
<1>2. ASSUME NEW i \in DOMAIN procs
      PROVE  procs[i] = Process
  BY <1>1, ProcessesAreZero
<1>3. \A found \in BOOLEAN : Answer("linux.pslist", found) = IF found THEN "found" ELSE "clean"
  BY DEF Answer, Installed
<1>4. Process.id = 0 /\ Process.parent_id = 0 /\ Process.name = ""
  BY DEF Process
<1>5. GetProcessTree(d, pid) = "clean"
  BY <1>1, <1>2, <1>3, <1>4 DEF GetProcessTree
<1>6. ASSUME NEW cronPID
      PROVE  ~Alarming(Process, cronPID)
  <2>1. Process.parent_id # 1
    BY DEF Process
  <2>2. "" \notin {"bash", "sh", "wget", "curl"} /\ "" \notin SshdNames
    BY DEF SshdNames
  <2>3. Process.name \notin {"bash", "sh", "wget", "curl"} /\ Process.name \notin SshdNames
    BY <1>4, <2>2
  <2> QED
    BY <2>1, <2>3 DEF Alarming
<1>7. CheckPersistence(d) = "clean"
  BY <1>2, <1>3, <1>6 DEF CheckPersistence
<1> QED
  BY <1>5, <1>7

LEMMA EmptyHasNoPlace ==
  ASSUME NEW S, NEW s \in Seq(S)
  PROVE  s = <<>> <=> ~\E i \in DOMAIN s : TRUE
<1>1. Len(s) \in Nat /\ DOMAIN s = 1..Len(s)
  BY LenProperties
<1>2. CASE Len(s) = 0
  <2>1. s = <<>>
    BY <1>2, EmptySeq
  <2> QED BY <1>1, <1>2, <2>1
<1>3. CASE Len(s) # 0
  <2>1. 1 \in DOMAIN s
    BY <1>1, <1>3
  <2>2. s # <<>>
    BY <1>3, EmptySeq
  <2> QED BY <2>1, <2>2
<1> QED BY <1>2, <1>3

\* Of a row of linux.lsmod no field is read, of one of linux.bash the command is.
LEMMA RowsRead ==
  ASSUME NEW d
  PROVE  /\ \A i \in DOMAIN d.modules : UnmarshalAll(KernelModule, Lsmod(d))[i].module = ""
         /\ \A i \in DOMAIN d.commands :
              UnmarshalAll(BashHistory, Bash(d))[i].command = d.commands[i]
         /\ DOMAIN UnmarshalAll(KernelModule, Lsmod(d)) = DOMAIN d.modules
         /\ DOMAIN UnmarshalAll(BashHistory, Bash(d)) = DOMAIN d.commands
<1>1. ASSUME NEW i \in DOMAIN d.modules
      PROVE  UnmarshalAll(KernelModule, Lsmod(d))[i].module = ""
  <2>1. UnmarshalAll(KernelModule, Lsmod(d))[i] = Unmarshal(KernelModule, Lsmod(d)[i])
    BY DEF UnmarshalAll, Lsmod
  <2>2. DOMAIN Lsmod(d)[i] = {"module name"}
    BY DEF Lsmod
  <2>3. DOMAIN KernelModule = {"module"} /\ KernelModule.module = ""
    BY DEF KernelModule
  <2>4. Unmarshal(KernelModule, Lsmod(d)[i]).module = KernelModule.module
    BY <2>2, <2>3 DEF Unmarshal
  <2> QED BY <2>1, <2>3, <2>4
<1>2. ASSUME NEW i \in DOMAIN d.commands
      PROVE  UnmarshalAll(BashHistory, Bash(d))[i].command = d.commands[i]
  <2>1. UnmarshalAll(BashHistory, Bash(d))[i] = Unmarshal(BashHistory, Bash(d)[i])
    BY DEF UnmarshalAll, Bash
  <2>2. Bash(d)[i].command = d.commands[i] /\ "command" \in DOMAIN Bash(d)[i]
    BY DEF Bash
  <2>3. "command" \in DOMAIN BashHistory
    BY DEF BashHistory
  <2>4. Unmarshal(BashHistory, Bash(d)[i]).command = d.commands[i]
    BY <2>2, <2>3 DEF Unmarshal
  <2> QED BY <2>1, <2>4
<1> QED BY <1>1, <1>2 DEF UnmarshalAll, Lsmod, Bash

\* Whatever a dump holds, what each of the tools over it finds (func.go:36-295).
THEOREM ToolsCharacterised ==
  ASSUME NEW d, NEW pid \in Int, NEW M,
         d.modules \in Seq(M), d.commands \in Seq(DangerousFilter \cup {"harmless"})
  PROVE  ToolsSee(d, pid)
<1>1. GetProcessTree(d, pid) = "clean" /\ CheckPersistence(d) = "clean"
  BY NoProcessIsRecognised
<1>2. \A plugin, found : found \in BOOLEAN /\ Installed(plugin) =>
        Answer(plugin, found) = IF found THEN "found" ELSE "clean"
  BY DEF Answer
<1>3. CheckKernelModules(d) = IF d.modules = <<>> THEN "clean" ELSE "found"
  <2>1. d.modules = <<>> <=> ~\E i \in DOMAIN d.modules : TRUE
    BY EmptyHasNoPlace
  <2>2. "" \notin {"ext4", "intel_rapl", "vboxguest", "scsi_mod"}
    OBVIOUS
  <2>3. (\E i \in DOMAIN UnmarshalAll(KernelModule, Lsmod(d)) :
           UnmarshalAll(KernelModule, Lsmod(d))[i].module
             \notin {"ext4", "intel_rapl", "vboxguest", "scsi_mod"})
        <=> d.modules # <<>>
    BY <2>1, <2>2, RowsRead
  <2>4. Installed("linux.lsmod")
    BY DEF Installed
  <2> QED BY <1>2, <2>3, <2>4 DEF CheckKernelModules
<1>4. AnalyzeBashHistory(d) =
        IF \E i \in DOMAIN d.commands : d.commands[i] # "harmless" THEN "found" ELSE "clean"
  <2>1. \A i \in DOMAIN d.commands : d.commands[i] \in DangerousFilter \cup {"harmless"}
    OBVIOUS
  <2>2. "harmless" \notin DangerousFilter
    BY DEF DangerousFilter
  <2>3. (\E i \in DOMAIN UnmarshalAll(BashHistory, Bash(d)) :
           UnmarshalAll(BashHistory, Bash(d))[i].command \in DangerousFilter)
        <=> \E i \in DOMAIN d.commands : d.commands[i] # "harmless"
    <3>1. \A i \in DOMAIN d.commands :
            d.commands[i] \in DangerousFilter <=> d.commands[i] # "harmless"
      BY <2>1, <2>2, Zenon
    <3>2. /\ DOMAIN UnmarshalAll(BashHistory, Bash(d)) = DOMAIN d.commands
          /\ \A i \in DOMAIN d.commands :
               UnmarshalAll(BashHistory, Bash(d))[i].command = d.commands[i]
      BY RowsRead
    <3> QED BY ONLY <3>1, <3>2
  <2>4. Installed("linux.bash")
    BY DEF Installed
  <2> QED BY <1>2, <2>3, <2>4 DEF AnalyzeBashHistory
<1>5. CheckMemoryInjection(d, pid) =
        IF \E i \in DOMAIN d.regions : d.regions[i] = pid THEN "found" ELSE "clean"
  <2>1. Malfind(d, pid) # {} <=> \E i \in DOMAIN d.regions : d.regions[i] = pid
    BY DEF Malfind
  <2>2. Installed("linux.malfind")
    BY DEF Installed
  <2> QED BY <1>2, <2>1, <2>2 DEF CheckMemoryInjection
<1>6. GetNetworkConnections = "error" /\ DecodeCommands = "error"
  BY DEF GetNetworkConnections, DecodeCommands, Answer, Installed
<1> QED BY <1>1, <1>3, <1>4, <1>5, <1>6 DEF ToolsSee

\* Which syslogs the log tool finds something in, and which it fails on
\* (func.go:217-271, main.go:126-146).
THEOREM LogAlertsCharacterised ==
  ASSUME NEW L, NEW syslog, syslog.lines \in Seq(L)
  PROVE  LogAlertCounts(syslog)
<1> DEFINE fails == AnalyzeLogTimelineFails(syslog)
           alert == \E i \in AlertLines(syslog) : MessageAlerts(syslog.lines[i])
<1>1. DOMAIN syslog.lines = 1..Len(syslog.lines)
  OBVIOUS
<1>2. fails <=> ~syslog.there \/ \E i \in 1..Len(syslog.lines) : syslog.lines[i].long
  BY <1>1 DEF AnalyzeLogTimelineFails
<1>3. alert <=> \E i \in 1..Len(syslog.lines) :
                  \/ syslog.lines[i].rest
                  \/ syslog.lines[i].head /\ ~syslog.lines[i].full
  BY <1>1 DEF AlertLines, Alerts, MessageAlerts
<1>4. /\ LogTimeline(syslog) = "error" <=> fails
      /\ LogTimeline(syslog) = "found" <=> ~fails /\ alert
  BY DEF LogTimeline
<1> HIDE DEF fails, alert
<1> QED BY <1>2, <1>3, <1>4 DEF LogAlertCounts

-----------------------------------------------------------------------------
\* What each kind of input is.
LEMMA InputKinds ==
  ASSUME RulesInit
  PROVE  /\ input.what = "scoring" =>
              /\ input.memory \in MCScore /\ input.logs \in MCScore
              /\ Scored \in ScoredMessage({"c"})
         /\ input.what = "decision" => input.confidence \in 0..1000 /\ input.rate \in MCRate
         /\ input.what = "acceptance" => input.file \in Artifact
         /\ input.what = "dump" => input.dump \in MCDump /\ input.pid \in {0, 1, 40}
         /\ input.what = "log" => input.syslog.lines \in UpTo(2, Line)
<1>1. CASE input \in Scoring
  <2>1. PICK a \in MCScore, b \in MCScore, f \in MCFindings :
          input = [what |-> "scoring", memory |-> a, logs |-> b, found |-> f]
    BY <1>1 DEF Scoring
  <2>2. input.what = "scoring" /\ input.memory = a /\ input.logs = b
    BY <2>1
  <2>3. a \in Score /\ b \in Score
    BY <2>1, RulesAssumption
  <2>4. Scored \in ScoredMessage({"c"})
    BY <2>2, <2>3 DEF Scored, ScoredMessage
  <2> QED BY <2>2, <2>4
<1>2. CASE input \in Decision
  <2>1. input.what = "decision" /\ input.confidence \in 0..1000 /\ input.rate \in MCRate
    BY <1>2 DEF Decision
  <2> QED BY <2>1
<1>3. CASE input \in Acceptance
  <2>1. input.what = "acceptance" /\ input.file \in Artifact
    BY <1>3 DEF Acceptance
  <2> QED BY <2>1
<1>4. CASE input \in Dump
  <2>1. input.what = "dump" /\ input.dump \in MCDump /\ input.pid \in {0, 1, 40}
    BY <1>4 DEF Dump
  <2> QED BY <2>1
<1>5. CASE input \in Log
  <2>1. input.what = "log" /\ input.syslog.lines \in UpTo(2, Line)
    BY <1>5 DEF Log
  <2> QED BY <2>1
<1> QED BY <1>1, <1>2, <1>3, <1>4, <1>5 DEF RulesInit

LEMMA UpToIsSeq ==
  ASSUME NEW S, NEW T, S \subseteq T, NEW s \in UpTo(2, S)
  PROVE  s \in Seq(T)
<1>1. PICK k \in 0..2 : s \in [1..k -> S]
  BY DEF UpTo
<1>2. k \in Nat
  OBVIOUS
<1>3. s \in Seq(S)
  BY <1>1, <1>2, SeqDef
<1> QED BY <1>3, SeqMonotonic

LEMMA DumpsAreSequences ==
  ASSUME NEW d \in MCDump
  PROVE  /\ d.modules \in Seq({"ext4", "implant"})
         /\ d.commands \in Seq(DangerousFilter \cup {"harmless"})
<1> DEFINE words == {"wget", "rm -rf /var/log", "harmless"}
<1>1. words \subseteq DangerousFilter \cup {"harmless"}
  BY DEF DangerousFilter
<1>2. \A S : <<>> \in Seq(S)
  BY EmptySeq
<1>3. \/ d.modules = <<>> /\ d.commands = <<>>
      \/ d.modules \in UpTo(2, {"ext4", "implant"}) /\ d.commands \in UpTo(2, words)
  BY DEF MCDump
<1> HIDE DEF words
<1> QED BY <1>1, <1>2, <1>3, UpToIsSeq

\* The gap of a case's confidences is that of Go's sort (main.go:206-212).
LEMMA GapSorts == ASSUME RulesInit PROVE GapIsSorted
<1> SUFFICES ASSUME input.what = "scoring" PROVE GapIsSorted
  BY Zenon DEF GapIsSorted
<1> DEFINE x == HypothesisTracker(Scored).rootkit + Evidence(input.found)
           y == HypothesisTracker(Scored).lateral
           z == HypothesisTracker(Scored).falsePositive
           Orders == {<<1, 2, 3>>, <<1, 3, 2>>, <<2, 1, 3>>,
                      <<2, 3, 1>>, <<3, 1, 2>>, <<3, 2, 1>>}
           Sorts(p) == <<x, y, z>>[p[1]] <= <<x, y, z>>[p[2]]
                         /\ <<x, y, z>>[p[2]] <= <<x, y, z>>[p[3]]
           sorted == CHOOSE p \in Orders : Sorts(p)
<1>1. Scored \in ScoredMessage({"c"})
  BY InputKinds
<1>2. Scored.memory \in Nat /\ Scored.logs \in Nat
  BY <1>1, ScoreValues
<1>3. /\ HypothesisTracker(Scored).rootkit \in Nat
      /\ y \in Nat /\ z \in Nat
  BY <1>2 DEF HypothesisTracker
<1>4. x \in Nat
  BY <1>3, EvidenceValue
<1>5. Adjust(HypothesisTracker(Scored), input.found)
        = [rootkit |-> x, lateral |-> y, falsePositive |-> z]
  BY DEF Adjust
<1> HIDE DEF x, y, z
<1>6. \E p \in Orders : Sorts(p)
  BY <1>3, <1>4, SomeOrder
<1>7. sorted \in Orders /\ Sorts(sorted)
  BY <1>6
<1>8. Gap([rootkit |-> x, lateral |-> y, falsePositive |-> z])
        = <<x, y, z>>[sorted[3]] - <<x, y, z>>[sorted[2]]
  <2> HIDE DEF sorted
  <2> QED BY <1>3, <1>4, <1>7, GapOfSorted
<1> DEFINE a == [rootkit |-> x, lateral |-> y, falsePositive |-> z]
           scores == <<a.rootkit, a.lateral, a.falsePositive>>
           order == CHOOSE p \in Orders : /\ scores[p[1]] <= scores[p[2]]
                                          /\ scores[p[2]] <= scores[p[3]]
<1>9. GapIsSorted <=> Gap(a) = scores[order[3]] - scores[order[2]]
  BY <1>5 DEF GapIsSorted
<1>10. scores = <<x, y, z>>
  OBVIOUS
<1> HIDE DEF a, scores
<1>11. order = sorted
  BY <1>10
<1> HIDE DEF order, sorted
<1>12. Gap(a) = <<x, y, z>>[sorted[3]] - <<x, y, z>>[sorted[2]]
  BY <1>8 DEF a
<1> QED BY <1>9, <1>10, <1>11, <1>12, Zenon

\* Every property of the scores and the bands, of every input.
LEMMA ScoresAndBandsHold == ASSUME RulesInit PROVE ScoresAndBands
<1>1. GapIsSorted
  BY GapSorts
<1>2. Uncertainty
  BY InputKinds, UncertaintyCharacterised DEF Uncertainty
<1>3. Bounds
  BY InputKinds, ConfidencesBounded DEF Bounds
<1>4. input.what = "decision" => input.confidence \in Nat /\ input.rate \in Nat
  <2> SUFFICES ASSUME input.what = "decision"
               PROVE  input.confidence \in Nat /\ input.rate \in Nat
    OBVIOUS
  <2>1. input.confidence \in 0..1000 /\ input.rate \in MCRate
    BY InputKinds
  <2>2. input.confidence \in Nat
    <3> DEFINE c == input.confidence
    <3>1. c \in 0..1000
      BY <2>1
    <3> HIDE DEF c
    <3>2. c \in Nat
      BY ONLY <3>1
    <3> QED BY <3>2 DEF c
  <2>3. input.rate \in Nat
    BY <2>1, RulesAssumption
  <2> QED BY <2>2, <2>3
<1>5. Bands
  BY <1>4, BandsCharacterised DEF Bands
<1>6. OneBand
  BY <1>4, PenaltyIsOneBand, RulesAssumption DEF OneBand
<1> QED BY <1>1, <1>2, <1>3, <1>5, <1>6 DEF ScoresAndBands

\* Every property of the evidence, of every input.
LEMMA EvidenceIsReadHolds == ASSUME RulesInit PROVE EvidenceIsRead
<1>1. DeadEnds
  BY InputKinds, DeadEndsCharacterised DEF DeadEnds
<1>2. OnContent
  BY InputKinds, AcceptedForItsContent DEF OnContent
<1>3. ToolsAnswer
  <2> SUFFICES ASSUME input.what = "dump" PROVE ToolsSee(input.dump, input.pid)
    BY DEF ToolsAnswer
  <2>1. input.dump \in MCDump /\ input.pid \in Int
    BY InputKinds
  <2> QED BY <2>1, DumpsAreSequences, ToolsCharacterised
<1>4. LogAnswer
  <2> SUFFICES ASSUME input.what = "log" PROVE LogAlertCounts(input.syslog)
    BY DEF LogAnswer
  <2>1. input.syslog.lines \in Seq(Line)
    BY InputKinds, UpToIsSeq
  <2> QED BY <2>1, LogAlertsCharacterised
<1> QED BY <1>1, <1>2, <1>3, <1>4 DEF EvidenceIsRead

\* Whatever scores and rates are tried, the scores of a case and its band lie on
\* the right side of every threshold (func.go:16-34, main.go:169-215;
\* decision_engine main.go:72-104).
THEOREM ScoresAreRight == RulesInit /\ [][Next]_input => []ScoresAndBands
<1>1. RulesInit /\ [Next]_input => RulesInit'
  BY DEF Next, RulesInit
<1>2. RulesInit => ScoresAndBands
  BY ScoresAndBandsHold
<1> QED BY <1>1, <1>2, PTL

\* Whatever file, dump or syslog is looked at, the services read off it what
\* EvidenceIsRead says (worker.go:208-362, func.go:36-295).
THEOREM EvidenceReadRight == RulesInit /\ [][Next]_input => []EvidenceIsRead
<1>1. RulesInit /\ [Next]_input => RulesInit'
  BY DEF Next, RulesInit
<1>2. RulesInit => EvidenceIsRead
  BY EvidenceIsReadHolds
<1> QED BY <1>1, <1>2, PTL
=============================================================================
