------------------------ MODULE EvidenceLoader_proof ------------------------
(***************************************************************************)
(* The chain of custody of the evidence loader, for any number of uploads, *)
(* files and parts, and under every failure.                               *)
(***************************************************************************)
EXTENDS EvidenceLoader, SequenceTheorems, TLAPS

\* What the handler of u has established at each of its stages, and that
\* nothing of an announced upload is touched again: its handler has returned.
Custody(u) ==
  /\ pc[u] \in {"detect", "mount"} => temp[u] # NoFile
  /\ pc[u] = "mount" => DetectArtifact(temp[u]) # "unknown"
  /\ pc[u] \in {"validate", "hash", "checksum", "state", "describe", "publish"} =>
       final[u] # NoFile /\ DetectArtifact(final[u]) # "unknown"
  /\ pc[u] \in {"hash", "checksum", "state", "describe", "publish"} => FileValidation(final[u])
  /\ pc[u] \in {"state", "describe", "publish"} => checksum[u] = final[u]
  /\ pc[u] \in {"describe", "publish"} => ready[u]
  /\ u \in announced =>
       /\ pc[u] = "answered"
       /\ final[u] # NoFile /\ Accepted(final[u])
       /\ checksum[u] = final[u]
       /\ ready[u]

IInv == TypeOK /\ \A u \in Upload : Custody(u)

-----------------------------------------------------------------------------
\* The initial states are typed and no upload is under way.
LEMMA InitIInv == Init => IInv
<1> SUFFICES ASSUME Init PROVE IInv
  OBVIOUS
<1>1. TypeOK
  <2>1. parts \in [Upload -> Seq(File \cup {Field})]
    <3> DEFINE S == UNION {[1..n -> File \cup {Field}] : n \in 0..MaxParts}
    <3>1. \A n \in Nat : [1..n -> File \cup {Field}] \subseteq Seq(File \cup {Field})
      BY SeqDef
    <3>2. S \subseteq Seq(File \cup {Field})
      BY <3>1, LoaderAssumption
    <3>3. parts \in [Upload -> S]
      BY DEF Init
    <3> HIDE DEF S
    <3> QED BY <3>2, <3>3
  <2> QED BY <2>1 DEF Init, TypeOK, Stage
<1>2. \A u \in Upload : Custody(u)
  BY DEF Init, Custody
<1> QED BY <1>1, <1>2 DEF IInv

\* An upload whose view is left alone, and which is not newly announced, keeps
\* what its handler has established.
LEMMA OthersKeepCustody ==
  ASSUME NEW u \in Upload, Custody(u),
         pc'[u] = pc[u], temp'[u] = temp[u], final'[u] = final[u],
         checksum'[u] = checksum[u], ready'[u] = ready[u],
         u \in announced' => u \in announced
  PROVE  Custody(u)'
BY DEF Custody, Accepted

\* An upload that has been answered, and not announced, is bound to nothing.
LEMMA AnsweredKeepsCustody ==
  ASSUME NEW u \in Upload, pc'[u] \in {"answered", "dead"}, u \notin announced'
  PROVE  Custody(u)'
BY DEF Custody

\* Until it is answered an upload is not announced.
LEMMA NotYetAnnounced ==
  ASSUME NEW u \in Upload, Custody(u), pc[u] # "answered"
  PROVE  u \notin announced
BY DEF Custody

\* What the handler answers when it does not accept.
Refusals == {400, 413, 422, 500}

\* The state that a rejection of u leaves.
Rejected(u) ==
  /\ pc' \in [Upload -> Stage \cup {"waiting", "answered", "dead"}]
  /\ answer' \in [Upload -> {0, 202, 400, 413, 422, 500}]
  /\ raw' \in [Upload -> SUBSET File]
  /\ final' \in [Upload -> File \cup {NoFile}]
  /\ parts' = parts /\ temp' = temp /\ ctx' = ctx /\ faults' = faults /\ announced' = announced
  /\ Custody(u)'
  /\ \A v \in Upload \ {u} : pc'[v] = pc[v] /\ final'[v] = final[v]

\* Reject types the state it leaves.
LEMMA RejectStep ==
  ASSUME NEW u \in Upload, NEW codes, TypeOK, Reject(u, codes), pc[u] # "answered",
         codes \subseteq Refusals, u \notin announced
  PROVE  Rejected(u)
<1>0. \E code \in codes : Answer(u, code)
  BY ZenonT(40) DEF Reject
<1>1. /\ pc' = [pc EXCEPT ![u] = "answered"]
      /\ \E code \in codes : answer' = [answer EXCEPT ![u] = code]
      /\ parts' = parts /\ temp' = temp /\ ctx' = ctx /\ faults' = faults /\ announced' = announced
  <2>1. /\ pc' = [pc EXCEPT ![u] = "answered"]
        /\ \E code \in codes : answer' = [answer EXCEPT ![u] = code]
    BY <1>0, ZenonT(40) DEF Answer, Goto
  <2>2. parts' = parts /\ temp' = temp /\ ctx' = ctx /\ faults' = faults /\ announced' = announced
    BY DEF Reject
  <2> QED BY <2>1, <2>2
<1>2. \/ raw' = [raw EXCEPT ![u] = {}] /\ final' = [final EXCEPT ![u] = NoFile]
      \/ raw' = raw /\ final' = final
  BY DEF Reject, disk
<1>3. pc'[u] = "answered"
  BY <1>1 DEF TypeOK
<1>4. Custody(u)'
  BY <1>1, <1>3, AnsweredKeepsCustody
<1>5. answer' \in [Upload -> {0, 202, 400, 413, 422, 500}]
  BY <1>1 DEF TypeOK, Refusals
<1>6. pc' \in [Upload -> Stage \cup {"waiting", "answered", "dead"}]
  BY <1>1 DEF TypeOK
<1>7. raw' \in [Upload -> SUBSET File] /\ final' \in [Upload -> File \cup {NoFile}]
  <2> DEFINE Files == SUBSET File
  <2>1. {} \in Files /\ raw \in [Upload -> Files] /\ final \in [Upload -> File \cup {NoFile}]
    BY DEF TypeOK
  <2> HIDE DEF Files
  <2>2. raw' \in [Upload -> Files]
    BY <1>2, <2>1
  <2>3. final' \in [Upload -> File \cup {NoFile}]
    BY <1>2, <2>1
  <2> QED BY <2>2, <2>3 DEF Files
<1>8. \A v \in Upload \ {u} : pc'[v] = pc[v] /\ final'[v] = final[v]
  BY <1>1, <1>2 DEF TypeOK
<1> QED BY <1>1, <1>4, <1>5, <1>6, <1>7, <1>8, Zenon DEF Rejected

\* The type and the custody after a rejected step of u that leaves Redis alone.
LEMMA RejectKeepsIInv ==
  ASSUME NEW u \in Upload, NEW codes, IInv, Reject(u, codes), UNCHANGED redis,
         pc[u] # "answered", codes \subseteq Refusals
  PROVE  IInv'
<1>1. TypeOK /\ \A v \in Upload : Custody(v)
  BY DEF IInv
<1>2. u \notin announced
  BY <1>1, NotYetAnnounced
<1>3. checksum' = checksum /\ ready' = ready
  BY DEF redis
<1>4. /\ pc' \in [Upload -> Stage \cup {"waiting", "answered", "dead"}]
      /\ answer' \in [Upload -> {0, 202, 400, 413, 422, 500}]
      /\ raw' \in [Upload -> SUBSET File]
      /\ final' \in [Upload -> File \cup {NoFile}]
      /\ parts' = parts /\ temp' = temp /\ ctx' = ctx /\ faults' = faults /\ announced' = announced
      /\ Custody(u)'
      /\ \A v \in Upload \ {u} : pc'[v] = pc[v] /\ final'[v] = final[v]
  <2>1. Rejected(u)
    BY <1>1, <1>2, RejectStep
  <2> QED BY <2>1, Zenon DEF Rejected
<1>5. TypeOK'
  BY <1>1, <1>3, <1>4 DEF TypeOK
<1>6. ASSUME NEW v \in Upload PROVE Custody(v)'
  <2>1. CASE v = u
    BY <2>1, <1>4
  <2>2. CASE v # u
    BY <2>2, <1>1, <1>3, <1>4, OthersKeepCustody
  <2> QED BY <2>1, <2>2
<1> QED BY <1>5, <1>6 DEF IInv

\* A handler moves on from one stage to the next and writes nothing.
LEMMA GotoKeepsIInv ==
  ASSUME NEW u \in Upload, NEW label \in Stage, IInv, Goto(u, label),
         UNCHANGED <<parts, temp, ctx, disk, redis, announced, answer, faults>>,
         pc[u] # "answered", pc'[u] = label => Custody(u)'
  PROVE  IInv'
<1>1. TypeOK /\ \A v \in Upload : Custody(v)
  BY DEF IInv
<1>2. /\ pc' = [pc EXCEPT ![u] = label]
      /\ parts' = parts /\ temp' = temp /\ ctx' = ctx /\ faults' = faults /\ announced' = announced
      /\ raw' = raw /\ final' = final /\ checksum' = checksum /\ ready' = ready
      /\ answer' = answer
  BY DEF Goto, disk, redis
<1>3. TypeOK'
  <2>1. pc' \in [Upload -> Stage \cup {"waiting", "answered", "dead"}]
    BY <1>1, <1>2 DEF TypeOK
  <2> QED BY <1>1, <1>2, <2>1 DEF TypeOK
<1>4. pc'[u] = label /\ \A v \in Upload \ {u} : pc'[v] = pc[v]
  BY <1>1, <1>2 DEF TypeOK
<1>5. ASSUME NEW v \in Upload PROVE Custody(v)'
  <2>1. CASE v = u
    BY <2>1, <1>4
  <2>2. CASE v # u
    BY <2>2, <1>1, <1>2, <1>4, OthersKeepCustody
  <2> QED BY <2>1, <2>2
<1> QED BY <1>3, <1>5 DEF IInv

\* A step of EvaluatePipeline that keeps nothing; what it establishes when it
\* passes is the last premise.
LEMMA InspectKeepsIInv ==
  ASSUME NEW u \in Upload, NEW label \in Stage, NEW next \in Stage, NEW passes, NEW codes,
         IInv, Inspect(u, label, passes, next, codes),
         ~passes \/ DiskMayFail => codes \subseteq Refusals,
         passes /\ pc'[u] = next /\ temp' = temp /\ final' = final /\ checksum' = checksum
           /\ ready' = ready /\ announced' = announced => Custody(u)'
  PROVE  IInv'
<1>1. pc[u] = label /\ pc[u] # "answered"
  BY DEF Inspect, At, Stage
<1>2. CASE /\ passes
           /\ Goto(u, next)
           /\ UNCHANGED <<parts, temp, ctx, disk, redis, announced, answer, faults>>
  BY <1>1, <1>2, GotoKeepsIInv DEF disk, redis
<1>3. CASE (~passes \/ DiskMayFail) /\ Reject(u, codes) /\ UNCHANGED redis
  BY <1>1, <1>3, RejectKeepsIInv
<1> QED BY <1>2, <1>3 DEF Inspect

-----------------------------------------------------------------------------
LEMMA ArriveKeepsIInv == ASSUME NEW u \in Upload, IInv, Arrive(u) PROVE IInv'
<1>1. TypeOK /\ Custody(u) /\ pc[u] = "waiting" /\ (\A v \in Upload : Custody(v))
  BY DEF IInv, Arrive, At
<1>2. u \notin announced
  BY <1>1, NotYetAnnounced
<1>3. UNCHANGED <<parts, temp, ctx, disk, redis, announced, faults>>
  BY DEF Arrive
<1>4. CASE Goto(u, "parts") /\ UNCHANGED answer
  <2>1. pc'[u] = "parts" => Custody(u)'
    BY <1>2, <1>3 DEF Custody
  <2> QED BY <1>1, <1>3, <1>4, <2>1, GotoKeepsIInv DEF Stage
<1>5. ASSUME NEW code \in {400, 500}, Answer(u, code) PROVE IInv'
  <2>1. /\ pc' = [pc EXCEPT ![u] = "answered"] /\ answer' = [answer EXCEPT ![u] = code]
        /\ parts' = parts /\ temp' = temp /\ ctx' = ctx /\ faults' = faults /\ announced' = announced
        /\ raw' = raw /\ final' = final /\ checksum' = checksum /\ ready' = ready
    BY <1>3, <1>5 DEF Answer, Goto, disk, redis
  <2>2. answer' \in [Upload -> {0, 202, 400, 413, 422, 500}]
    BY <1>1, <1>5, <2>1 DEF TypeOK
  <2>3. pc' \in [Upload -> Stage \cup {"waiting", "answered", "dead"}]
    BY <1>1, <2>1 DEF TypeOK
  <2>4. TypeOK'
    BY <1>1, <2>1, <2>2, <2>3 DEF TypeOK
  <2>5. pc'[u] = "answered" /\ \A v \in Upload \ {u} : pc'[v] = pc[v]
    BY <1>1, <2>1 DEF TypeOK
  <2>6. ASSUME NEW v \in Upload PROVE Custody(v)'
    <3>1. CASE v = u
      BY <3>1, <1>2, <2>1, <2>5, AnsweredKeepsCustody
    <3>2. CASE v # u
      BY <3>2, <1>1, <2>1, <2>5, OthersKeepCustody
    <3> QED BY <3>1, <3>2
  <2> QED BY <2>4, <2>6 DEF IInv
<1> QED BY <1>4, <1>5 DEF Arrive

LEMMA ReadPartKeepsIInv == ASSUME NEW u \in Upload, IInv, ReadPart(u) PROVE IInv'
<1> DEFINE part == Head(parts[u])
           Files == SUBSET File
<1>1. TypeOK /\ pc[u] = "parts" /\ parts[u] # <<>> /\ \A v \in Upload : Custody(v)
  BY DEF IInv, ReadPart, At
<1>2. /\ parts' = [parts EXCEPT ![u] = Tail(@)]
      /\ pc' = pc /\ ctx' = ctx /\ faults' = faults /\ final' = final /\ checksum' = checksum
      /\ ready' = ready /\ announced' = announced /\ answer' = answer
  BY DEF ReadPart, redis
<1>3. parts[u] \in Seq(File \cup {Field})
  BY <1>1 DEF TypeOK
<1>4. part \in File \cup {Field} /\ Tail(parts[u]) \in Seq(File \cup {Field})
  BY <1>1, <1>3
<1>5. parts' \in [Upload -> Seq(File \cup {Field})]
  BY <1>1, <1>2, <1>4 DEF TypeOK
<1>6. \/ temp' = temp /\ raw' = raw
      \/ /\ part \in File
         /\ temp' = [temp EXCEPT ![u] = part]
         /\ raw' = [raw EXCEPT ![u] = @ \cup {part}]
  BY <1>4 DEF ReadPart
<1>7. temp' \in [Upload -> File \cup {NoFile}] /\ \A v \in Upload \ {u} : temp'[v] = temp[v]
  <2>1. temp \in [Upload -> File \cup {NoFile}]
    BY <1>1 DEF TypeOK
  <2> HIDE DEF part
  <2> QED BY <1>6, <2>1
<1>8. raw' \in [Upload -> Files]
  <2>1. raw \in [Upload -> Files] /\ raw[u] \in Files
    BY <1>1 DEF TypeOK
  <2>2. part \in File => raw[u] \cup {part} \in Files
    BY <2>1
  <2> HIDE DEF Files, part
  <2> QED BY <1>6, <2>1, <2>2
<1>9. TypeOK'
  BY <1>1, <1>2, <1>5, <1>7, <1>8 DEF TypeOK
<1>10. ASSUME NEW v \in Upload PROVE Custody(v)'
  <2>1. CASE v = u
    BY <2>1, <1>1, <1>2 DEF Custody
  <2>2. CASE v # u
    BY <2>2, <1>1, <1>2, <1>7, OthersKeepCustody
  <2> QED BY <2>1, <2>2
<1> QED BY <1>9, <1>10 DEF IInv

LEMMA BadPartKeepsIInv == ASSUME NEW u \in Upload, IInv, BadPart(u) PROVE IInv'
BY RejectKeepsIInv DEF BadPart, At, Refusals

LEMMA EndOfPartsKeepsIInv == ASSUME NEW u \in Upload, IInv, EndOfParts(u) PROVE IInv'
<1>1. pc[u] = "parts" /\ Custody(u)
  BY DEF EndOfParts, At, IInv
<1>2. CASE temp[u] = NoFile
  BY <1>1, <1>2, RejectKeepsIInv DEF EndOfParts, Refusals
<1>3. CASE temp[u] # NoFile
  <2>1. Goto(u, "detect") /\ UNCHANGED <<parts, temp, ctx, disk, redis, announced, answer, faults>>
    BY <1>3 DEF EndOfParts
  <2>2. pc'[u] = "detect" => Custody(u)'
    BY <1>1, <1>3, <2>1 DEF Custody
  <2> QED BY <1>1, <2>1, <2>2, GotoKeepsIInv DEF Stage
<1> QED BY <1>2, <1>3

LEMMA DetectKeepsIInv == ASSUME NEW u \in Upload, IInv, Detect(u) PROVE IInv'
<1> DEFINE unknown == DetectArtifact(temp[u]) = "unknown"
           passes == ~unknown
           codes == (IF unknown THEN {DetectionAnswer(temp[u])} ELSE {}) \cup
                    (IF DiskMayFail THEN {422} ELSE {})
<1>1. Inspect(u, "detect", passes, "mount", codes)
  BY DEF Detect
<1>2. codes \subseteq Refusals
  BY DEF DetectionAnswer, Refusals
<1>3. pc[u] = "detect" /\ Custody(u)
  BY DEF IInv, Detect, Inspect, At
<1>4. passes /\ pc'[u] = "mount" /\ temp' = temp /\ final' = final /\ checksum' = checksum
        /\ ready' = ready /\ announced' = announced => Custody(u)'
  BY <1>3 DEF Custody
<1>5. "detect" \in Stage /\ "mount" \in Stage
  BY DEF Stage
<1> HIDE DEF unknown, passes, codes
<1> QED BY <1>1, <1>2, <1>4, <1>5, InspectKeepsIInv, Zenon

LEMMA MountKeepsIInv == ASSUME NEW u \in Upload, IInv, Mount(u) PROVE IInv'
<1> DEFINE Files == SUBSET File
<1>1. TypeOK /\ Custody(u) /\ pc[u] = "mount" /\ \A v \in Upload : Custody(v)
  BY DEF IInv, Mount, At
<1>2. CASE DiskMayFail /\ Reject(u, {422}) /\ UNCHANGED redis
  BY <1>1, <1>2, RejectKeepsIInv DEF Refusals
<1>3. ASSUME /\ final' = [final EXCEPT ![u] = temp[u]]
             /\ raw' \in {[raw EXCEPT ![u] = {}]} \cup
                  IF DiskMayFail THEN {[raw EXCEPT ![u] = @ \ {temp[u]}]} ELSE {}
             /\ Goto(u, "validate")
             /\ UNCHANGED <<parts, temp, ctx, redis, announced, answer, faults>>
      PROVE  IInv'
  <2>1. /\ pc' = [pc EXCEPT ![u] = "validate"]
        /\ parts' = parts /\ temp' = temp /\ ctx' = ctx /\ faults' = faults /\ checksum' = checksum
        /\ ready' = ready /\ announced' = announced /\ answer' = answer
    BY <1>3 DEF Goto, redis
  <2>2. temp[u] \in File /\ temp[u] # NoFile
    BY <1>1 DEF TypeOK, Custody
  <2>3. final' \in [Upload -> File \cup {NoFile}] /\ final'[u] = temp[u]
        /\ \A v \in Upload \ {u} : final'[v] = final[v]
    BY <1>1, <1>3, <2>2 DEF TypeOK
  <2>4. raw' \in [Upload -> Files]
    <3>1. raw \in [Upload -> Files]
      BY <1>1 DEF TypeOK
    <3>2. {} \in Files /\ raw[u] \ {temp[u]} \in Files
      BY <3>1
    <3>3. raw' = [raw EXCEPT ![u] = {}] \/ raw' = [raw EXCEPT ![u] = raw[u] \ {temp[u]}]
      BY <1>3
    <3> HIDE DEF Files
    <3> QED BY <3>1, <3>2, <3>3
  <2>5. pc' \in [Upload -> Stage \cup {"waiting", "answered", "dead"}]
        /\ pc'[u] = "validate" /\ \A v \in Upload \ {u} : pc'[v] = pc[v]
    BY <1>1, <2>1 DEF TypeOK, Stage
  <2>6. TypeOK'
    BY <1>1, <2>1, <2>3, <2>4, <2>5 DEF TypeOK
  <2>7. ASSUME NEW v \in Upload PROVE Custody(v)'
    <3>1. CASE v = u
      BY <3>1, <1>1, <2>1, <2>2, <2>3, <2>5 DEF Custody
    <3>2. CASE v # u
      BY <3>2, <1>1, <2>1, <2>3, <2>5, OthersKeepCustody
    <3> QED BY <3>1, <3>2
  <2> QED BY <2>6, <2>7 DEF IInv
<1> QED BY <1>2, <1>3 DEF Mount

LEMMA ValidateKeepsIInv == ASSUME NEW u \in Upload, IInv, Validate(u) PROVE IInv'
<1> DEFINE passes == FileValidation(final[u]) /\ (DetectArtifact(final[u]) = "memory" => ctx[u])
           codes == {422}
<1>1. Inspect(u, "validate", passes, "hash", codes)
  BY DEF Validate
<1>2. pc[u] = "validate" /\ Custody(u)
  BY DEF IInv, Validate, Inspect, At
<1>3. passes /\ pc'[u] = "hash" /\ temp' = temp /\ final' = final /\ checksum' = checksum
        /\ ready' = ready /\ announced' = announced => Custody(u)'
  BY <1>2 DEF Custody
<1>4. "validate" \in Stage /\ "hash" \in Stage
  BY DEF Stage
<1>5. codes \subseteq Refusals
  BY DEF Refusals
<1> HIDE DEF passes, codes
<1> QED BY <1>1, <1>3, <1>4, <1>5, InspectKeepsIInv, Zenon

LEMMA HashKeepsIInv == ASSUME NEW u \in Upload, IInv, Hash(u) PROVE IInv'
<1> DEFINE passes == TRUE
           codes == {422}
<1>1. Inspect(u, "hash", passes, "checksum", codes)
  BY DEF Hash
<1>2. pc[u] = "hash" /\ Custody(u)
  BY DEF IInv, Hash, Inspect, At
<1>3. passes /\ pc'[u] = "checksum" /\ temp' = temp /\ final' = final /\ checksum' = checksum
        /\ ready' = ready /\ announced' = announced => Custody(u)'
  BY <1>2 DEF Custody
<1>4. "hash" \in Stage /\ "checksum" \in Stage
  BY DEF Stage
<1>5. codes \subseteq Refusals
  BY DEF Refusals
<1> HIDE DEF passes, codes
<1> QED BY <1>1, <1>3, <1>4, <1>5, InspectKeepsIInv, Zenon

LEMMA DescribeKeepsIInv == ASSUME NEW u \in Upload, IInv, Describe(u) PROVE IInv'
<1> DEFINE passes == TRUE
           codes == {422}
<1>1. Inspect(u, "describe", passes, "publish", codes)
  BY DEF Describe
<1>2. pc[u] = "describe" /\ Custody(u)
  BY DEF IInv, Describe, Inspect, At
<1>3. passes /\ pc'[u] = "publish" /\ temp' = temp /\ final' = final /\ checksum' = checksum
        /\ ready' = ready /\ announced' = announced => Custody(u)'
  BY <1>2 DEF Custody
<1>4. "describe" \in Stage /\ "publish" \in Stage
  BY DEF Stage
<1>5. codes \subseteq Refusals
  BY DEF Refusals
<1> HIDE DEF passes, codes
<1> QED BY <1>1, <1>3, <1>4, <1>5, InspectKeepsIInv, Zenon

LEMMA SetChecksumKeepsIInv == ASSUME NEW u \in Upload, IInv, SetChecksum(u) PROVE IInv'
<1>1. TypeOK /\ Custody(u) /\ pc[u] = "checksum" /\ \A v \in Upload : Custody(v)
  BY DEF IInv, SetChecksum, SetKey, At
<1>2. u \notin announced /\ ready' = ready
  BY <1>1, NotYetAnnounced DEF SetChecksum
<1>3. final[u] \in (File \cup {NoFile})
  BY <1>1 DEF TypeOK
<1>4. checksum' = checksum \/ checksum' = [checksum EXCEPT ![u] = final[u]]
  BY DEF SetChecksum, SetKey
<1>5. checksum' \in [Upload -> (File \cup {NoFile})] /\ \A v \in Upload \ {u} : checksum'[v] = checksum[v]
  BY <1>1, <1>3, <1>4 DEF TypeOK
<1>6. CASE Reject(u, {422})
  <2>1. /\ pc' \in [Upload -> Stage \cup {"waiting", "answered", "dead"}]
        /\ answer' \in [Upload -> {0, 202, 400, 413, 422, 500}]
        /\ raw' \in [Upload -> SUBSET File]
        /\ final' \in [Upload -> File \cup {NoFile}]
        /\ parts' = parts /\ temp' = temp /\ ctx' = ctx /\ faults' = faults /\ announced' = announced
        /\ Custody(u)'
        /\ \A v \in Upload \ {u} : pc'[v] = pc[v] /\ final'[v] = final[v]
    <3>1. Rejected(u)
      BY <1>1, <1>2, <1>6, RejectStep DEF Refusals
    <3> QED BY <3>1, Zenon DEF Rejected
  <2>2. TypeOK'
    BY <1>1, <1>2, <1>5, <2>1 DEF TypeOK
  <2>3. ASSUME NEW v \in Upload, v # u PROVE Custody(v)'
    BY <2>3, <1>1, <1>2, <1>5, <2>1, OthersKeepCustody
  <2> QED BY <2>1, <2>2, <2>3 DEF IInv
<1>7. CASE /\ checksum' = [checksum EXCEPT ![u] = final[u]]
           /\ Goto(u, "state")
           /\ UNCHANGED <<parts, temp, ctx, disk, announced, answer, faults>>
  <2>1. /\ pc' = [pc EXCEPT ![u] = "state"]
        /\ parts' = parts /\ temp' = temp /\ ctx' = ctx /\ faults' = faults /\ raw' = raw /\ final' = final
        /\ announced' = announced /\ answer' = answer
    BY <1>7 DEF Goto, disk
  <2>2. pc' \in [Upload -> Stage \cup {"waiting", "answered", "dead"}]
        /\ pc'[u] = "state" /\ \A v \in Upload \ {u} : pc'[v] = pc[v]
    BY <1>1, <2>1 DEF TypeOK, Stage
  <2>3. checksum'[u] = final[u]
    BY <1>1, <1>7 DEF TypeOK
  <2>4. TypeOK'
    BY <1>1, <1>2, <1>5, <2>1, <2>2 DEF TypeOK
  <2>5. Custody(u)'
    BY <1>1, <1>2, <2>1, <2>2, <2>3 DEF Custody
  <2>6. ASSUME NEW v \in Upload, v # u PROVE Custody(v)'
    BY <2>6, <1>1, <1>2, <1>5, <2>1, <2>2, OthersKeepCustody
  <2> QED BY <2>4, <2>5, <2>6 DEF IInv
<1> QED BY <1>6, <1>7 DEF SetChecksum, SetKey

LEMMA SetReadyKeepsIInv == ASSUME NEW u \in Upload, IInv, SetReady(u) PROVE IInv'
<1>1. TypeOK /\ Custody(u) /\ pc[u] = "state" /\ \A v \in Upload : Custody(v)
  BY DEF IInv, SetReady, SetKey, At
<1>2. u \notin announced /\ checksum' = checksum
  BY <1>1, NotYetAnnounced DEF SetReady
<1>3. TRUE \in BOOLEAN
  BY <1>1 DEF TypeOK
<1>4. ready' = ready \/ ready' = [ready EXCEPT ![u] = TRUE]
  BY DEF SetReady, SetKey
<1>5. ready' \in [Upload -> BOOLEAN] /\ \A v \in Upload \ {u} : ready'[v] = ready[v]
  <2> DEFINE B == BOOLEAN
             t == TRUE
  <2>1. ready \in [Upload -> B] /\ t \in B /\ (ready' = ready \/ ready' = [ready EXCEPT ![u] = t])
    BY <1>1, <1>4 DEF TypeOK
  <2> HIDE DEF B, t
  <2>2. ready' \in [Upload -> B] /\ \A v \in Upload \ {u} : ready'[v] = ready[v]
    BY <2>1
  <2> QED BY <2>2 DEF B
<1>6. CASE Reject(u, {422})
  <2>1. /\ pc' \in [Upload -> Stage \cup {"waiting", "answered", "dead"}]
        /\ answer' \in [Upload -> {0, 202, 400, 413, 422, 500}]
        /\ raw' \in [Upload -> SUBSET File]
        /\ final' \in [Upload -> File \cup {NoFile}]
        /\ parts' = parts /\ temp' = temp /\ ctx' = ctx /\ faults' = faults /\ announced' = announced
        /\ Custody(u)'
        /\ \A v \in Upload \ {u} : pc'[v] = pc[v] /\ final'[v] = final[v]
    <3>1. Rejected(u)
      BY <1>1, <1>2, <1>6, RejectStep DEF Refusals
    <3> QED BY <3>1, Zenon DEF Rejected
  <2>2. TypeOK'
    BY <1>1, <1>2, <1>5, <2>1 DEF TypeOK
  <2>3. ASSUME NEW v \in Upload, v # u PROVE Custody(v)'
    BY <2>3, <1>1, <1>2, <1>5, <2>1, OthersKeepCustody
  <2> QED BY <2>1, <2>2, <2>3 DEF IInv
<1>7. CASE /\ ready' = [ready EXCEPT ![u] = TRUE]
           /\ Goto(u, "describe")
           /\ UNCHANGED <<parts, temp, ctx, disk, announced, answer, faults>>
  <2>1. /\ pc' = [pc EXCEPT ![u] = "describe"]
        /\ parts' = parts /\ temp' = temp /\ ctx' = ctx /\ faults' = faults /\ raw' = raw /\ final' = final
        /\ announced' = announced /\ answer' = answer
    BY <1>7 DEF Goto, disk
  <2>2. pc' \in [Upload -> Stage \cup {"waiting", "answered", "dead"}]
        /\ pc'[u] = "describe" /\ \A v \in Upload \ {u} : pc'[v] = pc[v]
    BY <1>1, <2>1 DEF TypeOK, Stage
  <2>3. ready'[u] = TRUE
    BY <1>1, <1>7 DEF TypeOK
  <2>4. TypeOK'
    BY <1>1, <1>2, <1>5, <2>1, <2>2 DEF TypeOK
  <2>5. Custody(u)'
    BY <1>1, <1>2, <2>1, <2>2, <2>3 DEF Custody
  <2>6. ASSUME NEW v \in Upload, v # u PROVE Custody(v)'
    BY <2>6, <1>1, <1>2, <1>5, <2>1, <2>2, OthersKeepCustody
  <2> QED BY <2>4, <2>5, <2>6 DEF IInv
<1> QED BY <1>6, <1>7 DEF SetReady, SetKey

LEMMA PublishKeepsIInv == ASSUME NEW u \in Upload, IInv, Publish(u) PROVE IInv'
<1>1. TypeOK /\ Custody(u) /\ pc[u] = "publish" /\ \A v \in Upload : Custody(v)
  BY DEF IInv, Publish, At
<1>2. /\ pc' = [pc EXCEPT ![u] = "answered"] /\ answer' = [answer EXCEPT ![u] = 202]
      /\ parts' = parts /\ temp' = temp /\ ctx' = ctx /\ faults' = faults /\ raw' = raw /\ final' = final
      /\ checksum' = checksum /\ ready' = ready
      /\ announced' = announced \/ announced' = announced \cup {u}
  BY DEF Publish, Answer, Goto, disk, redis
<1>3. answer' \in [Upload -> {0, 202, 400, 413, 422, 500}]
  BY <1>1, <1>2 DEF TypeOK
<1>4. pc' \in [Upload -> Stage \cup {"waiting", "answered", "dead"}]
      /\ pc'[u] = "answered" /\ \A v \in Upload \ {u} : pc'[v] = pc[v]
  BY <1>1, <1>2 DEF TypeOK
<1>5. TypeOK'
  BY <1>1, <1>2, <1>3, <1>4 DEF TypeOK
<1>6. Custody(u)'
  <2>1. /\ final[u] # NoFile /\ Accepted(final[u])
        /\ checksum[u] = final[u] /\ ready[u]
    BY <1>1 DEF Custody, Accepted
  <2> QED BY <1>2, <1>4, <2>1 DEF Custody, Accepted
<1>7. ASSUME NEW v \in Upload, v # u PROVE Custody(v)'
  BY <1>7, <1>1, <1>2, <1>4, OthersKeepCustody
<1> QED BY <1>5, <1>6, <1>7 DEF IInv

LEMMA LeaveKeepsIInv == ASSUME NEW u \in Upload, IInv, Leave(u) PROVE IInv'
<1>1. TypeOK /\ \A v \in Upload : Custody(v)
  BY DEF IInv
<1>2. /\ ctx' = [ctx EXCEPT ![u] = FALSE] /\ faults' = faults
      /\ parts' = parts /\ pc' = pc /\ temp' = temp /\ raw' = raw /\ final' = final
      /\ checksum' = checksum /\ ready' = ready /\ announced' = announced /\ answer' = answer
  BY DEF Leave, local, disk, redis
<1>3. TypeOK'
  BY <1>1, <1>2 DEF TypeOK
<1>4. ASSUME NEW v \in Upload PROVE Custody(v)'
  BY <1>1, <1>2, OthersKeepCustody
<1> QED BY <1>3, <1>4 DEF IInv

LEMMA CrashKeepsIInv == ASSUME IInv, Crash PROVE IInv'
<1>1. TypeOK /\ \A v \in Upload : Custody(v)
  BY DEF IInv
<1>2. /\ pc' = [u \in Upload |-> IF InProgress(u) THEN "dead" ELSE pc[u]]
      /\ parts' = parts /\ ctx' = ctx /\ faults' = faults /\ temp' = temp /\ raw' = raw /\ final' = final
      /\ checksum' = checksum /\ ready' = ready /\ announced' = announced /\ answer' = answer
  BY DEF Crash, disk, redis
<1>3. pc' \in [Upload -> Stage \cup {"waiting", "answered", "dead"}]
  BY <1>1, <1>2 DEF TypeOK
<1>4. TypeOK'
  BY <1>1, <1>2, <1>3 DEF TypeOK
<1>5. ASSUME NEW v \in Upload PROVE Custody(v)'
  <2>1. CASE InProgress(v)
    <3>1. pc[v] # "answered" /\ pc'[v] = "dead"
      BY <1>2, <2>1 DEF InProgress, Stage
    <3> QED BY <1>1, <1>2, <3>1, NotYetAnnounced, AnsweredKeepsCustody
  <2>2. CASE ~InProgress(v)
    BY <1>1, <1>2, <2>2, OthersKeepCustody
  <2> QED BY <2>1, <2>2
<1> QED BY <1>4, <1>5 DEF IInv

\* Every step keeps the invariant.
LEMMA NextKeepsIInv == IInv /\ [Next]_vars => IInv'
<1> SUFFICES ASSUME IInv, [Next]_vars PROVE IInv'
  OBVIOUS
<1>1. ASSUME NEW u \in Upload, Arrive(u) \/ Handler(u) \/ Leave(u) PROVE IInv'
  BY <1>1, ArriveKeepsIInv, ReadPartKeepsIInv, BadPartKeepsIInv, EndOfPartsKeepsIInv,
     DetectKeepsIInv, MountKeepsIInv, ValidateKeepsIInv, HashKeepsIInv,
     SetChecksumKeepsIInv, SetReadyKeepsIInv, DescribeKeepsIInv, PublishKeepsIInv,
     LeaveKeepsIInv DEF Handler
<1>2. CASE Crash
  BY <1>2, CrashKeepsIInv
<1>3. CASE UNCHANGED vars
  <2>1. /\ parts' = parts /\ pc' = pc /\ ctx' = ctx /\ faults' = faults /\ temp' = temp /\ raw' = raw
        /\ final' = final /\ checksum' = checksum /\ ready' = ready
        /\ announced' = announced /\ answer' = answer
    BY <1>3 DEF vars, local, disk, redis
  <2>2. TypeOK'
    BY <2>1 DEF IInv, TypeOK
  <2>3. ASSUME NEW v \in Upload PROVE Custody(v)'
    BY <2>1, OthersKeepCustody DEF IInv
  <2> QED BY <2>2, <2>3 DEF IInv
<1> QED BY <1>1, <1>2, <1>3 DEF Next, Finished

-----------------------------------------------------------------------------
\* The loader's state is well typed, for any number of uploads (worker.go:29-206).
THEOREM TypeCorrect == SafeSpec => []TypeOK
<1>1. IInv => TypeOK
  BY DEF IInv
<1> QED BY <1>1, InitIInv, NextKeepsIInv, PTL DEF SafeSpec

\* A consumer of evidence-ready finds the file in its place, valid, with its
\* checksum and its state, whatever fails and whoever hangs up (worker.go:96-206).
THEOREM ChainOfCustody == SafeSpec => []AnnouncedIsComplete
<1>1. IInv => AnnouncedIsComplete
  BY DEF IInv, TypeOK, Custody, AnnouncedIsComplete
<1> QED BY <1>1, InitIInv, NextKeepsIInv, PTL DEF SafeSpec
-----------------------------------------------------------------------------
\* What a step does to the keys of one upload: the state is set only where the
\* checksum was, and the checksum only to the mounted file.
KeysMove(u) ==
  /\ ready'[u] => ready[u] \/ pc[u] = "state"
  /\ checksum'[u] = checksum[u] \/ (pc[u] = "checksum" /\ checksum'[u] = final[u])

LEMMA StepMovesKeys == ASSUME NEW u \in Upload, TypeOK, [Next]_vars PROVE KeysMove(u)
<1>1. ASSUME checksum' = checksum, ready' = ready PROVE KeysMove(u)
  BY <1>1 DEF KeysMove
<1>2. ASSUME NEW v \in Upload, Arrive(v) \/ ReadPart(v) \/ BadPart(v) \/ EndOfParts(v) \/ Leave(v)
      PROVE  KeysMove(u)
  BY <1>1, <1>2 DEF Arrive, ReadPart, BadPart, EndOfParts, Leave, redis
<1>3. ASSUME NEW v \in Upload, Detect(v) \/ Mount(v) \/ Validate(v) \/ Hash(v) \/ Describe(v) \/ Publish(v)
      PROVE  KeysMove(u)
  BY <1>1, <1>3 DEF Detect, Mount, Validate, Hash, Describe, Publish, Inspect, redis
<1>4. ASSUME NEW v \in Upload, SetChecksum(v) PROVE KeysMove(u)
  <2>1. /\ ready' = ready /\ pc[v] = "checksum"
        /\ checksum' = checksum \/ checksum' = [checksum EXCEPT ![v] = final[v]]
    BY <1>4 DEF SetChecksum, SetKey, At
  <2> QED BY <2>1 DEF TypeOK, KeysMove
<1>5. ASSUME NEW v \in Upload, SetReady(v) PROVE KeysMove(u)
  <2>1. /\ checksum' = checksum /\ pc[v] = "state"
        /\ ready' = ready \/ ready' = [ready EXCEPT ![v] = TRUE]
    BY <1>5 DEF SetReady, SetKey, At
  <2>2. CASE u = v
    BY <2>1, <2>2 DEF KeysMove
  <2>3. CASE u # v
    <3>1. ready'[u] = ready[u]
      BY <2>1, <2>3 DEF TypeOK
    <3> QED BY <2>1, <3>1 DEF KeysMove
  <2> QED BY <2>2, <2>3
<1>6. CASE Crash \/ UNCHANGED vars
  BY <1>1, <1>6 DEF Crash, vars, redis
<1> QED BY <1>2, <1>3, <1>4, <1>5, <1>6 DEF Next, Handler, Finished

\* A case that is ready has its checksum, whatever was cut short (worker.go:173-192).
THEOREM ReadyAlwaysHasChecksum == SafeSpec => []ReadyHasChecksum
<1>1. Init => ReadyHasChecksum
  BY DEF Init, ReadyHasChecksum
<1>2. IInv /\ ReadyHasChecksum /\ [Next]_vars => ReadyHasChecksum'
  <2> SUFFICES ASSUME IInv, ReadyHasChecksum, [Next]_vars, NEW u \in Upload, ready'[u]
               PROVE  checksum'[u] # NoFile
    BY DEF ReadyHasChecksum
  <2>1. KeysMove(u) /\ Custody(u)
    BY StepMovesKeys DEF IInv
  <2>2. checksum[u] # NoFile
    BY <2>1 DEF KeysMove, Custody, ReadyHasChecksum
  <2> QED BY <2>1, <2>2 DEF KeysMove, Custody
<1> QED BY <1>1, <1>2, InitIInv, NextKeepsIInv, PTL DEF SafeSpec

-----------------------------------------------------------------------------
\* Until it is answered an upload has no status, until it arrives no files, and an
\* error comes when its files are gone.
Clean(u) ==
  /\ pc[u] # "answered" => answer[u] = 0
  /\ pc[u] = "waiting" => raw[u] = {} /\ final[u] = NoFile
  /\ ~DiskMayFail /\ answer[u] \notin {0, 202} => raw[u] = {} /\ final[u] = NoFile

\* A step leaves an upload alone, takes it on, or answers it.
LeavesAlone(u) ==
  pc'[u] = pc[u] /\ answer'[u] = answer[u] /\ raw'[u] = raw[u] /\ final'[u] = final[u]
TakesOn(u) == pc[u] # "answered" /\ pc'[u] # "waiting" /\ answer'[u] = answer[u]
Answers(u) ==
  /\ pc'[u] = "answered"
  /\ ~DiskMayFail /\ answer'[u] \notin {0, 202} => raw'[u] = {} /\ final'[u] = NoFile
Moves(u) == LeavesAlone(u) \/ TakesOn(u) \/ Answers(u)

\* Reject answers one upload and leaves the others alone.
LEMMA RejectMoves ==
  ASSUME NEW u \in Upload, NEW v \in Upload, NEW codes, TypeOK, Reject(v, codes)
  PROVE  Moves(u)
<1>1. /\ pc' = [pc EXCEPT ![v] = "answered"]
      /\ \E code \in codes : answer' = [answer EXCEPT ![v] = code]
      /\ \/ raw' = [raw EXCEPT ![v] = {}] /\ final' = [final EXCEPT ![v] = NoFile]
         \/ DiskMayFail /\ raw' = raw /\ final' = final
  BY DEF Reject, Answer, Goto, disk
<1>2. CASE u = v
  BY <1>1, <1>2 DEF TypeOK, Moves, Answers
<1>3. CASE u # v
  BY <1>1, <1>3 DEF TypeOK, Moves, LeavesAlone
<1> QED BY <1>2, <1>3

\* So does every step of a handler or a client.
LEMMA GotoMoves ==
  ASSUME NEW u \in Upload, NEW v \in Upload, NEW label \in Stage, TypeOK, pc[v] # "answered",
         Goto(v, label), answer' = answer,
         \A w \in Upload \ {v} : raw'[w] = raw[w] /\ final'[w] = final[w]
  PROVE  Moves(u)
<1>1. pc' = [pc EXCEPT ![v] = label] /\ label # "waiting"
  BY DEF Goto, Stage
<1>2. CASE u = v
  BY <1>1, <1>2 DEF TypeOK, Moves, TakesOn
<1>3. CASE u # v
  BY <1>1, <1>3 DEF TypeOK, Moves, LeavesAlone
<1> QED BY <1>2, <1>3

LEMMA InspectMoves ==
  ASSUME NEW u \in Upload, NEW v \in Upload, NEW label \in Stage, NEW next \in Stage,
         NEW passes, NEW codes, TypeOK, Inspect(v, label, passes, next, codes)
  PROVE  Moves(u)
<1>1. pc[v] # "answered"
  BY DEF Inspect, At, Stage
<1>2. CASE Goto(v, next) /\ UNCHANGED <<parts, temp, ctx, disk, redis, announced, answer, faults>>
  BY <1>1, <1>2, GotoMoves DEF disk
<1>3. CASE Reject(v, codes)
  BY <1>3, RejectMoves
<1> QED BY <1>2, <1>3 DEF Inspect

LEMMA SetKeyMoves ==
  ASSUME NEW u \in Upload, NEW v \in Upload, TypeOK, SetChecksum(v) \/ SetReady(v)
  PROVE  Moves(u)
<1>1. pc[v] # "answered"
  BY DEF SetChecksum, SetReady, SetKey, At
<1>2. ASSUME NEW next \in Stage, Goto(v, next), UNCHANGED <<parts, temp, ctx, disk, announced, answer, faults>>
      PROVE  Moves(u)
  BY <1>1, <1>2, GotoMoves DEF disk
<1>3. CASE Reject(v, {422})
  BY <1>3, RejectMoves
<1> QED BY <1>2, <1>3 DEF SetChecksum, SetReady, SetKey, Stage

LEMMA StepMoves ==
  ASSUME NEW u \in Upload, TypeOK, Clean(u), [Next]_vars
  PROVE  Moves(u)
<1>1. ASSUME NEW v \in Upload, Arrive(v) PROVE Moves(u)
  <2>1. pc[v] = "waiting" /\ raw' = raw /\ final' = final
    BY <1>1 DEF Arrive, At, disk
  <2>2. CASE Goto(v, "parts") /\ UNCHANGED answer
    BY <2>1, <2>2, GotoMoves DEF Stage
  <2>3. ASSUME NEW code, Answer(v, code) PROVE Moves(u)
    <3>1. pc' = [pc EXCEPT ![v] = "answered"] /\ answer' = [answer EXCEPT ![v] = code]
      BY <2>3 DEF Answer, Goto
    <3>2. CASE u = v
      BY <2>1, <3>1, <3>2 DEF TypeOK, Clean, Moves, Answers
    <3>3. CASE u # v
      BY <2>1, <3>1, <3>3 DEF TypeOK, Moves, LeavesAlone
    <3> QED BY <3>2, <3>3
  <2> QED BY <1>1, <2>2, <2>3 DEF Arrive
<1>2. ASSUME NEW v \in Upload, ReadPart(v) PROVE Moves(u)
  <2>1. /\ pc[v] = "parts" /\ pc' = pc /\ answer' = answer /\ final' = final
        /\ raw' = raw \/ raw' = [raw EXCEPT ![v] = raw[v] \cup {Head(parts[v])}]
    BY <1>2 DEF ReadPart, At
  <2>2. CASE u = v
    BY <2>1, <2>2 DEF Moves, TakesOn
  <2>3. CASE u # v
    BY <2>1, <2>3 DEF TypeOK, Moves, LeavesAlone
  <2> QED BY <2>2, <2>3
<1>3. ASSUME NEW v \in Upload, BadPart(v) \/ EndOfParts(v) PROVE Moves(u)
  <2>1. pc[v] = "parts"
    BY <1>3 DEF BadPart, EndOfParts, At
  <2>2. CASE Goto(v, "detect") /\ UNCHANGED <<parts, temp, ctx, disk, redis, announced, answer, faults>>
    BY <2>1, <2>2, GotoMoves DEF disk, Stage
  <2>3. CASE Reject(v, {413, 500}) \/ Reject(v, {400})
    BY <2>3, RejectMoves
  <2> QED BY <1>3, <2>2, <2>3 DEF BadPart, EndOfParts
<1>4. ASSUME NEW v \in Upload, Detect(v) \/ Validate(v) \/ Hash(v) \/ Describe(v) PROVE Moves(u)
  <2>1. CASE Detect(v)
    BY <2>1, InspectMoves DEF Detect, Stage
  <2>2. CASE Validate(v)
    BY <2>2, InspectMoves DEF Validate, Stage
  <2>3. CASE Hash(v)
    <3>1. Inspect(v, "hash", TRUE, "checksum", {422}) /\ "hash" \in Stage /\ "checksum" \in Stage
      BY <2>3 DEF Hash, Stage
    <3> QED BY <3>1, InspectMoves, ZenonT(40)
  <2>4. CASE Describe(v)
    <3>1. Inspect(v, "describe", TRUE, "publish", {422}) /\ "describe" \in Stage /\ "publish" \in Stage
      BY <2>4 DEF Describe, Stage
    <3> QED BY <3>1, InspectMoves, ZenonT(40)
  <2> QED BY <1>4, <2>1, <2>2, <2>3, <2>4
<1>5. ASSUME NEW v \in Upload, Mount(v) PROVE Moves(u)
  <2>1. CASE Reject(v, {422})
    BY <2>1, RejectMoves
  <2>2. CASE /\ final' = [final EXCEPT ![v] = temp[v]]
             /\ raw' \in {[raw EXCEPT ![v] = {}]} \cup
                  IF DiskMayFail THEN {[raw EXCEPT ![v] = @ \ {temp[v]}]} ELSE {}
             /\ Goto(v, "validate")
             /\ UNCHANGED <<parts, temp, ctx, redis, announced, answer, faults>>
    <3>1. \A w \in Upload \ {v} : raw'[w] = raw[w] /\ final'[w] = final[w]
      BY <2>2 DEF TypeOK
    <3>2. pc[v] # "answered"
      BY <1>5 DEF Mount, At
    <3> QED BY <2>2, <3>1, <3>2, GotoMoves DEF Stage
  <2> QED BY <1>5, <2>1, <2>2 DEF Mount
<1>6. ASSUME NEW v \in Upload, Publish(v) PROVE Moves(u)
  <2>1. /\ pc' = [pc EXCEPT ![v] = "answered"] /\ answer' = [answer EXCEPT ![v] = 202]
        /\ raw' = raw /\ final' = final
    BY <1>6 DEF Publish, Answer, Goto, disk
  <2>2. CASE u = v
    BY <2>1, <2>2 DEF TypeOK, Moves, Answers
  <2>3. CASE u # v
    BY <2>1, <2>3 DEF TypeOK, Moves, LeavesAlone
  <2> QED BY <2>2, <2>3
<1>7. CASE Crash
  <2>1. /\ pc' = [w \in Upload |-> IF InProgress(w) THEN "dead" ELSE pc[w]]
        /\ answer' = answer /\ raw' = raw /\ final' = final
    BY <1>7 DEF Crash, disk
  <2>2. CASE InProgress(u)
    BY <2>1, <2>2 DEF InProgress, Stage, Moves, TakesOn
  <2>3. CASE ~InProgress(u)
    BY <2>1, <2>3 DEF Moves, LeavesAlone
  <2> QED BY <2>2, <2>3
<1>8. ASSUME UNCHANGED <<pc, answer, disk>> PROVE Moves(u)
  BY <1>8 DEF disk, Moves, LeavesAlone
<1>9. ASSUME NEW v \in Upload, Leave(v) PROVE Moves(u)
  BY <1>8, <1>9 DEF Leave, local
<1>10. CASE UNCHANGED vars
  BY <1>8, <1>10 DEF vars, local
<1> QED BY <1>1, <1>2, <1>3, <1>4, <1>5, <1>6, <1>7, <1>9, <1>10, SetKeyMoves
       DEF Next, Handler, Finished

\* An upload answered with an error has left no evidence behind, as long as the
\* disk works (worker.go:51-107).
THEOREM RejectedAlwaysLeavesNothing == SafeSpec => []RejectedLeavesNothing
<1> DEFINE AllClean == \A u \in Upload : Clean(u)
<1>1. Init => AllClean
  BY DEF Init, Clean
<1>2. IInv /\ AllClean /\ [Next]_vars => AllClean'
  <2> SUFFICES ASSUME IInv, AllClean, [Next]_vars, NEW u \in Upload PROVE Clean(u)'
    OBVIOUS
  <2>1. Moves(u)
    BY StepMoves DEF IInv
  <2>2. faults' = faults
    BY DEF Next, vars, Finished, Arrive, Handler, ReadPart, BadPart, EndOfParts, Detect, Mount,
       Validate, Hash, SetChecksum, SetReady, Describe, Publish, Leave, Crash, Inspect, SetKey, Reject
  <2> QED BY <2>1, <2>2 DEF Clean, Moves, LeavesAlone, TakesOn, Answers, DiskMayFail
<1>3. AllClean => RejectedLeavesNothing
  BY DEF Clean, RejectedLeavesNothing
<1> HIDE DEF AllClean
<1> QED BY <1>1, <1>2, <1>3, InitIInv, NextKeepsIInv, PTL DEF SafeSpec
=============================================================================
