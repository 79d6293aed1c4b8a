--------------------------- MODULE EvidenceLoader ---------------------------
(***************************************************************************)
(* The evidence loader: POST /upload as MultiPartUploader and              *)
(* EvaluatePipeline handle it (evidence-loader/internal/worker/worker.go). *)
(* Every request runs in a goroutine of its own and gets a fresh UUID as   *)
(* its case, so a case is identified with its upload.  The request's       *)
(* context dies with the client's connection.                              *)
(***************************************************************************)
EXTENDS Artifacts, Naturals, Sequences

CONSTANTS
  Upload,         \* requests
  File,           \* the files that clients send
  Field,          \* a part of a form that is not a file
  MaxParts,       \* bound: parts of a request
  Scenario        \* the combinations of faults considered, see Fault

\* A SET may fail, or fail though applied; so may WriteMessages; a file
\* operation may fail; a client may close its connection early; the process
\* may die, and nothing resumes an upload.
Fault == {"redis", "broker", "disk", "leave", "crash"}

ASSUME LoaderAssumption ==
  /\ File \subseteq Artifact
  /\ Field \notin File
  /\ MaxParts \in Nat
  /\ Scenario # {} /\ Scenario \subseteq SUBSET Fault

VARIABLES
  parts,      \* parts[u]: the parts the client has yet to send
  pc,         \* pc[u]: where the handler of u is
  ctx,        \* ctx[u]: the client is there, the request's context alive
  temp,       \* temp[u]: the file at tempFilePath, the last one received
  raw,        \* raw[u]: files under /evidence/<case>/raw
  final,      \* final[u]: the file at its MountPath
  checksum,   \* checksum[u]: the file whose SHA is in artifact:<case>:checksum
  ready,      \* ready[u]: pipeline:<case>:state says "ready"
  announced,  \* uploads that evidence-ready has a message of, once or more
  answer,     \* answer[u]: the HTTP status, 0 as long as there is none
  faults      \* the faults this behaviour may meet, chosen once

local == <<parts, pc, temp>>
disk == <<raw, final>>
redis == <<checksum, ready>>
vars == <<local, ctx, disk, redis, announced, answer, faults>>

RedisMayFail == "redis" \in faults
BrokerMayFail == "broker" \in faults
DiskMayFail == "disk" \in faults

NoFile == [kind |-> "none"]
Stage == {"parts", "detect", "mount", "validate", "hash", "checksum", "state",
          "describe", "publish"}
InProgress(u) == pc[u] \in Stage

TypeOK ==
  /\ parts \in [Upload -> Seq(File \cup {Field})]
  /\ pc \in [Upload -> Stage \cup {"waiting", "answered", "dead"}]
  /\ ctx \in [Upload -> BOOLEAN]
  /\ temp \in [Upload -> File \cup {NoFile}]
  /\ raw \in [Upload -> SUBSET File]
  /\ final \in [Upload -> File \cup {NoFile}]
  /\ checksum \in [Upload -> File \cup {NoFile}]
  /\ ready \in [Upload -> BOOLEAN]
  /\ announced \subseteq Upload
  /\ answer \in [Upload -> {0, 202, 400, 413, 422, 500}]
  /\ faults \in Scenario

-----------------------------------------------------------------------------
Init ==
  /\ parts \in [Upload -> UNION {[1..n -> File \cup {Field}] : n \in 0..MaxParts}]
  /\ pc = [u \in Upload |-> "waiting"]
  /\ ctx = [u \in Upload |-> TRUE]
  /\ temp = [u \in Upload |-> NoFile]
  /\ raw = [u \in Upload |-> {}]
  /\ final = [u \in Upload |-> NoFile]
  /\ checksum = [u \in Upload |-> NoFile]
  /\ ready = [u \in Upload |-> FALSE]
  /\ announced = {}
  /\ answer = [u \in Upload |-> 0]
  /\ faults \in Scenario

At(u, label) == pc[u] = label
Goto(u, label) == pc' = [pc EXCEPT ![u] = label]

Answer(u, code) ==
  /\ answer' = [answer EXCEPT ![u] = code]
  /\ Goto(u, "answered")

\* Mutant: only the raw directory is removed, as for the errors of a part.
Reject_RawOnly(u, codes) ==
  /\ \E code \in codes : Answer(u, code)
  /\ raw' = [raw EXCEPT ![u] = {}]
  /\ UNCHANGED <<parts, temp, ctx, final, announced, faults>>

\* RemoveAll and an error status.  Whether RemoveAll succeeds is not looked at.
\* The Redis keys are left to the caller of this operator.
Reject(u, codes) ==
  /\ \E code \in codes : Answer(u, code)
  /\ \/ raw' = [raw EXCEPT ![u] = {}] /\ final' = [final EXCEPT ![u] = NoFile]
     \/ DiskMayFail /\ UNCHANGED disk
  /\ UNCHANGED <<parts, temp, ctx, announced, faults>>

\* The request arrives; it is multipart or not, its directory is made or not.
Arrive(u) ==
  /\ At(u, "waiting")
  /\ \/ Goto(u, "parts") /\ UNCHANGED answer
     \/ Answer(u, 400)
     \/ DiskMayFail /\ Answer(u, 500)
  /\ UNCHANGED <<parts, temp, ctx, disk, redis, announced, faults>>

\* A file part is copied to raw under its own name; a form field is skipped.
ReadPart(u) ==
  /\ At(u, "parts")
  /\ parts[u] # <<>>
  /\ parts' = [parts EXCEPT ![u] = Tail(@)]
  /\ IF Head(parts[u]) = Field THEN UNCHANGED <<temp, raw>>
     ELSE /\ temp' = [temp EXCEPT ![u] = Head(parts[u])]
          /\ raw' = [raw EXCEPT ![u] = @ \cup {Head(parts[u])}]
  /\ UNCHANGED <<pc, ctx, final, redis, announced, answer, faults>>

\* The body breaks off, exceeds 20 GB or is no multipart, or a file cannot be
\* created, written or closed.
BadPart(u) ==
  /\ At(u, "parts")
  /\ Reject(u, {413, 500})
  /\ UNCHANGED redis

\* The end of the body: go on with the last file, if there was one.
EndOfParts(u) ==
  /\ At(u, "parts")
  /\ parts[u] = <<>>
  /\ IF temp[u] = NoFile THEN Reject(u, {400}) /\ UNCHANGED redis
     ELSE Goto(u, "detect")
          /\ UNCHANGED <<parts, temp, ctx, disk, redis, announced, answer, faults>>

\* A step of EvaluatePipeline that keeps nothing and may end in an error, which
\* MultiPartUploader turns into one of codes.
Inspect(u, label, passes, next, codes) ==
  /\ At(u, label)
  /\ \/ /\ passes
        /\ Goto(u, next)
        /\ UNCHANGED <<parts, temp, ctx, disk, redis, announced, answer, faults>>
     \/ /\ ~passes \/ DiskMayFail
        /\ Reject(u, codes)
        /\ UNCHANGED redis

\* DetectArtifact on the received file; it may also fail to open or read it.
Detect(u) ==
  LET unknown == DetectArtifact(temp[u]) = "unknown" IN
  Inspect(u, "detect", ~unknown, "mount",
          (IF unknown THEN {DetectionAnswer(temp[u])} ELSE {}) \cup
          (IF DiskMayFail THEN {422} ELSE {}))

\* MountArtifact: rename out of raw, then remove raw and whatever it holds.
Mount(u) ==
  /\ At(u, "mount")
  /\ \/ /\ final' = [final EXCEPT ![u] = temp[u]]
        /\ raw' \in {[raw EXCEPT ![u] = {}]} \cup
             IF DiskMayFail THEN {[raw EXCEPT ![u] = @ \ {temp[u]}]} ELSE {}
        /\ Goto(u, "validate")
        /\ UNCHANGED <<parts, temp, ctx, redis, announced, answer, faults>>
     \/ DiskMayFail /\ Reject(u, {422}) /\ UNCHANGED redis

\* Mutant: exec.Command instead of CommandContext: nothing ends a hanging vol.py.
Validate_NoContext(u) ==
  /\ At(u, "validate")
  /\ DetectArtifact(final[u]) = "memory" => ctx[u]
  /\ Inspect(u, "validate", FileValidation(final[u]), "hash", {422})

\* FileValidation.  vol.py banners runs under the request's context.
Validate(u) ==
  Inspect(u, "validate",
          FileValidation(final[u]) /\ (DetectArtifact(final[u]) = "memory" => ctx[u]),
          "hash", {422})

\* CalculateSHA of the mounted file.
Hash(u) == Inspect(u, "hash", TRUE, "checksum", {422})

\* A SET under the request's context: not sent when that is dead, otherwise
\* applied, or failed with or without having been applied.
SetKey(u, label, key, value, next) ==
  LET applied == [key EXCEPT ![u] = value] IN
  /\ At(u, label)
  /\ \/ /\ ctx[u]
        /\ key' = applied
        /\ Goto(u, next)
        /\ UNCHANGED <<parts, temp, ctx, disk, announced, answer, faults>>
     \/ /\ ~ctx[u] \/ RedisMayFail
        /\ key' \in {key} \cup IF RedisMayFail THEN {applied} ELSE {}
        /\ Reject(u, {422})

\* Mutant: the two SETs are swapped, the state first.
SetChecksum_StateFirst(u) ==
  SetKey(u, "checksum", ready, TRUE, "state") /\ UNCHANGED checksum

SetChecksum(u) ==
  SetKey(u, "checksum", checksum, final[u], "state") /\ UNCHANGED ready

SetReady(u) ==
  SetKey(u, "state", ready, TRUE, "describe") /\ UNCHANGED checksum

\* ResultTopic: Stat of the mounted file for the message.
Describe(u) == Inspect(u, "describe", TRUE, "publish", {422})

\* Mutant: an error of the broker rejects the upload, as MultiPartUploader's
\* branch for "broker failure" intends.
Publish_ErrorRejects(u) ==
  /\ At(u, "publish")
  /\ \/ /\ announced' = announced \cup {u}
        /\ Answer(u, 202)
        /\ UNCHANGED <<parts, temp, ctx, disk, redis, faults>>
     \/ /\ BrokerMayFail
        /\ announced' \in {announced, announced \cup {u}}
        /\ Answer(u, 500)
        /\ raw' = [raw EXCEPT ![u] = {}]
        /\ final' = [final EXCEPT ![u] = NoFile]
        /\ UNCHANGED <<parts, temp, ctx, redis, faults>>

\* WriteMessages, whose error (three failed attempts, or a dead context) is
\* printed only: 202 either way.
Publish(u) ==
  /\ At(u, "publish")
  /\ announced' \in {announced \cup {u}} \cup
       IF BrokerMayFail \/ ~ctx[u] THEN {announced} ELSE {}
  /\ Answer(u, 202)
  /\ UNCHANGED <<parts, temp, ctx, disk, redis, faults>>

\* The client closes its connection.
Leave(u) ==
  /\ "leave" \in faults
  /\ InProgress(u)
  /\ ctx[u]
  /\ ctx' = [ctx EXCEPT ![u] = FALSE]
  /\ UNCHANGED <<local, disk, redis, announced, answer, faults>>

\* The process dies and is started again; requests under way are lost.
Crash ==
  /\ "crash" \in faults
  /\ \E u \in Upload : InProgress(u)
  /\ pc' = [u \in Upload |-> IF InProgress(u) THEN "dead" ELSE pc[u]]
  /\ UNCHANGED <<parts, temp, ctx, disk, redis, announced, answer, faults>>

Handler(u) ==
  \/ ReadPart(u) \/ BadPart(u) \/ EndOfParts(u)
  \/ Detect(u) \/ Mount(u) \/ Validate(u) \/ Hash(u)
  \/ SetChecksum(u) \/ SetReady(u) \/ Describe(u) \/ Publish(u)

\* The system stops when every upload is settled.
Finished ==
  /\ \A u \in Upload : pc[u] \in {"answered", "dead"}
  /\ UNCHANGED vars

Next ==
  \/ \E u \in Upload : Arrive(u) \/ Handler(u) \/ Leave(u)
  \/ Crash
  \/ Finished

\* While its client stays, a request may wait for more of the body for ever,
\* and vol.py has no time limit; every other step comes to an end by itself.
MustMove(u) ==
  ~ctx[u] \/ ~(At(u, "parts") \/ (At(u, "validate") /\ DetectArtifact(final[u]) = "memory"))

Fairness == \A u \in Upload : WF_vars(MustMove(u) /\ Handler(u))

SafeSpec == Init /\ [][Next]_vars
Spec == SafeSpec /\ Fairness

-----------------------------------------------------------------------------
\* What a consumer of evidence-ready relies on: the file of an announced case
\* is in its place and valid, its checksum is that file's, its state is ready,
\* and no failure, hang-up or crash takes that away again (worker.go:96-206).
AnnouncedIsComplete ==
  \A u \in announced :
    /\ final[u] # NoFile /\ Accepted(final[u])
    /\ checksum[u] = final[u]
    /\ ready[u]

\* While the disk works, an upload answered with an error leaves no evidence
\* behind, wherever it failed (worker.go:51-107).
RejectedLeavesNothing ==
  \A u \in Upload :
    ~DiskMayFail /\ answer[u] \notin {0, 202} => raw[u] = {} /\ final[u] = NoFile

\* A case is never ready without its checksum, not even one whose upload was
\* cut short between the two commands (worker.go:173-192).
ReadyHasChecksum == \A u \in Upload : ready[u] => checksum[u] # NoFile

\* A client that hangs up takes its handler along: nothing of it waits for the
\* client or for vol.py any more (worker.go:96, 300).
AbandonedIsSettled ==
  \A u \in Upload : ~ctx[u] ~> pc[u] \in {"answered", "dead"}
=============================================================================
