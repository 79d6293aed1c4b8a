----------------------------- MODULE Artifacts -----------------------------
(***************************************************************************)
(* What the evidence loader makes of an uploaded file: DetectArtifact and  *)
(* FileValidation of evidence-loader/internal/worker/worker.go.  A file is *)
(* what these two look at: the kind of its name, and facts about content.  *)
(***************************************************************************)

\* The kind of a name, compared in lower case; "log" is any other *.log.
Kind == {"raw", "lime", "bin", "auth.log", "syslog", "kern.log", "audit.log",
         "log", "json", "journald", "other"}

\* The files whose name has its kind in kinds and its case in cases.
Named(kinds, cases) == [
  kind : kinds,
  lower : cases,        \* the name, of *.json the extension, is in lower case
  magic : {"LiME", "EMiL", "other"},  \* the first four bytes as on disk
  large : BOOLEAN,      \* more than 64 MB
  dense : BOOLEAN,      \* entropy of at least 6.5 bits
  banner : BOOLEAN,     \* vol.py banners finds "Linux version"
  tenLines : BOOLEAN,   \* at least ten lines before the scanner gives up
  auth : BOOLEAN,       \* one of those has sshd or sudo
  audit : BOOLEAN,      \* one of those has type=SYSCALL or type=USER_LOGIN
  realtime : BOOLEAN,   \* __REALTIME_TIMESTAMP occurs
  json : BOOLEAN]       \* the whole file is one JSON value

Artifact == Named(Kind, BOOLEAN)

\* Mutant: the extension of a memory dump is enough.
DetectArtifact_ByName(f) ==
  IF f.kind \in {"raw", "lime", "bin"} THEN "memory"
  ELSE IF f.kind # "other" THEN "logs" ELSE "unknown"

DetectArtifact(f) ==
  CASE f.kind = "raw" -> "memory"
    [] f.kind = "lime" -> IF f.magic = "LiME" THEN "memory" ELSE "unknown"
    [] f.kind = "bin" -> IF f.large /\ f.dense THEN "memory" ELSE "unknown"
    [] f.kind \in {"syslog", "kern.log"} -> "logs"
    [] f.kind \in {"auth.log", "audit.log", "log"} ->
         IF f.auth \/ f.audit THEN "logs" ELSE "unknown"
    [] f.kind \in {"json", "journald"} -> IF f.realtime THEN "logs" ELSE "unknown"
    [] f.kind = "other" -> "unknown"

\* Mutant: the name is compared in lower case here as well.
FileValidation_AnyCase(f) ==
  IF DetectArtifact(f) = "memory" THEN f.banner
  ELSE \/ f.kind \in {"auth.log", "syslog", "kern.log"} /\ f.tenLines
       \/ f.kind = "audit.log" /\ f.audit
       \/ f.kind \in {"json", "journald"} /\ f.json /\ f.realtime

\* FileValidation of a detected file under the name it keeps.  For a name it
\* does not list the answer is FALSE without an error.
FileValidation(f) ==
  IF DetectArtifact(f) = "memory" THEN f.banner
  ELSE /\ f.lower
       /\ \/ f.kind \in {"auth.log", "syslog", "kern.log"} /\ f.tenLines
          \/ f.kind = "audit.log" /\ f.audit
          \/ f.kind \in {"json", "journald"} /\ f.json /\ f.realtime

Accepted(f) == DetectArtifact(f) # "unknown" /\ FileValidation(f)

\* DetectArtifact's own errors about .lime and .bin files do not say "unknown
\* artifact", which is what MultiPartUploader answers 400 for.
DetectionAnswer(f) == IF f.kind \in {"lime", "bin"} THEN 422 ELSE 400

-----------------------------------------------------------------------------
\* The two passes disagree on exactly these names: a file is recognised as a
\* log, yet no content can make it pass, if its name has an upper-case letter
\* or is a *.log that FileValidation does not list (worker.go:209-273, 310-361).
DeadEnd(f) ==
  DetectArtifact(f) = "logs" =>
    ((\A g \in Named({f.kind}, {f.lower}) : ~FileValidation(g))
       <=> ~f.lower \/ f.kind = "log")

\* No file is taken as evidence on its name alone: each accepted file has
\* content that only its type has, except the two logs with free text.
AcceptedOnContent(f) ==
  Accepted(f) =>
    \/ f.kind \in {"raw", "lime", "bin"} /\ f.banner
    \/ f.kind \in {"auth.log", "audit.log"} /\ (f.auth \/ f.audit)
    \/ f.kind \in {"json", "journald"} /\ f.realtime
    \/ f.kind \in {"syslog", "kern.log"} /\ f.tenLines
=============================================================================
