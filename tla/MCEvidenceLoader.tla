-------------------------- MODULE MCEvidenceLoader --------------------------
(* Files for model-checking EvidenceLoader. *)
EXTENDS EvidenceLoader

Blank == [kind |-> "other", lower |-> TRUE, magic |-> "other", large |-> FALSE,
          dense |-> FALSE, banner |-> FALSE, tenLines |-> FALSE, auth |-> FALSE,
          audit |-> FALSE, realtime |-> FALSE, json |-> FALSE]

LinuxDump == [Blank EXCEPT !.kind = "raw", !.banner = TRUE]
Syslog == [Blank EXCEPT !.kind = "syslog", !.tenLines = TRUE]
UnlistedLog == [Blank EXCEPT !.kind = "log", !.auth = TRUE, !.tenLines = TRUE]

\* Accepted, rejected by validation and rejected by detection.
MCFile == {LinuxDump, UnlistedLog, Blank}

\* Accepted as memory and as a log.
TwoFiles == {LinuxDump, Syslog}
=============================================================================
