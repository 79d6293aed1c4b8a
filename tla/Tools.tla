------------------------------- MODULE Tools -------------------------------
(***************************************************************************)
(* What the orchestrator's eight tools conclude (orchestrator/func.go and  *)
(* the closures of main.go:74-165).  Seven run a plugin of the vendored    *)
(* Volatility with -r json and read its rows into structs; one reads the   *)
(* syslog of the case.  encoding/json fills a field from the column whose  *)
(* name equals the field's tag but for case, and leaves it zero if there   *)
(* is none: rows are functions from lower-case column names here, without  *)
(* the columns that no tag could match, and structs functions from tags.   *)
(*                                                                         *)
(* A dump holds processes (pid, ppid, comm), regions (the pid each is of), *)
(* commands and modules, as sequences.  A command is the word it contains  *)
(* of those the code looks for, or "harmless".                             *)
(***************************************************************************)
EXTENDS Integers, Sequences

\* Tags and zero values of the structs (models.go).
Process == [id |-> 0, parent_id |-> 0, name |-> ""]
BashHistory == [pid |-> 0, command |-> "", time |-> ""]
KernelModule == [module |-> ""]

Unmarshal(zero, row) ==
  [tag \in DOMAIN zero |-> IF tag \in DOMAIN row THEN row[tag] ELSE zero[tag]]
UnmarshalAll(zero, rows) == [i \in DOMAIN rows |-> Unmarshal(zero, rows[i])]

\* The rows of the plugins that exist.
PsList(d) ==
  [i \in DOMAIN d.processes |->
     [pid |-> d.processes[i].pid, ppid |-> d.processes[i].ppid, comm |-> d.processes[i].comm]]
Malfind(d, pid) == {i \in DOMAIN d.regions : d.regions[i] = pid}
Bash(d) ==
  [i \in DOMAIN d.commands |-> [pid |-> 1, process |-> "bash", command |-> d.commands[i]]]
Lsmod(d) == [i \in DOMAIN d.modules |-> [column \in {"module name"} |-> d.modules[i]]]

\* Volatility takes a plugin by a part of its name and has none for
\* linux.netstat and linux.cmdline.
Installed(plugin) == plugin \notin {"linux.netstat", "linux.cmdline"}

\* What a tool answers that runs plugin and looks at its rows.
Answer(plugin, found) ==
  CASE ~Installed(plugin) -> "error" [] Installed(plugin) /\ found -> "found" [] OTHER -> "clean"

-----------------------------------------------------------------------------
\* Mutant: the walk up does not stop at 0.
GetProcessTree_FromZero(d, pid) ==
  Answer("linux.pslist",
         /\ pid # 1
         /\ \E i \in DOMAIN d.processes : UnmarshalAll(Process, PsList(d))[i].id = pid)

\* The walk up the tree returns at its first step either way.
GetProcessTree(d, pid) ==
  Answer("linux.pslist",
         /\ pid \notin {0, 1}
         /\ \E i \in DOMAIN d.processes : UnmarshalAll(Process, PsList(d))[i].id = pid)

CheckMemoryInjection(d, pid) == Answer("linux.malfind", Malfind(d, pid) # {})

GetNetworkConnections == Answer("linux.netstat", FALSE)

DangerousFilter == {"wget", "curl", "chmod +x", "reboot", "shutdown", "rm -rf /var/log"}

AnalyzeBashHistory(d) ==
  LET history == UnmarshalAll(BashHistory, Bash(d)) IN
  Answer("linux.bash", \E i \in DOMAIN history : history[i].command \in DangerousFilter)

CheckKernelModules(d) ==
  LET modules == UnmarshalAll(KernelModule, Lsmod(d))
      whitelist == {"ext4", "intel_rapl", "vboxguest", "scsi_mod"}
  IN Answer("linux.lsmod", \E i \in DOMAIN modules : modules[i].module \notin whitelist)

\* Names that contain "sshd".
SshdNames == {"sshd", "sshd-session"}

CronPID(procs) ==
  LET crons == {i \in DOMAIN procs : procs[i].name \in {"cron", "crond"}} IN
  IF crons = {} THEN 0 ELSE procs[CHOOSE i \in crons : \A j \in crons : j <= i].id

WhitelistServices == {"systemd-journald", "systemd-udevd", "sshd", "crond", "cron",
                      "rsyslogd", "dbus-daemon", "networkd"}

\* A service, a child of cron, a session.
Alarming(p, cronPID) ==
  \/ p.parent_id = 1 /\ p.name \notin WhitelistServices
  \/ p.parent_id = cronPID /\ p.name \in {"bash", "sh", "wget", "curl"}
  \/ p.name \in SshdNames /\ p.parent_id # 1

CheckPersistence(d) ==
  LET procs == UnmarshalAll(Process, PsList(d)) IN
  Answer("linux.pslist", \E i \in DOMAIN procs : Alarming(procs[i], CronPID(procs)))

\* No row of linux.cmdline is ever decoded.
DecodeCommands == Answer("linux.cmdline", FALSE)

-----------------------------------------------------------------------------
(* The syslog of a case: whether it is there, and its lines.  Of a line: is  *)
(* one of the six alert words among its first three fields (head), is one in *)
(* what follows (rest), has it a fourth field (full), and is it longer than  *)
(* the 64 KiB of a bufio.Scanner (long).                                     *)

Alerts(line) == line.head \/ line.rest

\* What AnalyzeLogTimeline makes the message of a line: the first three fields
\* become the timestamp, if there is a fourth.
MessageAlerts(line) == IF line.full THEN line.rest ELSE Alerts(line)

AnalyzeLogTimelineFails(syslog) ==
  ~syslog.there \/ \E i \in DOMAIN syslog.lines : syslog.lines[i].long

\* Where the lines stand that AnalyzeLogTimeline hands back.
AlertLines(syslog) == {i \in DOMAIN syslog.lines : Alerts(syslog.lines[i])}

\* Mutant: the closure counts the lines that came back.
LogTimeline_AnyLine(syslog) ==
  CASE AnalyzeLogTimelineFails(syslog) -> "error"
    [] ~AnalyzeLogTimelineFails(syslog) /\ AlertLines(syslog) # {} -> "found"
    [] OTHER -> "clean"

\* AnalyzeLogTimeline and its closure, which looks at the messages again.
LogTimeline(syslog) ==
  CASE AnalyzeLogTimelineFails(syslog) -> "error"
    [] /\ ~AnalyzeLogTimelineFails(syslog)
       /\ \E i \in AlertLines(syslog) : MessageAlerts(syslog.lines[i]) -> "found"
    [] OTHER -> "clean"

-----------------------------------------------------------------------------
\* No process of a dump is ever recognised: the tags of Process are none of
\* pslist's columns.  Of modules only their number counts, as no name is read;
\* commands and regions are seen for what they are, sockets and command lines
\* never (models.go:62-66, 87-89, func.go:36-295).
ToolsSee(d, pid) ==
  /\ GetProcessTree(d, pid) = "clean"
  /\ CheckPersistence(d) = "clean"
  /\ CheckKernelModules(d) = IF d.modules = <<>> THEN "clean" ELSE "found"
  /\ AnalyzeBashHistory(d) =
       IF \E i \in DOMAIN d.commands : d.commands[i] # "harmless" THEN "found" ELSE "clean"
  /\ CheckMemoryInjection(d, pid) =
       IF \E i \in DOMAIN d.regions : d.regions[i] = pid THEN "found" ELSE "clean"
  /\ GetNetworkConnections = "error" /\ DecodeCommands = "error"

\* The log tool finds exactly an alert behind the timestamp of some line, or
\* anywhere in a line too short to have one; a single overlong line hides all
\* others (func.go:219-270, main.go:126-146).
LogAlertCounts(syslog) ==
  LET n == Len(syslog.lines) IN
  /\ LogTimeline(syslog) = "error" <=> ~syslog.there \/ \E i \in 1..n : syslog.lines[i].long
  /\ LogTimeline(syslog) = "found" <=>
       /\ syslog.there /\ \A i \in 1..n : ~syslog.lines[i].long
       /\ \E i \in 1..n : syslog.lines[i].rest \/ (syslog.lines[i].head /\ ~syslog.lines[i].full)
=============================================================================
