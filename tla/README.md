# A TLA+ model of ai-analyst

ai-analyst is a pipeline of four Go services for the analysis of Linux
evidence.  They share nothing but a Kafka-compatible broker (Redpanda), a Redis
and a directory `/evidence`.  Two of them run the copy of Volatility 3 that is
vendored in `volatility3/`, each plugin as a process of its own.  This directory
holds TLA+ modules for the services and for the parts of Volatility that have
control or state of their own, TLC configurations that check them on small
instances, and proofs that TLAPS checks for every value of the constants.

Paths below are relative to the repository; "worker.go" is that of the service
a section is about.

## 1. Inventory

| part | state it keeps | operations | hard behaviour |
|---|---|---|---|
| **evidence-loader** (`evidence-loader/`) | files under `/evidence/<case>`, Redis `artifact:<case>:checksum` (48 h), `pipeline:<case>:state` (24 h) | `POST /upload` = `MultiPartUploader` and `EvaluatePipeline`: receive parts, detect, mount, validate, hash, two SETs, describe, announce on `evidence-ready` | one goroutine per request; the request's context dies with the client; every step may fail and must clean up; a broker failure is ambiguous; a crash leaves files |
| **artifact detection** (same worker.go) | none | `DetectArtifact`, `FileValidation`, `CalcucateEntropy` | two passes over name and content that have to agree |
| **vol3-service** (`vol3-service/`) | Redis `vol3:<case>:<plugin>` and `...:error` (2 h), `pipeline:<case>:vol3_done` (24 h) | read `evidence-ready`, run 8 Volatility plugins as subprocesses on a pool of 6 goroutines, cache the output | channel and WaitGroup; check-then-run on the cache; unlooked-at Redis errors; at-most-once delivery |
| **orchestrator** (`orchestrator/`) | Redis `lock:<case>` (30 s), `pipeline:<case>:be1_orch_start` | read `ml1-scored`, take the lock, derive hypotheses, run up to 8 tools in an errgroup of 5, score, self-correct, publish on `agent-findings` | replicas; a lock that expires under its holder; goroutines writing captured flags; deadline and cancellation; first error cancels the rest |
| **decision engine** (`decision_engine/`) | files `output/<case>/ir_report.md`, `hypothesis_trace.json`; Redis `pipeline:<case>:state` (24 h) | read `ml2-verified-findings`, look up `case:<case>:status`, dead-letter or decide, write report and trace, save the state | two files and a key written one after the other; torn files; older and newer messages of one case |
| **kafka-go reader** (library) | position, committed offset | `ReadMessage` with a GroupID: fetch, commit, return | a failed commit loses the message for this reader; a rebalance goes back to the commit |
| ML1, ML2, writer of `case:<id>:status` | | outside the repository: ML1 and ML2 appear as the messages they may produce, the status key as a set that changes at any time | |
| **orchestrator tools** (`orchestrator/func.go`) | none | decode a plugin's JSON into a struct and look for what is suspicious; scan the syslog | columns and tags that do not match are zero without an error; one overlong line ends the scan |
| Ollama/Gemma | | external: a call ends or is cut off, with any outcome | |
| **Volatility: layers** (`volatility3/framework/layers`, `interfaces/layers.py`) | none but caches | scan, map, translate, read, write, pad | chunks that overlap, runs with holes, large pages, faults of different reach |
| **Volatility: Linux structures** (`framework/symbols/linux`) | none | follow lists, hashes, trees, paths; look symbols and modules up | a dump is smeared: links lead astray or in circles |
| **Volatility: symbol and resource cache** (`layers/resources.py`, `symbols/windows/pdbutil.py`, `automagic/symbol_cache.py`) | files in a cache directory and an SQLite table that all processes share | download, convert, index, drop | eight processes at once, none locks, each may be killed between any two steps |
| **Volatility: context** (`automagic/stacker.py`, `interfaces/layers.py`, `symbols/__init__.py`) | layers by name; symbol tables and what was resolved in them | stack, add, delete; append, remove, clear, resolve | dependencies; types resolved against tables that are replaced later |
| **Volatility: results** (`renderers/__init__.py`, `cli/text_renderer.py`) | a tree of rows | insert, populate, visit, print as JSON | paths renumbered by an insertion; rows under a parent the filter took |

How they interact:

```
client --HTTP--> evidence-loader --evidence-ready--> vol3-service --Redis vol3:*
                       |  /evidence                       |  /evidence
                       +--Redis checksum, state           +--Redis vol3_done
ML1 (outside) --ml1-scored--> orchestrator --agent-findings--> ML2 (outside)
                                 |  Redis lock:<case>
ML2 (outside) --ml2-verified-findings--> decision engine --dead-letter-topic
                                                |--output/<case>  --Redis state
```

README.md:33 has the decision engine listen to `agent-findings`; its
configuration says `ml2-verified-findings` (`decision_engine/internal/config/config.go`),
and nothing in the repository reads `agent-findings`.

Inside of one `vol.py`: the stacker builds layers on the dump (`LayerStack`; what
they do is in `Segments`, `IntelPaging`), fetches and loads the symbol table
(`SymbolFetch`, `SymbolSpace`), the plugin scans and walks (`LayerScan`,
`KernelLists`, `KernelTrees`, `Kallsyms`, `KernelModules`) and yields rows (`TreeGrid`), which vol3-service
caches and the orchestrator's tools decode (`Tools`).

What makes each part correct:

* *evidence-loader*: what is announced is in place, valid and checksummed, and
  stays so; what is rejected leaves nothing; a client that leaves does not
  leave a handler behind.
* *detection*: nothing is accepted on its name; no recognised name is a dead end.
* *vol3-service*: the pool loses, doubles and outlives nothing; `vol3_done`
  comes last; a cached result is not computed again; the topic is worked through.
* *orchestrator*: one replica per case (as far as the lock lives); scores are
  read when the tools have returned, and only theirs; the handler comes back;
  the cases on the topic are handled.
* *tools*: each finds what its dump or syslog shows.
* *layers*: a pattern is found once, wherever a chunk ends; an address gives the
  byte the file, or the processor, has for it.
* *structures*: a walk ends, stays inside its structure and leaves nothing out
  that one smeared link does not cut off.
* *cache*: what is found under its final name is whole, or is found out.
* *context*: a layer's dependencies are there; an answer about a type is that of
  the tables there are now.
* *results*: rows come out in the order they went in, under their parents.
* *decision engine*: a message is decided or dead-lettered, not both; the newest
  decision stands; HIGH comes with its report.

`PROJECT.json` lists the hazards at their lines, with the property that would
catch each, or why none does.

## 2. Modules

| module | models | uses |
|---|---|---|
| `TaskBatch` | the promise of a pool: each task is accepted, started, finished once; joined after the last | |
| `ThreadPool` | the executor of vol3-service, worker.go:16-50 | refines `TaskBatch` |
| `GroupReader` | `ReadMessage` of kafka-go on one partition | |
| `Vol3Service` | cmd/main.go and `ProcessVolExec` | `GroupReader`, `ThreadPool` |
| `Hypotheses` | func.go:16-34, the tools' conditions and weights, the gap | |
| `Orchestrator` | main.go:29-351 with replicas | `Hypotheses` |
| `RiskBands` | cmd/main.go:72-104 of the decision engine | |
| `DecisionEngine` | cmd/main.go:42-107, worker.go | `RiskBands`, `GroupReader` |
| `Artifacts` | `DetectArtifact`, `FileValidation` | |
| `EvidenceLoader` | `MultiPartUploader`, `EvaluatePipeline` | `Artifacts` |
| `Tools` | func.go:36-295 and the closures of main.go:74-165 | |
| `LayerScan` | a search: sections, chunks and scanners of `interfaces/layers.py` | |
| `Segments` | a dump: loading LiME or AVML ranges and reading through them (`lime.py`, `avml.py`, `segmented.py`, `linear.py`, `physical.py`) | |
| `IntelPaging` | `intel.py`, with the Linux and Windows entries | |
| `KernelLists` | lists, pid hash, paths, mounts, process tree | |
| `KernelTrees` | IDR, radix tree, XArray, page cache, maple and red-black tree, scatter list | |
| `Kallsyms` | `kallsyms.py`: the kernel's symbol table, by address, by name and in order | |
| `KernelModules` | `utilities/modules.py`: gathered modules, the one an address is in, hidden ones | |
| `SymbolFetch` | processes that download, convert and index a PDB in one cache directory | |
| `LayerStack` | `LayerStacker`, `LayerContainer` | |
| `SymbolSpace` | `SymbolSpace` and its caches | |
| `TreeGrid` | `TreeGrid`, `JsonRenderer` | |
| `MCInput` | the variable of a run of pure operators: one input to a state | |
| `MCRules`, `MCKernel`, `MCSymbols`; `MCAlgorithms` | TLC's inputs for the rules of the services, for the kernel's structures and for its symbols and modules; all in one run | `Hypotheses`, `RiskBands`, `Artifacts`, `Tools`; `KernelLists`, `KernelTrees`; `Kallsyms`, `KernelModules` |
| `MCMemory` | TLC's searches, dumps and page tables, one of them to a behaviour | `LayerScan`, `Segments`, `IntelPaging` |
| `MCFramework` | stacker, symbol space and grid, one of them to a behaviour | `LayerStack`, `SymbolSpace`, `TreeGrid` |
| `MCOrchestrator`, `MCDecisionEngine`, `MCEvidenceLoader` | the messages and files TLC uses | the module they are named after |
| `*_proof` | theorems (`Rules_proof`: the inputs of `MCRules`; `Framework_proof`: stacker, symbol space, grid and cache) | the modules they are about |

`PROJECT.json` maps every definition to its lines.  Definitions named
`Action_Something` are mutants: the action with a plausible bug.  No
specification uses them; they are there to show that a property can fail.

### How state and actions correspond to the code

Every stateful service has a constant `Scenario`, the combinations of faults a
run considers, and a variable `faults`, the one combination of a behaviour,
chosen in `Init` and never changed.  A fault that is in `faults` may happen at
any time and any number of times (crashes: up to a bound); one that is not
never happens.  A property that needs, say, a working disk is stated for the
behaviours without `"disk"`, so that one run checks it next to the properties
that hold under everything.

**ThreadPool.** `taskQueue` is the channel, `wg` the goroutines that have not
called `Done`, `running[w]` the closure a goroutine is in.  `Submit` has the
channel's capacity as its guard, so it blocks as the send does.  `Shutdown` is
two actions, `CloseQueue` and `Wait`, as goroutines run in between.  `Exit` is
the end of `range` on a closed, drained channel.  Tasks are numbers, submitted
in order.

**GroupReader.** `topic` holds also the messages still to come: a reader cannot
tell whether a message it has not fetched exists.  `ReadMessage` moves
`position` and `committed` together, because the library returns a message only
after its commit.  `CommitFails` moves `position` alone, or both when only the
answer was lost; callers `continue`.  `Resume` (a restart, a rebalance) goes
back to `committed`.  `delivered` is a history variable.

**Vol3Service.** `pc` is the main goroutine; the pool's variables are those of
the current executor, made anew by `Receive`.  A closure is two steps, the
EXISTS (`CacheHit` or `Execute`) and the end of the subprocess (`Succeed` or
`Fail`), since other goroutines run in between.  Every SET may fail without a
trace, or be applied and reported as failed.  `Expire` models the 2 h keys; a
key the current batch has written is not yet due, as a batch takes minutes
(8 plugins of at most 120 s).

**Orchestrator.** One `inbox` per replica is its partition.  `lock[c]` and
`ctxLeft[r]` count seconds down, `held[r]` counts how long ago the replica took
the lock.  `spawned[r]` is the place in `ToolOrder` of the last tool handed over.
`Spawn` is `g.Go`, which blocks at the limit; a command that starts
under a dead context is `doomed`.  `ToolReturns` may find something, find
nothing or fail, and a failure cancels the context.  `WaitTools` is `g.Wait`,
which cancels it in any case.  `SelfCorrect` and `Publish` then run under that
context.  `Prompt` restricts a run to behaviours in which only tools take time:
it is used where a violation would otherwise be put down to a slow process.

**DecisionEngine.** A message is known by its offset, and files and states
carry the offset they come from.  `Torn` is a file that WriteFile truncated and
did not complete.  `known` is the set of cases with a status key.

**EvidenceLoader.** A case is identified with its upload, as its id is a fresh
UUID.  `raw` and `final` are files on disk, `temp` the path the handler would
mount (the last file part).  Each step of `EvaluatePipeline` either goes on or
rejects with `RemoveAll`, whose own failure nobody looks at.  `ctx[u]` is the
request's context: a Redis command under a dead context is not sent, and
`vol.py banners` is killed.

**Tools.** A row is a function from lower-case column names, a struct one from
JSON tags, and `Unmarshal` fills a field from the column of its name or leaves it
zero, as encoding/json does.

**SymbolFetch.** A file is a name and an inode, as a process that has it open goes
on with it after another removed the name.  The PDB is the set of blocks written
since it was truncated, so a hole can be told from a short file; the table is
partial or whole.  `pc[r]` is the next step of a run: each system call that another
run can see is an action.  `Kill` is the 120 s of vol3-service, at any step.

**LayerStack.** A layer is the names it depends on and the stacker that made it.
What a stacker finds is any choice; a stacker that succeeds leaves `stackSet` and
the round starts again on the new layer.  `AddLayer` and `DelLayer` are the
container's two operations with their checks, which plugins go on to call.

**SymbolSpace.** Tables carry a serial number, for the identity of the object, and
`resolved` keeps the serial each name was resolved in.  `GetType` is the whole of a
resolution: everything that can be reached is resolved in one call.  A table has one
symbol; `bare` says that its type is a reference itself, and not a pointer or an array
to one, so that `GetSymbol` records it and resolves nothing.

**TreeGrid.** A row is the number of its insertion.  The state is what the objects
hold: the list of children of each node, `_parent` and `_path` of each row,
`prev_nodes`, and the `acc_map` of the JSON renderer's visitor.  `Row` is one turn
of the loop in `populate`, the visitor's call included; `Populated` the end of the
rows; `Insert` an insertion anywhere, which renumbers the paths behind it.  `_append`
and the visitor are modelled as the code has them, by position and by path, and
`PathsResolve` says that the path of a node still leads to it.

**LayerScan.** A behaviour is one search, of `Search`, for one occurrence of the
pattern; `stage` is the loop that runs.  `Merge`, `ClipBelow` and `ClipAbove` are
one turn each of the three loops of `_coalesce_sections`, `LayerChunk` one of
`_scan_iterator` in a data layer; `NextBlock`, `Pack` and `Ship` are those of a
translation layer, with its variables under their names (`start` is `chunk_start`,
`from` the value the `range` gives it).  What `mapping()` yields for a section is any
list of `Mappings` that fits it.  `Yield` hands a chunk to the scanner, which reads it
piece by piece (`ReadPiece`) and reports (`Scan`) before the iterator goes on; as
chunks share nothing, a pool of scanners adds nothing but another order.  Data are
the addresses of the bytes, so that a scanner that is told the wrong place reports one.

**Segments.** A behaviour loads one file of `Dumps` and reads it once, as one of
`Requests` asks.  `LoadLime` is one turn of the loop in `LimeLayer._load_segments`,
`OpenRange` and `RangeEnds` the two halves of a turn in that of the AVML layer, around
the turns of `_read_snappy_frames` (`ReadFrame`); a load ends in `LimeEnds` or
`AvmlEnds`, in an exception (`LimeFormatException`, `error`), or never: in a state that
`Spins`, the loop of the code goes round without a change, and no action is enabled.
`ReadSegment` takes one piece of `mapping()` and reads it, `ReadHole` answers where
nothing is mapped.  A file is its ranges, each with what a header says and the
frames behind it, and is cut off anywhere (`last`).  A byte is its offset in the file, a
decoded one its frame and its index in it, so that a byte of the wrong place is seen.
Nothing is written: the file of a dump is opened for reading.

**Pure modules.** `IntelPaging`, `KernelLists`,
`KernelTrees`, `Tools`, `Hypotheses`, `RiskBands` and `Artifacts` are
operators: what a function returns for an input.  The MC modules enumerate the
inputs, one to a state, and state what the result must be in another form: the
bytes a reader would see that looks at every address by itself, the entries a
kernel would find, the nodes that can be reached.  Addresses go up to twice the range
of an Intel layer; the head of an XArray or a radix tree is
null, a page, a value, a node or unreadable, in each of six kernels: with `shift`,
`path` or `height` in the node, with a root or without, and with a maximum height that
a node may exceed.

### Abstractions, bounds and numbers

* Scores and confidences are thousandths (ten-thousandths after the factor
  0.8).  Where float64 rounding decides a comparison the model says so:
  0.8 * 0.875 exceeds 0.7, so `Gate` uses >=; 0.60 - 0.15 is below 0.45, so
  `Penalised(600)` is 449; at a gap of exactly 0.1 rounding goes either way
  with the operands, so `Borderline` lets `SelfCorrect` do both.  The theorem
  about uncertainty excludes that boundary.
* A feature or SHAP value is above its threshold or not; a file is a record of
  the facts the two passes look at.
* Redis keys are present or absent; of values only the checksum, the state and
  the decision are kept.  Redis itself does not crash.
* The loader's 48 h and 24 h keys do not expire in its model (an upload takes
  far less); vol3-service's `vol3_done` and the status key be1_orch_start are
  read by nobody.
* Memory is addresses, entries and links, never bytes of content: a pattern is the
  set of addresses it begins at, a byte of a dump is its offset in the file.
* Widths are small and named in the .cfg files: chunks of 4 bytes, pages of 2, 6-bit
  registers, tables of two entries, an index of 2 bits, length bytes of 2 bits, a marker
  for two symbols.  What a width decides (a shift, a mask, a sign
  extension) is computed from it.
* A server that does not serve the PDB under either of its names is one that is out
  of reach.  A run that finds its PDB partial is taken to fail in the reader.  SQLite
  itself does not fail.
* One partition per consumer.  That LeastBytes scatters the messages of a case
  over partitions is in the orchestrator's model: any inbox may hold any case.

## 3. Runs

| run | instance | states | shows |
|---|---|---|---|
| `thread_pool` | 3 goroutines, 5 tasks, channel of 2 | 728 | nothing lost, doubled or left; Shutdown returns; `TaskBatch` implemented |
| `vol3` | 2 goroutines, 2 plugins, 2 memory cases and a log, topic of 2, 1 crash | 159,749 | always: `DeliveredOnce`, `KeysAreTrue`, `DoneMeansSettled`; no failing Redis: `NoRedundantExecution`; no failed commit: `TopicDrained`; at most expiry: `EveryMemoryCaseAnalysed` |
| `orchestrator` | 2 replicas, 3 kinds of message, 2 messages over all partitions, lock and context of one tick, limit 1 | 204,293 | always: the lock within its TTL, complete evidence, the limit, publication by owners, the handler returns; no failing Redis: dropped cases are claimed; no fault: every case is handled |
| `decision` | 2 cases, 3 messages and a malformed one, topic of 3, 2 crashes | 442,840 | always: dead letters undecided, the newest decides; working disk: HIGH only with report and trace; no fault: every message is settled |
| `loader` | 2 uploads of up to 2 parts, 3 files and a form field | 545,690 | always: announced is complete, ready has its checksum, an abandoned upload ends; working disk: rejected leaves nothing |
| `algorithms` | 12 scores around the thresholds, all findings, all 1001 confidences, all files, dumps of two processes, syslogs of two lines; lists, hashes, mounts, trees of three to five nodes with links astray; up to four symbols of five names at three addresses, gatherers of two modules | 184,383 | the gap, the bands, acceptance on content, what the tools find; walks end, stay inside and miss nothing; symbols and modules are those of the address or the name |
| `memory` | searches of up to three sections, of one of 20 bytes, of two mapped blocks, one byte unreadable or none; two LiME or AVML ranges cut anywhere that matters, three levels of page tables in three systems | 1,325,362 | every match found once, none invented or moved, every byte read from its place, every address translated as the processor would |
| `cache` | 2 processes, 2 blocks, 1 kill | 181,796 | a PDB is whole unless cut short or downloaded twice at once; while runs do not overlap rows stand for whole tables and a half table is dropped by a later run |
| `framework` | 4 layers, 3 stackers; 2 tables of 2 types, 5 bodies, 4 appends; grids of 5 rows, 3 levels, any of them hidden, rows inserted anywhere | 68,248 | dependencies and the chain; resolved types are current; paths lead to their rows, rows keep their order, printed rows their parents |

Some properties are conjunctions of named parts, one for each thing they say:
`KeysAreTrue` is `NothingOutlivesItsBatch`, `ResultAndErrorNeedTwoBatches` and
`DoneMeansAnswered`; `ToolsAreJoined` is `ScoredOnCompleteEvidence` and
`WithinToolLimit`; `ClaimsAreKept` is `PublishedByOwner` and `DroppedIsClaimed`;
`StackIsSound` is `DependenciesPresent`, `StackedIsAChain` and `EachStackerOnce`;
`ResolutionIsSound` is `ResolvedIsCurrent`, `ClosedUnderChildren` and
`RawSymbolIsRetried`; `ScanFindsEachMatch` is `CoalescingKeepsSections`,
`ReportsAreTrue` and `ReportedOnceButForTheTail`; `SegmentsReadTheFile` is
`LoadsWhatIsSound`, `RecoveredIsRight`, `RaisedForAReason` and that a read which
returns is complete; those of the runs of pure operators are listed at the end of
their MC modules, each part with its comment.  Every part has its own mutant.

The scenarios of a run are everything at once, and combinations under which its
conditional properties are promised; the .cfg lists them.  In `orchestrator` the
only such combination is no fault at all, so `DroppedIsClaimed`, which is stated
for a Redis that answers, is not checked there with crashes and failed commits.

Why the bounds are enough: the channel is smaller than the tasks and the tasks
more than the goroutines, so it fills, Submit blocks and goroutines take
several.  A topic of two holds a case and its duplicate, or two cases; of three,
a message between two of one case.  Two replicas and one tick let a lock expire
while both are in the handler, and two messages on one partition let a replica
handle a second case after a first; the theorem about the lock holds for every
TTL.  A limit of one is reached by two tools.
Two processes with one kill overlap in every order, and a third inode lets a
removed file live on; two blocks give a hole, a short and a full file.  Four
layers let the VMware stacker add one at the side and two be stacked on it.  Lists
of three nodes hold a circle that misses the head, and two processes in opposite
directions; page tables of three levels end at, above and below a large page.
Two uploads show that a case is not touched by another's clean-up, two parts
that the last file wins.  Deadlock checking is off where a service may wait for
ever for its next message (or, for the pool, has returned); `EvidenceLoader`
keeps it on, with `Finished` as its one terminal step.

### What the code does against what is written

Three runs expect a violation; `PROJECT.json` quotes the lines.

* `orchestrator_single_worker`: the lock is gone before its holder is.
  `MutualExclusionWithinTTL` is what it does give.
* `orchestrator_gemma`: after `g.Wait` the errgroup's context is cancelled, and the
  call to Gemma uses it.
* `tools_process_tree`: `Process` has the tags `id`, `parent_id` and `name`, pslist
  the columns PID, PPID and COMM: no listed process is ever found in the tree.

Met while modelling, and part of what the modules say, without a run of their own.

*Services.*  The publication on `agent-findings` uses the same dead context
(main.go:339).  Malformed messages are dropped, not dead-lettered
(decision_engine/cmd/main.go:51, README.md:88).  The LiME magic is compared in the
wrong byte order (evidence-loader worker.go:224).  The loader answers 202 although
the announcement failed (worker.go:202, README.md:156); making the error reject
the upload would break `AnnouncedIsComplete`, as the message may have been stored.
`linux.netstat` and `linux.cmdline` do not exist in the vendored Volatility, so
their tools fail and cancel the others.

*Layers.*  The scan reports matches in the tail of a chunk twice
(interfaces/layers.py:344-348), misses one that spans two mapped
blocks, as no chunk ever continues from one into the next (the branch for it,
583-591, is dead: `chunk_start` always equals `chunk_position` there), and by
default leaves out the last byte of the layer (235-238).  The AVML loader does not
end on a range that is cut short (avml.py:155).  `SegmentedLayer.is_valid` looks at
the first byte only (segmented.py:48-58).  A swapped Windows page translates to
its first byte whatever the offset (intel.py:521-530).  A large page of which a
part is missing is left out whole (408-414).  The check that an address is in the range
of an Intel layer never fails (intel.py:200-204): it compares what is left of the
address behind `address_mask`, which is `maximum_address` itself in width
(interfaces/layers.py:141-144), so an address above the range is translated as its low
bits.  A read that pads still raises where a LiME dump is cut off inside of a range:
`FileLayer.read` raises before it looks at `pad` (physical.py:155-163), although
interfaces/layers.py:163-165 says that with `pad` "the read errors will be replaced by
null characters".  `RaisedForAReason` states what the code does: with padding for a
byte that was cut off, and for nothing else.  The properties state what holds beside
these.

*Structures.*  `idr_max` is 15 for any number of layers
(extensions/__init__.py:2845).  The maple walk marks a node as seen before it
looks at its parent (940, 969).  `is_subdir` and `d_ancestor` compare the address
of the pointer itself (1426-1453), and `next_peer` returns the same mount (1840).
pstree leaves out tasks in or below a circle of parents.  Paths, red-black roots and
scatter chains have no protection from circles (symbols/linux/__init__.py:174,
extensions 2925-2951, 3018-3042).

*Context.*  The type of a symbol of a struct is itself a reference
(intermed.py:503-514), which has no children (templates.py:108-110): `_subresolve` finds
nothing to resolve, `get_symbol` records the name (symbols/__init__.py:266-291), and the
symbol keeps its bare reference for good, also one whose type does not exist and never
raises.  It is resolved when it is used.  `RawSymbolIsRetried` excepts such symbols.

*Symbols and modules.*  A symbol with two length bytes is passed by one byte too few
(kallsyms.py:440, 1612, 647), and `_get_symbol_offset` takes its second byte from
wherever the reader was left (644): what follows it in the stream is read wrongly,
and the properties speak of what precedes it.  The first name of all is never found
by `_lookup_name_index` (1670-1678).  `module_lookup_by_address` asks the last module
of the list, not the one that matched, for the symbol (modules.py:117, 143).  Of
modules that start at one address only the first is kept, although the doc speaks of
their offsets (modules.py:363, 374).  Hidden modules are looked for at multiples of
the pointer's size, not of a cache line (modules.py:479).

*Cache.*  A download that was killed, or that ended without an announced length,
leaves a partial PDB under its final name, which every later run uses
(resources.py:186).  Two downloads at once may leave one of full size with a hole.
A run truncates or removes the table that another has just finished
(pdbutil.py:258, 298), and a row may be left that stands for a truncated file
(symbol_cache.py:430).

Read off the code without a run of its own: cmd/main.go:99 of the decision
engine logs "Action: IR Report" for a MEDIUM case, and only HIGH cases reach
`SaveDataToStorage` (`Decide`).

### Fairness

Weak fairness of what runs by itself: the main loop of a service, each
goroutine, each handler; the Go scheduler runs what is runnable.  Crashes,
failures, rebalances and expiry are never forced.  A subprocess is forced to
end only where the code ends it: vol3-service kills a plugin after 120 s, so
`Goroutine(w)` is fair; an orchestrator tool must return only when the context
is dead, the log scan always (`MustReturn`), and `Tick` is fair, so the deadline
comes; a request must move only once its client has gone, or when it waits for
neither body nor `vol.py` (`MustMove`); the decision engine's call to Ollama has a
client timeout.  Redis and Kafka clients are taken to time out.  In
`SymbolFetch` each process is fair, and being killed is never forced.

## 4. Proofs

| theorem | states | argument |
|---|---|---|
| `ThreadPool_proof!Drained`, `OwnedOnce` | `ShutdownDrains`, `TaskOwnedOnce` | the inductive invariant adds that the channel holds increasing tasks no later than `submitted`, that a running task came before all waiting ones, and that a goroutine outside `wg` left an empty, closed channel |
| `Orchestrator_proof!MutualExclusionWithinTTL` | `ExclusiveWithinTTL` | the invariant bounds the lock by the holder's age: while a handler is younger than the TTL, the remaining life of its lock and its age add up to the TTL, so nobody else can acquire |
| `Orchestrator_proof!ClaimsAreAlwaysKept` | `ClaimsAreKept` | counting: the findings of a case and the replicas now in a handler of it together never outnumber the locks that were set for it; without Redis failures a lock that lives was set by a handler |
| `Orchestrator_proof!ToolsAlwaysJoined` | `ToolsAreJoined` | `spawned` is the place in `ToolOrder` of the last tool handed over: a tool is idle exactly if it is not called for or stands behind that place, and `WaitTools` needs no tool called for behind it and none active; the limit is `g.Go`'s guard |
| `Orchestrator_proof!TypeCorrect` | `TypeOK` of the orchestrator | inductive with the same invariant |
| `ThreadPool_proof!KeepsBatchPromise` | `ImplementsTaskBatch`: the pool refines `TaskBatch` | one lemma per action under the same invariant: `Submit`, `Take` and `Finish` move exactly one task on, because nobody else owns it; `Wait` joins, because every goroutine has left an empty, closed channel; `CloseQueue` and `Exit` are stutters |
| `ThreadPool_proof!TypeCorrect` | `TypeOK` of the pool | inductive as it stands |
| `Vol3Service_proof!AtMostOnce`, `NoRedelivery` | deliveries of `GroupReader` are increasing, below the commit | the invariant ties both to `committed <= position`: `Resume` never goes below a delivered offset |
| `Vol3Service_proof!ReadsAsAGroup`, `DeliversOnce` | the service refines `GroupReader`; `DeliveredOnce` | one lemma says of each action which part of the state it is a step of: the reader, the pool, or neither |
| `Vol3Service_proof!RunsExecutors`, `TypeCorrect` | each step is a step of the pool, or ends or makes one; `TypeOK` | the pool's inductive invariant, proved in `ThreadPool_proof` from the actions alone, holds of each executor in turn |
| `Vol3Service_proof!KeysTrue` | `KeysAreTrue` | while a batch runs, the stage of a plugin is where its task is (waiting, held, ended); an ended closure has written at most one of the two keys for this delivery, and the deliveries of a case are counted against its keys |
| `Vol3Service_proof!DoneSettled` | `DoneMeansSettled` | `SetDone` comes after `Wait` returned, when the pool is drained and so every stage is settled |
| `Vol3Service_proof!NothingRecomputed` | `NoRedundantExecution` | while Redis answers, a closure that executes found no result, and nobody else writes that plugin's key |
| `Framework_proof!TypeCorrect`, `RowIsAlwaysWhole`, `SettledPdbIsAlwaysWhole`, `SettledPdbAlwaysStays` | `TypeOK`, `RowIsWhole`, `SettledPdbIsWhole`, `SettledPdbStays` | without overlap one run is under way at most, one that converts found no row, and a row's file is whole; without crossed downloads the run that fetches has the file under its name to itself and has written a prefix of it, and a file nobody fetches is whole |
| `Framework_proof!LayersTypeCorrect`, `StackIsAlwaysSound` | `StackIsSound` | the layers are closed under what they depend on: a step that adds keeps those that are there, one that deletes needs a layer nothing depends on; `stackSet` holds each stacker once, and none whose layer is in the context |
| `Framework_proof!SpaceTypeCorrect`, `ResolutionIsAlwaysSound`, `AnswersAlwaysStay` | `ResolutionIsSound`, `AnswersStay` | each operation either keeps the tables or forgets what was resolved; what a resolution adds is closed under what its types refer to |
| `Framework_proof!GridAlwaysKeepsRows` | `GridKeepsRows` | the nodes form a forest (`Forest`): each path is the parent's and then the place in its list, each list holds its children at their places, no two paths are equal; a row or an insertion makes one forest of another (`Grows`), whose moved paths are those at or behind the new one, so that two nodes keep their order; `prev_nodes` are the last row and those above it (`Spine`), so a new row comes last; `acc_map` has exactly the paths of the printed rows (`Remembered`) |
| `Memory_proof!ScanAlwaysFindsEachMatch` | `ScanFindsEachMatch` | see below |
| `Memory_proof!SegmentsAlwaysReadTheFile` | `SegmentsReadTheFile` | see below |
| `DecisionEngine_proof!TypeCorrect`, `DeadLettersStayUndecided` | `TypeOK`, `DeadLetterNotDecided` | the invariant adds that offsets in `dlq` and in files were delivered, and that the message in hand is the last delivered one, so a dead-lettered offset cannot be in hand again |
| `DecisionEngine_proof!NewestAlwaysDecides` | `NewestDecides` | the message in hand is at least as new as anything stamped on a case, so what a step writes is no older than what it replaces |
| `DecisionEngine_proof!HighAlwaysWithReport` | `HighOnlyWithReport` | while the disk works, whoever is past a write has its own offset in that file |
| `EvidenceLoader_proof!TypeCorrect`, `ChainOfCustody` | `TypeOK`, `AnnouncedIsComplete` | the invariant says of each `pc` what has been achieved (mounted, valid, checksummed, ready), and of announced uploads that they were answered 202 |
| `EvidenceLoader_proof!ReadyAlwaysHasChecksum` | `ReadyHasChecksum` | `ready` is set only at a `pc` reached past the checksum, and no step takes a checksum away from a ready case |
| `EvidenceLoader_proof!RejectedAlwaysLeavesNothing` | `RejectedLeavesNothing` | each step leaves an upload alone, takes it on before it has an answer, or answers it with its files gone |
| `Rules_proof!ScoresAreRight`, with `UncertaintyCharacterised`, `ConfidencesBounded`, `BandsCharacterised`, `PenaltyIsOneBand` | `ScoresAndBands` | arithmetic over all scores, confidences and rates; of three numbers in order, the gap is the last minus the one before |
| `Rules_proof!EvidenceReadRight`, with `DeadEndsCharacterised`, `AcceptedForItsContent`, `ToolsCharacterised`, `NoProcessIsRecognised`, `LogAlertsCharacterised` | `EvidenceIsRead` | cases on the kind of a file, with a best file as the witness where a name is no dead end; what a field of a struct is decoded to, row by row, for dumps and syslogs of any length |

The scan is one of two long arguments.  What is wanted speaks of a search that is over;
what is inductive is an account of the search so far, `ScanInv`, in parts.
`CoalesceInv`: `result` is separate, `reach` is where it ends, and, of proper
sections, it covers what the sections taken so far do.  `Shape`: a chunk is one piece, which ends
where the chunk does, so the place the scanner is told is right.  `Truth`: if anything
is reported, the occurrence lies in a range that was to be searched and is readable;
`Numbered`: each report names the occurrence and a chunk already yielded.  The last,
`SectionsInv`, `LayerInv`, `BlocksInv` and `PackInv`, one for each loop, say what must
have been reported when the chunk that waits is scanned as well (`Seen`): exactly what
the ranges behind promise, and in the range that is being cut what its part before
`position` does.  An occurrence of at most `Overlap` + 1 bytes lies whole in the chunk in
whose first `ChunkSize` bytes it begins, and there alone; the step back by the overlap
at the end of a section is the one exception, and `Repeated` names its occurrences
in closed form, from the remainders of the length.  A step moves `position`, and with
it what is promised, by exactly what the chunk it yields finds.

The other is about dumps.  `SegmentsInv` says for each loop what it has achieved.
While ranges are loaded (`LimeState`, `AvmlState`): the loader is where the range
before ended (`Place`), every range behind it was reached and loads (`Passed`), and the
table is what those ranges store, in the order of both the addresses and the file
(`Sorted`), below the next range in both (`UpTo`).  In the frames of a range
(`StreamState`): the same, with the frames read so far (`InStream`, `FramesTo`), as
long as the loader is within the data it was given; once it is past them, less is
decoded than the loop waits for and the file is not `Loadable`.  The end of the load
makes the table the whole of what the file stores (`TableOf`), and a refusal makes the
file one that is not `Loadable`; both because ranges stand one behind the other, so the
first that does not load is the first the loader stops at (`NoFurther`).  While the
file is read (`ReadState`): what was read is right, up to `current`.  The binary search
is right because the table is sorted, so `Precedes` holds of the first segments and of
no others (`RightmostFacts`), and where it finds no segment that contains the place,
none that the file stores does, but for a segment of one last byte (`Hole`).  That frames
and ranges stand in order, from what is assumed of each and the next, goes by the
least counterexample (`Ordered`).  What is assumed of a file (`DumpAssumption`) is how
its writer lays it out, and not that it is whole or its headers right: an AVML range
decodes to the addresses its header names, and AVML ranges are in the order of their
addresses, which the code relies on and does not check.  LiME ranges may be in any
order, as the code checks theirs.

Assumptions are those named in the modules: `PoolAssumption`,
`OrchestratorAssumption`, `DecisionAssumption`, `LoaderAssumption`,
`BlocksAssumption`, `NoneAssumption`, `KillsAssumption`, `FileAssumption`,
`StackersAssumption`, `AppendsAssumption`, `BodiesAssumption`, `Vol3Assumption`,
`RulesAssumption`, `GridAssumption`, `ChunkAssumption`, `SearchAssumption`,
`MappingsAssumption`, `DumpAssumption`, `RequestAssumption`; TLC evaluates them in the runs.  The theorems are about `Spec` of the module, or
`SafeSpec`, `ScanSpec`, `SegmentSpec`, and hold for any constants.  Where type correctness is proved, no run repeats it.

Only model-checked: the liveness properties (fairness and ENABLED are beyond the
prover), `HalfTableHeals` among them; and `PagesAreArchitectural`, `KernelIsWalked`
and `SymbolsAreFound`, which are about recursive operators (page tables, walks, symbol
tables): the prover does not handle modules with such operators, and cannot use the
library's induction theorems, which take an operator.  The dumps, the scan and the grid
could be proved for any size because they are state machines, a turn of a loop to a
step, so that the induction is that over the steps of a behaviour.
The theorems of `Rules_proof` about one rule hold for all
inputs of it; the two that collect them are about the inputs of `MCRules`, with any
scores and rates.

## 5. Not modelled

* The self-correction loop after Gemma's answer (main.go:223-329): unreachable,
  as the request never leaves.
* Prompts, the report writer (main.go:462-476, called by nobody and without the
  return its signature needs), configuration, images.
* Whether the services' JSON field names agree with ML1 and ML2.
* Redis and Redpanda losing data they have acknowledged.
* Most of Volatility by lines: some 300 files of plugins and of OS extensions that
  read fields at fixed offsets, format them and print them, and parsers of fixed
  formats (PDB streams, registry hives, PE, ELF, ISF).  They have neither state of
  their own nor control beyond the walks modelled here; a module for them would
  repeat their tables.  For this reason the map covers a small share of the lines.
* Of the kernel's symbols: those of modules, of ftrace and of BPF programs, and the
  latch trees they are found in (kallsyms.py:735-1095, 1153-1592); that reading an array
  of the table fails; the section bounds of a kernel that does not name `_end`.
* Of the layers: crash dumps, ELF, QEMU, XEN and VMware formats, the regular-expression
  scanners, leechcore and cloud storage.
* Of the context: the search for suitable requirements and the construction of the
  configuration; a malformed table that leaves half-resolved types; full types that
  stay bound to a table that was removed.
* Of the grid: sorting, the other renderers, an error in the visitor itself, after
  which the last row is not counted (renderers/__init__.py:321-331).

## 6. Plan

Done: the services in the order pool, reader, vol3-service, hypotheses,
orchestrator, risk bands, decision engine, artifacts, loader, tools; then of
Volatility the layers and scanning, the kernel's structures, its symbols and modules, the cache, the
stacker, the symbol space and the grid; the theorems of section 4.

Left out on purpose: a composition of loader and vol3-service, as the keys one
writes are read by no other; the loop after Gemma's answer, which cannot be reached.

What could follow: the page walk and the kernel's lists as state machines that can be
proved about, as the dumps, the scan and the grid are; the plugins
that vol3-service runs as operators on what they read.
