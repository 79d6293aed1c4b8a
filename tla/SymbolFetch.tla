---------------------------- MODULE SymbolFetch ----------------------------
(***************************************************************************)
(* The files that the runs of vol.py share.  vol3-service starts several   *)
(* of them at once on one memory image, so they all want the same symbol   *)
(* table.  A run looks in the database of known tables; when the table is  *)
(* not there it downloads the PDB through the resource cache, converts it  *)
(* into a table (an ISF file) written under its final name, and loads the  *)
(* file.  Nothing locks the two files, and a run may be killed (its        *)
(* deadline in the worker is 120 s) between any two steps.                 *)
(*                                                                         *)
(* A file is a name and an inode: a run that has the PDB open goes on      *)
(* writing or reading after another one removed the name.  What the table  *)
(* holds is "partial" or "whole"; what the PDB holds is the set of blocks  *)
(* written since it was last truncated, so that holes can be told apart.   *)
(*                                                                         *)
(* External: the server and the kernel.  A server may be out of reach or   *)
(* stop after any block; hasLength says whether it announces a length.     *)
(***************************************************************************)
EXTENDS Naturals, FiniteSets

CONSTANTS
    Runs,        \* the processes that run vol.py
    Inodes,      \* more than there are runs: a named file and the removed ones
    Blocks,      \* a PDB is this many reads of the download loop
    MaxKills,    \* bound: how often a run is killed
    None         \* no inode

ASSUME BlocksAssumption == Blocks \in Nat \ {0}
ASSUME NoneAssumption == None \notin Inodes
ASSUME KillsAssumption == MaxKills \in Nat

VARIABLES
    hasLength,   \* the server announces Content-Length
    pc,          \* where each run is
    pdb,         \* the inode the cached PDB's name leads to
    data,        \* the blocks each inode holds
    fd,          \* the inode each run has open
    got,         \* the blocks each run has read from the server
    isf,         \* what the table's file holds, or "none"
    ifd,         \* whether the table a run writes still has its name
    row,         \* the database knows the table
    new,         \* the run's update found a file the database does not know
    kills,       \* how many runs were killed
    overlap,     \* two runs were under way at once
    crossed      \* two downloads of the PDB were under way at once

vars == <<hasLength, pc, pdb, data, fd, got, isf, ifd, row, new, kills, overlap, crossed>>

Whole == 1..Blocks

Places == {"idle", "index", "find", "convert", "retrieve", "create1", "fetch1",
           "reopen", "create2", "fetch2", "read", "missing", "failed",
           "search", "load"}

TypeOK ==
    /\ hasLength \in BOOLEAN
    /\ pc \in [Runs -> Places]
    /\ pdb \in Inodes \cup {None}
    /\ data \in [Inodes -> SUBSET Whole]
    /\ fd \in [Runs -> Inodes \cup {None}]
    /\ got \in [Runs -> 0..Blocks]
    /\ isf \in {"none", "partial", "whole"}
    /\ ifd \in [Runs -> {"none", "linked", "orphan"}]
    /\ row \in BOOLEAN
    /\ new \in [Runs -> BOOLEAN]
    /\ kills \in 0..MaxKills
    /\ overlap \in BOOLEAN
    /\ crossed \in BOOLEAN

Init ==
    /\ hasLength \in BOOLEAN
    /\ pc = [r \in Runs |-> "idle"]
    /\ pdb = None
    /\ data = [i \in Inodes |-> {}]
    /\ fd = [r \in Runs |-> None]
    /\ got = [r \in Runs |-> 0]
    /\ isf = "none"
    /\ ifd = [r \in Runs |-> "none"]
    /\ row = FALSE
    /\ new = [r \in Runs |-> FALSE]
    /\ kills = 0
    /\ overlap = FALSE
    /\ crossed = FALSE

Goto(r, place) == pc' = [pc EXCEPT ![r] = place]

Fetching == {"fetch1", "fetch2"}
ToFetch == {"create1", "create2"}
Running == {r \in Runs : pc[r] # "idle"}

pdbVars == <<pdb, data, fd, got, crossed>>
isfVars == <<isf, ifd>>
dbVars == <<row, new>>
history == <<hasLength, kills, overlap>>
-----------------------------------------------------------------------------
(* SqliteCache.update and find_location.                                    *)

(* update lists the files and drops the row of a file that is gone.         *)
Start(r) ==
    /\ pc[r] = "idle"
    /\ Goto(r, "index")
    /\ row' = (row /\ isf # "none")
    /\ new' = [new EXCEPT ![r] = isf # "none" /\ ~row]
    /\ overlap' = (overlap \/ Running # {})
    /\ UNCHANGED <<pdbVars, isfVars, hasLength, kills>>

\* Mutant: a file that does not load is entered all the same.
IndexesAny == isf # "none"

\* The file loads, so json.load and the extractors give its identifier.
Indexes == isf = "whole"

(* A new file is opened and entered; the exception of one that does not load *)
(* is swallowed.  A row older than three days is looked at again, and keeps  *)
(* its value whether or not its file still loads.                            *)
Index(r) ==
    /\ pc[r] = "index"
    /\ Goto(r, "find")
    /\ row' = (row \/ (new[r] /\ Indexes))
    /\ new' = [new EXCEPT ![r] = FALSE]
    /\ UNCHANGED <<pdbVars, isfVars, history>>

FindLocation(r) ==
    /\ pc[r] = "find"
    /\ Goto(r, IF row THEN "load" ELSE "convert")
    /\ UNCHANGED <<pdbVars, isfVars, dbVars, history>>
-----------------------------------------------------------------------------
(* download_pdb_isf: the table's file is opened under its final name, and    *)
(* truncated, before the PDB is looked for.                                  *)
OpenTable(r) ==
    /\ pc[r] = "convert"
    /\ Goto(r, "retrieve")
    /\ isf' = "partial"
    /\ ifd' = [ifd EXCEPT ![r] = "linked"]
    /\ UNCHANGED <<pdbVars, dbVars, history>>

-----------------------------------------------------------------------------
(* ResourceAccessor.open, called by retreive_pdb and again by PdbReader.     *)

\* The server cannot be reached: retreive_pdb tries its second name and
\* gives up, and PdbReader raises.
Unreachable(r) ==
    /\ \/ pc[r] = "retrieve" /\ Goto(r, "missing")
       \/ pc[r] = "reopen" /\ Goto(r, "failed")
    /\ fd' = [fd EXCEPT ![r] = None]
    /\ UNCHANGED <<pdb, data, got, crossed, isfVars, dbVars, history>>

\* Mutant: the download starts whether or not the file is there.
MustAlwaysFetch == TRUE

\* os.path.exists: a file being written counts as a cached one.
MustFetch == pdb = None

OpenCached(r) ==
    /\ ~ MustFetch
    /\ pdb # None
    /\ \/ pc[r] = "retrieve" /\ Goto(r, "reopen") /\ fd' = fd
       \/ pc[r] = "reopen" /\ Goto(r, "read") /\ fd' = [fd EXCEPT ![r] = pdb]
    /\ UNCHANGED <<pdb, data, got, crossed, isfVars, dbVars, history>>

FindAbsent(r) ==
    /\ MustFetch
    /\ \/ pc[r] = "retrieve" /\ Goto(r, "create1")
       \/ pc[r] = "reopen" /\ Goto(r, "create2")
    /\ UNCHANGED <<pdbVars, isfVars, dbVars, history>>

Unused == Inodes \ ({pdb} \cup {fd[q] : q \in Runs})

\* open(temp_filename, "wb") truncates the file that is there by now.
Create(r) ==
    /\ \/ pc[r] = "create1" /\ Goto(r, "fetch1")
       \/ pc[r] = "create2" /\ Goto(r, "fetch2")
    /\ Unused # {}          \* there are more inodes than runs
    /\ pdb' = IF pdb # None THEN pdb ELSE CHOOSE u \in Unused : TRUE
    /\ data' = [data EXCEPT ![pdb'] = {}]
    /\ fd' = [fd EXCEPT ![r] = pdb']
    /\ got' = [got EXCEPT ![r] = 0]
    /\ crossed' = (crossed \/ \E q \in Runs \ {r} : pc[q] \in Fetching \cup ToFetch)
    /\ UNCHANGED <<isfVars, dbVars, history>>

Fetch(r) ==
    /\ pc[r] \in Fetching
    /\ got[r] < Blocks
    /\ got' = [got EXCEPT ![r] = @ + 1]
    /\ data' = [data EXCEPT ![fd[r]] = @ \cup {got[r] + 1}]
    /\ UNCHANGED <<pc, pdb, fd, crossed, isfVars, dbVars, history>>

\* seek(0, SEEK_END): a file with a hole is as long as a whole one.
Size(i) == CHOOSE n \in 0..Blocks :
             /\ n = 0 \/ n \in data[i]
             /\ \A b \in data[i] : b <= n

\* Mutant: the size is never compared with the length.
NeverShort(size) == FALSE

\* cache_file_size < content_length, which is -1 when it was not announced.
Short(size) == hasLength /\ size < Blocks

\* The stream ends, at the end of the file or before: read returns b"".
FetchEnds(r) ==
    /\ pc[r] \in Fetching
    /\ ~ Short(Size(fd[r]))
    /\ pdb # None           \* curfile = open(temp_filename)
    /\ \/ pc[r] = "fetch1" /\ Goto(r, "reopen") /\ fd' = [fd EXCEPT ![r] = None]
       \/ pc[r] = "fetch2" /\ Goto(r, "read") /\ fd' = [fd EXCEPT ![r] = pdb]
    /\ UNCHANGED <<pdb, data, got, crossed, isfVars, dbVars, history>>

\* The name has gone by the time the file is opened again.
FetchLosesName(r) ==
    /\ pc[r] \in Fetching
    /\ ~ Short(Size(fd[r]))
    /\ pdb = None
    /\ Goto(r, "failed")
    /\ fd' = [fd EXCEPT ![r] = None]
    /\ UNCHANGED <<pdb, data, got, crossed, isfVars, dbVars, history>>

\* The stream ended early or raised, and the length is known: the finally
\* clause removes the name, whichever inode it leads to, and raises.
FetchFails(r) ==
    /\ pc[r] \in Fetching
    /\ hasLength
    /\ Short(Size(fd[r])) \/ got[r] < Blocks
    /\ Goto(r, "failed")
    /\ pdb' = None
    /\ fd' = [fd EXCEPT ![r] = None]
    /\ UNCHANGED <<data, got, crossed, isfVars, dbVars, history>>

\* It raised, and the length is not known: the file stays.
FetchAborts(r) ==
    /\ pc[r] \in Fetching
    /\ ~ hasLength
    /\ got[r] < Blocks
    /\ Goto(r, "failed")
    /\ fd' = [fd EXCEPT ![r] = None]
    /\ UNCHANGED <<pdb, data, got, crossed, isfVars, dbVars, history>>
-----------------------------------------------------------------------------
(* PdbReader.get_json on what the open file holds at that moment, then       *)
(* of.write and the close of the table.                                      *)
Convert(r) ==
    /\ pc[r] = "read"
    /\ fd' = [fd EXCEPT ![r] = None]
    /\ IF data[fd[r]] = Whole
       THEN /\ Goto(r, "search")
            /\ isf' = IF ifd[r] = "linked" THEN "whole" ELSE isf
            /\ ifd' = [ifd EXCEPT ![r] = "none"]
       ELSE /\ Goto(r, "failed")
            /\ UNCHANGED isfVars
    /\ UNCHANGED <<pdb, data, got, crossed, dbVars, history>>

\* Mutant: the finally clause keeps what was written.
KeepTable(r) ==
    /\ isf' = isf
    /\ ifd' = [ifd EXCEPT ![r] = "none"]

\* The finally clause removes the name, whoever writes the file it leads to.
DropTable(r) ==
    /\ isf' = "none"
    /\ ifd' = [q \in Runs |-> IF q = r THEN "none"
                              ELSE IF ifd[q] = "linked" THEN "orphan" ELSE ifd[q]]

\* Nothing to convert: the search goes on; an exception ends the run.
CleanUp(r) ==
    /\ \/ pc[r] = "missing" /\ Goto(r, "search")
       \/ pc[r] = "failed" /\ Goto(r, "idle")
    /\ DropTable(r)
    /\ UNCHANGED <<pdbVars, dbVars, history>>

(* file_symbol_url yields any file of that name, and construct loads it.     *)
Search(r) ==
    /\ pc[r] = "search"
    /\ Goto(r, IF isf # "none" THEN "load" ELSE "idle")
    /\ UNCHANGED <<pdbVars, isfVars, dbVars, history>>

\* The table loads, or the run fails on it; the run ends either way.
Load(r) ==
    /\ pc[r] = "load"
    /\ Goto(r, "idle")
    /\ UNCHANGED <<pdbVars, isfVars, dbVars, history>>

Kill(r) ==
    /\ pc[r] # "idle"
    /\ kills < MaxKills
    /\ kills' = kills + 1
    /\ Goto(r, "idle")
    /\ fd' = [fd EXCEPT ![r] = None]
    /\ ifd' = [ifd EXCEPT ![r] = "none"]
    /\ new' = [new EXCEPT ![r] = FALSE]
    /\ UNCHANGED <<pdb, data, got, crossed, isf, row, hasLength, overlap>>

Step(r) ==
    \/ Start(r) \/ Index(r) \/ FindLocation(r) \/ OpenTable(r)
    \/ Unreachable(r) \/ OpenCached(r) \/ FindAbsent(r)
    \/ Create(r) \/ Fetch(r) \/ FetchEnds(r) \/ FetchLosesName(r)
    \/ FetchFails(r) \/ FetchAborts(r)
    \/ Convert(r) \/ CleanUp(r) \/ Search(r) \/ Load(r)

Next == \E r \in Runs : Step(r) \/ Kill(r)

Spec == Init /\ [][Next]_vars

(* Every run goes on and another one is started by the next evidence; the    *)
(* kills are not forced.                                                     *)
FairSpec == Spec /\ \A r \in Runs : WF_vars(Step(r))
-----------------------------------------------------------------------------
Downloading == {r \in Runs : pc[r] \in Fetching /\ fd[r] = pdb}

(* A cached PDB that nobody is downloading is whole, unless the server gave  *)
(* no length, a run was killed, or two downloads crossed: os.path.exists     *)
(* answers for the content in every later run (resources.py:186).            *)
SettledPdbIsWhole ==
    pdb # None /\ Downloading = {} =>
        data[pdb] = Whole \/ ~ hasLength \/ kills > 0 \/ crossed

(* While runs do not overlap, the database only knows a table that loads:    *)
(* a table half written by a killed run is not entered (the exception of the *)
(* load is swallowed) and the next run writes it again.                      *)
RowIsWhole == row /\ ~ overlap => isf = "whole"

(* What the cache holds for the PDB is never fetched again, removed or       *)
(* truncated once no run is past its check for the file: a whole one stays   *)
(* whole, and a broken one fails every later run (resources.py:186).         *)
Settled ==
    /\ pdb # None
    /\ \A r \in Runs : pc[r] \notin Fetching \cup ToFetch

SettledPdbStays == [][Settled => Settled' /\ UNCHANGED <<pdb, data>>]_vars

(* A half-written table that a killed run left is replaced or removed in the *)
(* end, while runs do not overlap.                                           *)
HalfTableHeals == (isf = "partial" /\ ~ overlap) ~> (isf # "partial" \/ overlap)
=============================================================================
