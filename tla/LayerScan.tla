----------------------------- MODULE LayerScan -----------------------------
(***************************************************************************)
(* How Volatility searches a layer of memory for a pattern: the sections   *)
(* to search are coalesced and clipped to the layer, cut into chunks that  *)
(* overlap, and every chunk is read and given to a scanner                 *)
(* (volatility3/framework/interfaces/layers.py, layers/scanners).          *)
(*                                                                         *)
(* The data are known by their addresses.  A behaviour is one search, for  *)
(* one occurrence of the pattern: occurrences do not disturb each other.   *)
(* Chunks share nothing, so that the order in which a pool scans them is   *)
(* left out: a chunk is scanned when it is yielded.                        *)
(***************************************************************************)
EXTENDS Integers, Sequences

CONSTANTS
    ChunkSize,   \* scanner.chunk_size
    Overlap,     \* scanner.overlap
    Width,       \* the length of the pattern in bytes
    Search,      \* the searches that may be asked for
    Mappings     \* what mapping() may give for a section: the blocks that are mapped

Section(start, length) == [start |-> start, length |-> length]
Sections == [start : Nat, length : Nat]
End(s) == s.start + s.length
Holds(s, address) == s.start <= address /\ address < End(s)

\* sorted() on pairs.
Ascending(list) ==
    \A i \in 1..Len(list) - 1 :
        \/ list[i].start < list[i + 1].start
        \/ list[i].start = list[i + 1].start /\ list[i].length <= list[i + 1].length

ASSUME ChunkAssumption ==
    /\ ChunkSize \in Nat \ {0} /\ Width \in Nat \ {0}
    /\ Overlap \in Nat /\ Overlap < ChunkSize

\* The sections are those the caller gave, sorted; the occurrence begins at "at".
ASSUME SearchAssumption ==
    \A s \in Search :
        /\ s.sections \in Seq(Sections) /\ Ascending(s.sections)
        /\ s.minimum \in Nat /\ s.maximum \in Nat
        /\ s.at \in Nat /\ s.unreadable \subseteq Nat
        /\ s.translated \in BOOLEAN

ASSUME MappingsAssumption ==
    \A list \in Mappings :
        /\ list \in Seq(Sections)
        /\ \A i \in 1..Len(list) : list[i].length > 0
        /\ \A i, j \in 1..Len(list) : i < j => End(list[i]) <= list[j].start

VARIABLES
    search,      \* the search of this behaviour
    stage,       \* the loop that runs
    taken,       \* how many sections _coalesce_sections has taken
    reach,       \* its position: where the last section it took ends
    result,      \* its result
    scanned,     \* how many of these _scan_iterator has begun
    position,    \* chunk_position, or offset
    start,       \* chunk_start where a block begins
    from,        \* the range the chunks of a block begin at
    end,         \* block_end, or offset + length
    blocks,      \* the blocks of the section that are still to come
    output,      \* output: the pieces of a chunk
    yielded,     \* a chunk was yielded, and is scanned
    pieces,      \* what of it is still to be read
    chunkEnd,    \* the address it ends at
    data,        \* what was read of it: the address of each byte
    count,       \* how many were yielded
    reports,     \* what scanners reported: the chunk and the address
    ranges       \* what was to be searched so far: sections, or blocks

coalesceVars == <<search, taken, reach>>
cutVars == <<position, start, from, end, blocks, output>>
yieldVars == <<yielded, pieces, chunkEnd, count>>
scanVars == <<coalesceVars, stage, result, scanned, cutVars, yieldVars, data, reports, ranges>>

ScanStart ==
    /\ stage = "merge" /\ taken = 0 /\ reach = 0 /\ result = <<>>
    /\ scanned = 0 /\ position = 0 /\ start = 0 /\ from = 0 /\ end = 0
    /\ blocks = <<>> /\ output = <<>>
    /\ yielded = FALSE /\ pieces = <<>> /\ chunkEnd = 0 /\ data = <<>> /\ count = 0
    /\ reports = {} /\ ranges = {}

ScanInit == search \in Search /\ ScanStart

Lower(m, n) == IF m <= n THEN m ELSE n
-----------------------------------------------------------------------------
(* _coalesce_sections. *)

\* Mutant: only sections that overlap are merged.
JoinsOverlapping(section) == result # <<>> /\ section.start < reach

Joins(section) == result # <<>> /\ section.start <= reach

Merge ==
    LET section == search.sections[taken + 1] IN
    /\ stage = "merge" /\ taken < Len(search.sections)
    /\ result' = IF Joins(section)
                 THEN [result EXCEPT ![Len(result)] =
                         Section(@.start, End(section) - @.start)]
                 ELSE Append(result, section)
    /\ taken' = taken + 1 /\ reach' = End(section)
    /\ UNCHANGED <<search, stage, scanned, cutVars, yieldVars, data, reports, ranges>>

Early == result # <<>> /\ result[1].start < search.minimum

ClipBelow ==
    /\ stage = "below" /\ Early
    /\ result' = IF End(result[1]) < search.minimum THEN Tail(result)
                 ELSE [result EXCEPT ![1] =
                         Section(search.minimum, End(@) - search.minimum)]
    /\ UNCHANGED <<coalesceVars, stage, scanned, cutVars, yieldVars, data, reports, ranges>>

Topmost == result[Len(result)]

Late ==
    /\ result # <<>>
    /\ Topmost.start > search.maximum \/ (Topmost.start = search.maximum /\ Topmost.length > 0)

\* What is cut is result[1], the second of the list, whatever the last is: a third
\* that begins at the maximum stays as it is, and so does the test of the loop.
ClipAbove ==
    /\ stage = "above" /\ Late
    /\ \/ /\ Topmost.start > search.maximum
          /\ result' = SubSeq(result, 1, Len(result) - 1) /\ UNCHANGED stage
       \/ /\ Topmost.start = search.maximum /\ Len(result) > 1
          /\ result' = [result EXCEPT ![2] = Section(search.maximum, 0)] /\ UNCHANGED stage
       \/ /\ Topmost.start = search.maximum /\ Len(result) = 1
          /\ stage' = "IndexError" /\ UNCHANGED result
    /\ UNCHANGED <<coalesceVars, scanned, cutVars, yieldVars, data, reports, ranges>>

\* A loop of _coalesce_sections ends, and the next one begins.
NextLoop ==
    /\ \/ stage = "merge" /\ taken = Len(search.sections) /\ stage' = "below"
       \/ stage = "below" /\ ~Early /\ stage' = "above"
       \/ stage = "above" /\ ~Late /\ stage' = "sections"
    /\ UNCHANGED <<coalesceVars, result, scanned, cutVars, yieldVars, data, reports, ranges>>
-----------------------------------------------------------------------------
(* _scan_iterator. *)

\* The chunk goes to the scanner, which is done with it before the next one.
Yield(list, address) ==
    yielded' = TRUE /\ pieces' = list /\ chunkEnd' = address /\ count' = count + 1

\* A section of a layer that has no holes, or the blocks of it that are mapped.
NextSection ==
    LET section == result[scanned + 1] IN
    /\ stage = "sections" /\ ~yielded /\ scanned < Len(result)
    /\ scanned' = scanned + 1 /\ output' = <<>>
    /\ \/ /\ ~search.translated
          /\ stage' = "layer" /\ position' = section.start /\ end' = End(section)
          /\ ranges' = ranges \cup {section}
          /\ UNCHANGED <<start, blocks>>
       \/ /\ search.translated
          /\ stage' = "blocks" /\ position' = 0 /\ start' = 0
          /\ \E list \in Mappings :
                /\ \A i \in 1..Len(list) :
                      section.start <= list[i].start /\ End(list[i]) <= End(section)
                /\ blocks' = list
                /\ ranges' = ranges \cup {list[i] : i \in 1..Len(list)}
          /\ UNCHANGED end
    /\ UNCHANGED <<coalesceVars, result, from, yieldVars, data, reports>>

\* Mutant: the last bytes of a chunk are not searched again.
StepWhole(size) == size

\* Only move up by the chunk size.
Step(size) == IF size > ChunkSize THEN size - Overlap ELSE size

\* DataLayerInterface: the next chunk of a section.
LayerChunk ==
    LET size == Lower(end - position, ChunkSize + Overlap) IN
    /\ stage = "layer" /\ ~yielded /\ position < end
    /\ Yield(<<Section(position, size)>>, position + size)
    /\ position' = position + Step(size)
    /\ UNCHANGED <<coalesceVars, stage, result, scanned, start, from, end, blocks, output,
                   data, reports, ranges>>

LayerEnds ==
    /\ stage = "layer" /\ ~yielded /\ position >= end
    /\ stage' = "sections"
    /\ UNCHANGED <<coalesceVars, result, scanned, cutVars, yieldVars, data, reports, ranges>>

\* TranslationLayerInterface: a block continues the chunk or starts a new one, and
\* what is left of a chunk that was begun is finished first.
NextBlock ==
    LET block == blocks[1]
        gap == position < block.start
        begun == IF gap THEN block.start ELSE start
        here == IF gap THEN block.start ELSE position
        half == here # begun
        size == Lower(here - begun, ChunkSize + Overlap)
    IN  /\ stage = "blocks" /\ ~yielded /\ blocks # <<>>
        /\ IF gap THEN Yield(output, position) ELSE UNCHANGED yieldVars
        /\ output' = (IF gap THEN <<>> ELSE output)
                       \o (IF half THEN <<Section(here, size)>> ELSE <<>>)
        /\ position' = (IF half THEN here + size ELSE here) /\ start' = position'
        /\ from' = position' /\ end' = End(block)
        /\ blocks' = Tail(blocks) /\ stage' = "pack"
        /\ UNCHANGED <<coalesceVars, result, scanned, data, reports, ranges>>

\* Mutant: the next chunk begins where the one before ends, without overlap.
PackStepWhole == ChunkSize + Overlap

PackStep == ChunkSize

\* Pack chunks: if there is already a chunk there, ship it.
Pack ==
    LET ships == output # <<>>
        here == IF ships THEN from ELSE position
        size == Lower(end - here, ChunkSize + Overlap - (here - from))
    IN  /\ stage = "pack" /\ ~yielded /\ from < end
        /\ IF ships THEN Yield(output, position) ELSE UNCHANGED yieldVars
        /\ output' = <<Section(here, size)>>
        /\ position' = here + size /\ start' = here + size
        /\ from' = from + PackStep
        /\ UNCHANGED <<coalesceVars, stage, result, scanned, end, blocks, data, reports, ranges>>

PackEnds ==
    /\ stage = "pack" /\ ~yielded /\ from >= end
    /\ stage' = "blocks"
    /\ UNCHANGED <<coalesceVars, result, scanned, cutVars, yieldVars, data, reports, ranges>>

\* Ship anything that might be left.
Ship ==
    /\ stage = "blocks" /\ ~yielded /\ blocks = <<>>
    /\ IF output # <<>> THEN Yield(output, position) ELSE UNCHANGED yieldVars
    /\ stage' = "sections" /\ output' = <<>>
    /\ UNCHANGED <<coalesceVars, result, scanned, position, start, from, end, blocks, data,
                   reports, ranges>>
-----------------------------------------------------------------------------
(* _scan_chunk and the scanner. *)

\* Mutant: a piece is read up to its first unreadable byte.
ReadUpTo(piece) ==
    LET good == {n \in 0..piece.length :
                   \A a \in search.unreadable : ~Holds(Section(piece.start, n), a)}
    IN  [k \in 1..(CHOOSE n \in good : \A m \in good : m <= n) |-> piece.start + k - 1]

\* A piece with an unreadable byte is left out.
Readable(piece) == \A a \in search.unreadable : ~Holds(piece, a)
BytesRead(piece) ==
    [k \in 1..(IF Readable(piece) THEN piece.length ELSE 0) |-> piece.start + k - 1]

ReadPiece ==
    /\ yielded /\ pieces # <<>>
    /\ data' = data \o BytesRead(pieces[1])
    /\ pieces' = Tail(pieces)
    /\ UNCHANGED <<coalesceVars, stage, result, scanned, cutVars, yielded, chunkEnd, count,
                   reports, ranges>>

\* Mutant: the scanner reports what it finds in the overlap as well.
FoundInOverlap(bytes) ==
    {i \in 0..(Len(bytes) - Width) : \A k \in 1..Width : bytes[i + k] = search.at + k - 1}

\* BytesScanner: where in the data the pattern is found, up to the chunk size.
Found(bytes) ==
    {i \in 0..(Len(bytes) - Width) :
       i < ChunkSize /\ \A k \in 1..Width : bytes[i + k] = search.at + k - 1}

\* The scanner is told where the data begins, from where the chunk ends and how
\* much was read.
Scan ==
    /\ yielded /\ pieces = <<>>
    /\ reports' = reports \cup {<<count, i + chunkEnd - Len(data)>> : i \in Found(data)}
    /\ yielded' = FALSE /\ data' = <<>>
    /\ UNCHANGED <<coalesceVars, stage, result, scanned, cutVars, pieces, chunkEnd, count, ranges>>

ScanNext ==
    \/ Merge \/ ClipBelow \/ ClipAbove \/ NextLoop
    \/ NextSection \/ LayerChunk \/ LayerEnds \/ NextBlock \/ Pack \/ PackEnds \/ Ship
    \/ ReadPiece \/ Scan

ScanSpec == ScanInit /\ [][ScanNext]_scanVars
-----------------------------------------------------------------------------
(* What is right. *)

Inside(s, t) == t.start <= s.start /\ End(s) <= End(t)
NoneInside ==
    \A i, j \in 1..Len(search.sections) :
        i # j => ~Inside(search.sections[i], search.sections[j])

Coalesced == stage \notin {"merge", "below", "above", "IndexError"}

Covers(list, address) == \E i \in 1..Len(list) : Holds(list[i], address)
Separate(list) == \A i, j \in 1..Len(list) : i < j => End(list[i]) < list[j].start

\* What the clipping is able for.
Proper ==
    /\ NoneInside /\ search.minimum < search.maximum
    /\ \A i \in 1..Len(search.sections) : search.sections[i].start # search.maximum

\* Coalescing leaves sections that do not touch, so that nothing is searched twice.
\* Of sections that do not lie inside of each other it loses no address of the layer
\* and adds none; only one that begins at the last address of the layer sends the
\* clipping out of its list or into an endless loop (layers.py:290-320).
CoalescingKeepsSections ==
    /\ Coalesced => Separate(result)
    /\ Proper =>
         /\ stage # "IndexError"
         /\ stage = "above" /\ Late => Topmost.start > search.maximum
         /\ Coalesced =>
              /\ \A a \in search.minimum..search.maximum :
                    Covers(search.sections, a) => Covers(result, a)
              /\ \A i \in 1..Len(result) : \A a \in result[i].start..End(result[i]) - 1 :
                    Covers(search.sections, a) /\ a >= search.minimum

\* The occurrence lies in a range, and every chunk that would find it is readable.
Occurs(range) == range.start <= search.at /\ search.at + Width <= End(range)
ReadableAround ==
    \A a \in search.unreadable :
        a + ChunkSize <= search.at \/ search.at + ChunkSize + Overlap <= a

\* A last chunk that is longer than the chunk size and shorter than the overlap would
\* make it: the step back by the overlap searches its end again.
Repeated(range) ==
    \E n \in 0..range.length :
        LET rest == range.length - n * ChunkSize
        IN  /\ ChunkSize < rest /\ rest < ChunkSize + Overlap
            /\ End(range) - Overlap <= search.at
            /\ search.at < End(range) - rest + ChunkSize

None(seen) == seen = {}
Once(seen) == \E n \in 1..count + 1 : seen = {<<n, search.at>>}
Twice(seen) == \E m, n \in 1..count : m # n /\ seen = {<<m, search.at>>, <<n, search.at>>}

\* Nothing is reported but the occurrence, where it is, and only if it lies in what
\* was to be searched and can be read: a chunk that cannot be read moves nothing
\* (layers.py:351-371).
ReportsAreTrue ==
    reports # {} =>
        /\ \A report \in reports : report[2] = search.at
        /\ \E range \in ranges : Occurs(range)
        /\ Readable(Section(search.at, Width))

\* An occurrence in a section, or in one mapped block, is reported exactly once,
\* wherever the chunks end, but for the end of a section that is searched again
\* (layers.py:322-348, 514-610, scanners/__init__.py:22-31).
ReportedOnceButForTheTail ==
    (stage = "sections" /\ ~yielded /\ Width <= Overlap + 1 /\ ReadableAround) =>
        IF \A range \in ranges : ~Occurs(range) THEN None(reports)
        ELSE IF ~search.translated /\ \E range \in ranges : Occurs(range) /\ Repeated(range)
        THEN Twice(reports)
        ELSE Once(reports)

\* Cutting what is scanned into overlapping chunks, over sections that are joined
\* and blocks that are not mapped, loses, invents and moves no match
\* (interfaces/layers.py:209-368, 514-610).
ScanFindsEachMatch ==
    CoalescingKeepsSections /\ ReportsAreTrue /\ ReportedOnceButForTheTail
=============================================================================
