------------------------------ MODULE Segments ------------------------------
(***************************************************************************)
(* A dump whose layer maps runs of addresses onto a file: how the LiME and *)
(* the AVML layer fill the table of segments, and how a read finds its way *)
(* through it (volatility3/framework/layers/lime.py, avml.py,              *)
(* segmented.py, linear.py, physical.py).                                  *)
(*                                                                         *)
(* A behaviour loads one dump and reads it once.  Writes are left out: the *)
(* file of a dump is opened for reading, and its layer writes nothing.     *)
(***************************************************************************)
EXTENDS Integers, Sequences

CONSTANTS
    Dumps,       \* the files that may be loaded
    Requests     \* the reads that may be asked for

HeaderSize == 32      \* struct <IIQQQ of both formats
FrameHeader == 4      \* struct <L
CrcLength == 4
Trailer == 8          \* what follows the frames of an AVML range

Lesser(a, b) == IF a <= b THEN a ELSE b

-----------------------------------------------------------------------------
(* A file has the offsets 0..last, and ranges that stand one behind the other, each
   a header at "at" (right if good) for the addresses start..end and what it
   holds of them: for LiME the bytes; for AVML a stream of frames, each with its
   place and size in the stream (behind its own header, with its checksum), and the
   place and number of the bytes it decodes to. *)

FrameTypes == {"identifier", "plain", "compressed", "skippable", "unskippable"}
Frames == [type : FrameTypes, at : Nat, size : Nat, before : Nat, out : Nat]
Ranges == [at : Nat, good : BOOLEAN, start : Nat, end : Nat, frames : Seq(Frames)]

HasData(f) == f.type \in {"plain", "compressed"}

StreamLength(r) ==
    LET f == r.frames[Len(r.frames)] IN f.at + FrameHeader + f.size

\* Where the next range stands.
Behind(d, r) ==
    r.at + HeaderSize
      + (IF d.avml THEN StreamLength(r) + Trailer ELSE IF r.start <= r.end THEN r.end - r.start + 1 ELSE 0)

\* Frames of data, the last one among them, that decode to the addresses of the range.
GoodStream(r) ==
    LET n == Len(r.frames) IN
    /\ n > 0 /\ r.frames[1].at = 0 /\ r.frames[1].before = 0
    /\ \A j \in 1..n - 1 :
          /\ r.frames[j + 1].at = r.frames[j].at + FrameHeader + r.frames[j].size
          /\ r.frames[j + 1].before = r.frames[j].before + r.frames[j].out
    /\ \A j \in 1..n :
          LET f == r.frames[j] IN
          /\ IF HasData(f) THEN f.size > CrcLength /\ f.out > 0 ELSE f.out = 0
          /\ f.type = "plain" => f.out = f.size - CrcLength
    /\ HasData(r.frames[n])
    /\ r.end = r.start + r.frames[n].before + r.frames[n].out - 1

\* The ranges of an AVML file are in the order of their addresses; a LiME file is
\* checked for that when it is loaded.
ASSUME DumpAssumption ==
    \A d \in Dumps :
        /\ d.avml \in BOOLEAN /\ d.last \in Nat /\ d.ranges \in Seq(Ranges)
        /\ d.ranges # <<>> => d.ranges[1].at = 0
        /\ \A k \in 1..Len(d.ranges) - 1 : d.ranges[k + 1].at = Behind(d, d.ranges[k])
        /\ d.avml => /\ \A k \in 1..Len(d.ranges) : GoodStream(d.ranges[k])
                     /\ \A k \in 1..Len(d.ranges) - 1 : d.ranges[k].end < d.ranges[k + 1].start

ASSUME RequestAssumption ==
    \A r \in Requests : r.at \in Nat /\ r.length \in Nat \ {0} /\ r.pad \in BOOLEAN

VARIABLES
    dump,        \* the file
    phase,       \* the loop that runs, or how the load or the read ended
    offset,      \* where the loader is in the file
    loaded,      \* how many ranges it has loaded
    maxaddr,     \* LiME: the last address of the range before
    consumed,    \* AVML: where the loader is in the stream
    framed,      \* AVML: how many frames of it are read
    decoded,     \* AVML: decompressed_len
    segments,    \* _segments: [at, mapped, size, msize], msize bytes from mapped on
    request,     \* what is read: length bytes from at on, with holes padded or not
    current,     \* current_offset
    recovered    \* what was read so far

loadVars == <<offset, loaded, maxaddr, consumed, framed, decoded, segments>>
readVars == <<request, current, recovered>>
segmentVars == <<dump, phase, loadVars, readVars>>

NoRequest == [at |-> 0, length |-> 1, pad |-> FALSE]

LoadStart ==
    /\ phase = (IF dump.avml THEN "avml" ELSE "lime")
    /\ offset = 0 /\ loaded = 0 /\ maxaddr = 0
    /\ consumed = 0 /\ framed = 0 /\ decoded = 0 /\ segments = <<>>
    /\ request = NoRequest /\ current = 0 /\ recovered = <<>>

SegmentInit == dump \in Dumps /\ LoadStart

Segment(at, mapped, size, msize) == [at |-> at, mapped |-> mapped, size |-> size, msize |-> msize]
Stop(s) == s.at + s.size

\* FileLayer.is_valid.
InFile(at, length) == 0 <= at /\ at + length - 1 <= dump.last

NextRange == dump.ranges[loaded + 1]
HeaderHere ==
    /\ InFile(offset, HeaderSize) /\ loaded < Len(dump.ranges)
    /\ NextRange.at = offset /\ NextRange.good

-----------------------------------------------------------------------------
(* LimeLayer._load_segments. *)

\* Mutant: ranges are taken in any order.
AnyRange(r, least) == r.end < r.start

\* "Bad start/end": an address may be shared with the range before.
BadRange(r, least) == r.start < least \/ r.end < r.start

LoadLime ==
    /\ phase = "lime" /\ offset < dump.last
    /\ \/ /\ HeaderHere /\ ~BadRange(NextRange, maxaddr)
          /\ LET length == NextRange.end - NextRange.start + 1 IN
             /\ segments' = Append(segments, Segment(NextRange.start, offset + HeaderSize, length, length))
             /\ offset' = offset + HeaderSize + length
          /\ maxaddr' = NextRange.end /\ loaded' = loaded + 1
          /\ UNCHANGED phase
       \/ /\ ~HeaderHere \/ BadRange(NextRange, maxaddr)
          /\ phase' = "LimeFormatException"
          /\ UNCHANGED <<segments, offset, maxaddr, loaded>>
    /\ UNCHANGED <<dump, consumed, framed, decoded, readVars>>

LimeEnds ==
    /\ phase = "lime" /\ offset >= dump.last
    /\ phase' = IF segments = <<>> THEN "LimeFormatException" ELSE "loaded"
    /\ UNCHANGED <<dump, loadVars, readVars>>

-----------------------------------------------------------------------------
(* AVMLLayer._load_segments and _read_snappy_frames. *)

\* Mutant: a stream is given all of the bytes that belong to it.
WholeStream == StreamLength(NextRange)

\* No more of the file is given to the frames than the range is long in memory.
DataLength == Lesser(NextRange.end - NextRange.start, dump.last - (offset + HeaderSize))

OpenRange ==
    /\ phase = "avml" /\ offset + 4 < dump.last
    /\ \/ /\ HeaderHere /\ DataLength > 0
          /\ phase' = "frames" /\ consumed' = 0 /\ framed' = 0 /\ decoded' = 0
       \/ /\ ~HeaderHere \/ DataLength <= 0
          /\ phase' = "error" /\ UNCHANGED <<consumed, framed, decoded>>
    /\ UNCHANGED <<dump, offset, loaded, maxaddr, segments, readVars>>

Wanted == decoded <= NextRange.end - NextRange.start

\* The loop makes no step, and never ends, when the data end before it has decoded
\* more than was expected.
Spins == phase = "frames" /\ Wanted /\ consumed + FrameHeader >= DataLength

\* A plain frame is cut where the data end; what cannot be decoded raises.
ReadFrame ==
    LET f == NextRange.frames[framed + 1]
        whole == consumed + FrameHeader + f.size <= DataLength
        rest == DataLength - (consumed + FrameHeader + CrcLength)
        out == IF whole THEN f.out ELSE IF f.type = "plain" /\ rest > 0 THEN rest ELSE 0
        fails == f.type = "unskippable" \/ (f.type \in {"identifier", "compressed"} /\ ~whole)
        mapped == offset + HeaderSize + consumed + FrameHeader + CrcLength
    IN  /\ phase = "frames" /\ Wanted /\ consumed + FrameHeader < DataLength
        /\ framed < Len(NextRange.frames)
        /\ \/ fails /\ phase' = "error" /\ UNCHANGED <<segments, consumed, framed, decoded>>
           \/ /\ ~fails
              /\ segments' =
                   IF HasData(f)
                   THEN Append(segments,
                               Segment(NextRange.start + decoded, mapped, out, f.size - CrcLength))
                   ELSE segments
              /\ consumed' = consumed + FrameHeader + f.size
              /\ framed' = framed + 1 /\ decoded' = decoded + out
              /\ UNCHANGED phase
        /\ UNCHANGED <<dump, offset, loaded, maxaddr, readVars>>

RangeEnds ==
    /\ phase = "frames" /\ ~Wanted
    /\ phase' = "avml" /\ loaded' = loaded + 1
    /\ offset' = offset + HeaderSize + consumed + Trailer
    /\ UNCHANGED <<dump, maxaddr, consumed, framed, decoded, segments, readVars>>

AvmlEnds ==
    /\ phase = "avml" /\ offset + 4 >= dump.last
    /\ phase' = "loaded"
    /\ UNCHANGED <<dump, loadVars, readVars>>

-----------------------------------------------------------------------------
(* NonLinearlySegmentedLayer.mapping and the read that takes its pieces. *)

BeginRead ==
    /\ phase = "loaded" /\ phase' = "mapping"
    /\ request' \in Requests /\ current' = request'.at
    /\ UNCHANGED <<dump, loadVars, recovered>>

\* Mutant: bisect_left, which a segment that begins at the place does not precede.
PrecedesStrictly(s, place) == s.at < place

\* A four-tuple whose first two fields equal (place, last) is the larger of the two,
\* so a segment that begins at the place with the last byte of the file does not
\* precede it.
Precedes(s, place) == s.at < place \/ (s.at = place /\ s.mapped < dump.last)

\* bisect_right on a table that is sorted.
Rightmost(place) ==
    CHOOSE i \in 0..Len(segments) :
        \A k \in 1..Len(segments) : Precedes(segments[k], place) <=> k <= i

Until == request.at + request.length

\* _find_segment finds one that contains the place, or, where holes are passed over,
\* the one behind it, if that does not begin too late.
Contained(place) == LET i == Rightmost(place) IN i > 0 /\ place < Stop(segments[i])
Later(place) ==
    LET i == Rightmost(place) IN i < Len(segments) /\ segments[i + 1].at <= Until

\* Mutant: the offset in a segment is not followed in the file.
MappedAtStart(s, place) == s.mapped

\* Tracked by SegmentedLayer; a frame is decoded from its beginning.
MappedAt(s, place) == IF dump.avml THEN s.mapped ELSE s.mapped + place - s.at

\* Mutant: the decoded frame is not cut at the place asked for.
UncutBytes(s, place, length) ==
    [k \in 1..length |-> IF dump.avml THEN [from |-> s.mapped, index |-> k - 1]
                         ELSE [from |-> MappedAt(s, place) + k - 1, index |-> 0]]

\* A byte of the file is known by its offset, a decoded one by where its frame is
\* and its index in it.
Bytes(s, place, length) ==
    [k \in 1..length |-> IF dump.avml THEN [from |-> s.mapped, index |-> place - s.at + k - 1]
                         ELSE [from |-> MappedAt(s, place) + k - 1, index |-> 0]]

Zero == [from |-> -1, index |-> 0]
Zeros(n) == [k \in 1..n |-> Zero]

\* One piece of the mapping is read: all of it or nothing.  A piece that is not all
\* in the file raises, padded or not (physical.py:155-163).
Take(s, place) ==
    LET length == Lesser(Stop(s) - place, Until - place)
        msize == IF dump.avml THEN s.msize ELSE length
    IN  \/ /\ msize > 0 => InFile(MappedAt(s, place), msize)
           /\ recovered' = recovered \o Zeros(place - current) \o Bytes(s, place, length)
           /\ current' = place + length
           /\ phase' = IF current' >= Until THEN "returned" ELSE phase
        \/ /\ msize > 0 /\ ~InFile(MappedAt(s, place), msize)
           /\ phase' = "raised" /\ UNCHANGED <<recovered, current>>

ReadSegment ==
    LET i == Rightmost(current) IN
    /\ phase = "mapping"
    /\ \/ Contained(current) /\ Take(segments[i], current)
       \/ ~Contained(current) /\ request.pad /\ Later(current)
            /\ Take(segments[i + 1], segments[i + 1].at)
    /\ UNCHANGED <<dump, loadVars, request>>

\* Nothing is there: the rest is padded, or the read raises.
ReadHole ==
    /\ phase = "mapping" /\ ~Contained(current)
    /\ \/ /\ request.pad /\ ~Later(current)
          /\ phase' = "returned" /\ recovered' = recovered \o Zeros(Until - current)
       \/ /\ ~request.pad
          /\ phase' = "raised" /\ UNCHANGED recovered
    /\ UNCHANGED <<dump, loadVars, request, current>>

SegmentNext ==
    \/ LoadLime \/ LimeEnds
    \/ OpenRange \/ ReadFrame \/ RangeEnds \/ AvmlEnds
    \/ BeginRead \/ ReadSegment \/ ReadHole

SegmentSpec == SegmentInit /\ [][SegmentNext]_segmentVars
-----------------------------------------------------------------------------
(* What is right. *)

IsLoaded == phase \in {"loaded", "mapping", "returned", "raised"}

\* The ranges whose headers the loader gets to, and where the last one ends.
Reached(d, k) ==
    LET at == d.ranges[k].at IN IF d.avml THEN at + 4 < d.last ELSE at < d.last
Described(d) ==
    IF d.ranges = <<>> THEN 0 ELSE Behind(d, d.ranges[Len(d.ranges)])

\* A LiME dump that is cut off inside of a range loads; an AVML range has to be there,
\* and to take fewer bytes in the file than in memory.
RangeLoads(d, k) ==
    LET r == d.ranges[k] IN
    /\ r.good /\ r.at + HeaderSize - 1 <= d.last
    /\ IF d.avml
       THEN /\ \A j \in 1..Len(r.frames) : r.frames[j].type # "unskippable"
            /\ StreamLength(r) <= Lesser(r.end - r.start, d.last - (r.at + HeaderSize))
       ELSE /\ r.start <= r.end
            /\ k > 1 => d.ranges[k - 1].end <= r.start

Loadable(d) ==
    /\ \A k \in 1..Len(d.ranges) : Reached(d, k) => RangeLoads(d, k)
    /\ IF d.avml THEN Described(d) + 4 >= d.last
       ELSE d.last > 0 /\ Described(d) >= d.last

\* A dump is loaded when every header that is reached is right, is where the range
\* before it ended, and its range fits, and only then; an AVML dump whose range does
\* not compress is never loaded and never refused (lime.py:37-89, avml.py:100-197).
LoadsWhatIsSound ==
    /\ IsLoaded => Loadable(dump)
    /\ phase \in {"LimeFormatException", "error"} \/ Spins => ~Loadable(dump)

FrameSegment(r, f) ==
    Segment(r.start + f.before, r.at + HeaderSize + f.at + FrameHeader + CrcLength,
            f.out, f.size - CrcLength)
Stored(d, r) ==
    IF d.avml
    THEN {FrameSegment(r, r.frames[j]) : j \in {j \in 1..Len(r.frames) : HasData(r.frames[j])}}
    ELSE {Segment(r.start, r.at + HeaderSize, r.end - r.start + 1, r.end - r.start + 1)}

\* What the file holds of an address, in any range; only where ranges share an
\* address it is more than one.
Holding(d, a) ==
    {s \in UNION {Stored(d, d.ranges[k]) : k \in {k \in 1..Len(d.ranges) : Reached(d, k)}} :
       s.at <= a /\ a < Stop(s)}

ByteOf(d, s, a) ==
    IF d.avml THEN [from |-> s.mapped, index |-> a - s.at]
    ELSE [from |-> s.mapped + a - s.at, index |-> 0]
OnFile(d, s, a) == d.avml \/ s.mapped + a - s.at <= d.last

\* Each byte that was read is the one the file holds for its address, and padding
\* only where it holds none.
RecoveredIsRight ==
    \A k \in 1..Len(recovered) :
        LET a == request.at + k - 1 IN
        \/ recovered[k] = Zero /\ request.pad /\ Holding(dump, a) = {}
        \/ \E s \in Holding(dump, a) : OnFile(dump, s, a) /\ recovered[k] = ByteOf(dump, s, a)

\* Of what is still to be read, a range holds an address and the file was cut off before
\* its byte.
CutOff ==
    \E a \in request.at + Len(recovered)..Until - 1 :
        \E s \in Holding(dump, a) : ~OnFile(dump, s, a)

\* A read ends with a byte for every address, or because of one that is not there: one
\* that is cut off, which the file's layer does not pad even when it is asked to,
\* against interfaces/layers.py:163-165; or, in a read that does not pad, one that is in
\* no range.  The one exception is a range that begins with the last byte of the file
\* (segmented.py:71).
RaisedForAReason ==
    LET next == request.at + Len(recovered) IN
    /\ next < Until
    /\ \/ CutOff
       \/ /\ ~request.pad
          /\ \/ Holding(dump, next) = {}
             \/ \E s \in Holding(dump, next) : s.at = next /\ s.mapped = dump.last

\* A dump in segments is loaded when its headers are right, and a read of it then gives
\* for each address the byte that the file holds, or raises for one that is not there;
\* with padding only for one that the file was cut off before (segmented.py:60-187,
\* linear.py:40-67, avml.py:199-209, physical.py:153-175).
SegmentsReadTheFile ==
    /\ LoadsWhatIsSound
    /\ phase \in {"mapping", "returned", "raised"} => RecoveredIsRight
    /\ phase = "returned" => Len(recovered) = request.length
    /\ phase = "raised" => RaisedForAReason
=============================================================================
