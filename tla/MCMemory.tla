------------------------------ MODULE MCMemory ------------------------------
(* Evaluates how Volatility reads and searches memory: a behaviour is a search of a
   layer, a LiME or AVML dump that is loaded and read, or one page table or address. *)
EXTENDS LayerScan, Segments, IntelPaging

CONSTANTS
  MCReach,     \* the sections lie in 0..MCReach
  MCLength     \* the longest layer that is scanned

VARIABLE input

\* A level whose entries are tables, one that may have large pages, and one of
\* pages.
MCStructure == <<[bits |-> 1, large |-> FALSE], [bits |-> 1, large |-> TRUE],
                 [bits |-> 1, large |-> FALSE]>>

-----------------------------------------------------------------------------
(* Searches: up to three sections; one section and every place of the occurrence,
   with a byte that cannot be read or none; and the same where up to two blocks of
   the section are mapped. *)

MCSections == {s \in [start : 0..MCReach, length : 0..MCReach] : End(s) <= MCReach}

Ask(list, least, most, at, holes, translated) ==
  [sections |-> list, minimum |-> least, maximum |-> most, at |-> at,
   unreadable |-> holes, translated |-> translated]

MCSearch ==
  {Ask(list, a, b, 3, {}, FALSE) :
     list \in {l \in BoundedSeq(MCSections, 3) : Ascending(l)},
     a \in {0, 2}, b \in {MCReach - 2, MCReach}}
  \cup {Ask(<<Section(at, n)>>, 0, 100, p, holes, FALSE) :
          at \in {0, 3}, n \in 0..MCLength, p \in 0..MCLength + 3, holes \in {{}, {4}}}
  \cup {Ask(<<Section(0, 16)>>, 0, 100, p, holes, TRUE) :
          p \in 0..15, holes \in {{}, {6}}}

MCIdle == Ask(<<Section(3, 0)>>, 0, 100, 0, {}, FALSE)

MCMappings ==
  {l \in BoundedSeq([start : 0..9, length : 1..7], 2) :
     \A i \in 1..Len(l) - 1 : End(l[i]) <= l[i + 1].start}

-----------------------------------------------------------------------------
(* Files. *)

\* Ranges one behind the other, and frames in a range.
LayOut(d) ==
  LET Put(list, r) ==
        Append(list, [r EXCEPT !.at = IF list = <<>> THEN 0 ELSE Behind(d, list[Len(list)])])
  IN FoldLeft(Put, <<>>, d.ranges)

Cut(d, n) ==
  LET list == LayOut(d)
      top == Behind(d, list[Len(list)]) - 1
  IN [avml |-> d.avml, ranges |-> list, last |-> IF n <= top THEN top - n ELSE 0]

LimeRange(good, first, final) ==
  [at |-> 0, good |-> good, start |-> first, end |-> final, frames |-> <<>>]

MCLimes ==
  LET range == {LimeRange(g, a, b) : g \in BOOLEAN, a \in {0, 2, 4, 5, 9}, b \in {1, 4, 6, 10}} IN
  {Cut([avml |-> FALSE, ranges |-> l], n) :
     l \in {l \in BoundedSeq(range, 2) : l # <<>>}, n \in {0, 1, 2, 3, 20, 34, 36, 40}}

F(type, size, out) == [type |-> type, at |-> 0, size |-> size, before |-> 0, out |-> out]
Identifier == F("identifier", 6, 0)
Plain(n) == F("plain", CrcLength + n, n)
Compressed(n) == F("compressed", CrcLength + n, 20 * n)

AvmlRange(first, frames) ==
  LET Put(list, f) ==
        LET g == list[Len(list)] IN
        Append(list, IF list = <<>> THEN f
                     ELSE [f EXCEPT !.at = g.at + FrameHeader + g.size, !.before = g.before + g.out])
      list == FoldLeft(Put, <<>>, frames)
      g == list[Len(list)]
  IN [at |-> 0, good |-> TRUE, start |-> first, end |-> first + g.before + g.out - 1, frames |-> list]

MCAvmls ==
  LET frame == {Identifier, F("skippable", 2, 0), F("unskippable", 2, 0),
                Plain(3), Plain(40), Compressed(2), Compressed(3)} IN
  {Cut([avml |-> TRUE, ranges |-> <<AvmlRange(0, <<Identifier>> \o f),
                                    AvmlRange(500, <<Identifier, g>>)>>], n) :
     f \in {f \in BoundedSeq(frame, 2) : f # <<>> /\ HasData(f[Len(f)])},
     g \in {Compressed(2), Plain(4)}, n \in {0, 8, 20, 38}}

MCDumps == MCLimes \cup MCAvmls

MCRequests ==
  [at : 0..10 \cup {38, 60, 499, 500, 538}, length : {1, 2, 3, 4, 30}, pad : BOOLEAN]

MCNoDump == [avml |-> FALSE, ranges |-> <<>>, last |-> 0]

-----------------------------------------------------------------------------
(* Page tables: the root in frame 8, two tables of the second level, and two of
   the third; every frame is of two bytes. *)

E(kind, large, frame) == [kind |-> kind, large |-> large, frame |-> frame]
Clear == E("clear", FALSE, 0)
Table(f) == E("present", FALSE, f)

\* What the layers below hold: all, or all but some frames; or the file ends
\* inside of a page.
Held == {({"memory", "swap"} \X (0..31)) \ ({"memory"} \X missing) :
           missing \in {{}, 0..3, 8..11, 7..31}}

Paged ==
  LET middle == {Clear, Table(10), Table(11), E("present", TRUE, 2), E("present", TRUE, 4)}
      leaf == {Clear, E("swapped", FALSE, 1)}
                \cup {E(k, FALSE, f) : k \in {"present", "transition", "protnone"}, f \in {0, 1}}
  IN \E s \in {"plain", "windows", "linux"}, r \in {Clear, Table(9)}, m, m2 \in middle, l \in leaf,
        v \in Held, o \in {0, 1, 3, 9, 22}, n \in {0, 1, 2, 5, 8, 18} :
       input = [what |-> "paged", offset |-> o, length |-> n,
                layer |-> [system |-> s, root |-> 8, valid |-> v,
                  tables |-> (8 :> [i \in 0..1 |-> IF i = 0 THEN r ELSE Table(9)])
                             @@ (9 :> [i \in 0..1 |-> IF i = 0 THEN m ELSE m2])
                             @@ (10 :> [i \in 0..1 |-> IF i = 0 THEN l ELSE E("present", FALSE, 3)])
                             @@ (11 :> [i \in 0..1 |-> l])]]

Address == \E a \in 0..2^Register - 1 : input = [what |-> "address", of |-> a]

\* A behaviour is a search, a dump, or one input of the pure operators.
Init ==
  \/ input = [what |-> "search"] /\ ScanInit /\ dump = MCNoDump /\ LoadStart
  \/ input = [what |-> "dump"] /\ SegmentInit /\ search = MCIdle /\ ScanStart
  \/ (Paged \/ Address) /\ search = MCIdle /\ ScanStart /\ dump = MCNoDump /\ LoadStart

Searched == (stage = "sections" /\ ~yielded /\ scanned = Len(result)) \/ stage = "IndexError"
Ended == phase \in {"LimeFormatException", "error", "returned", "raised"} \/ Spins

Next ==
  /\ UNCHANGED input
  /\ \/ input.what = "search" /\ ScanNext /\ UNCHANGED segmentVars
     \/ input.what = "dump" /\ SegmentNext /\ UNCHANGED scanVars
     \/ /\ input.what = "search" => Searched
        /\ input.what = "dump" => Ended
        /\ UNCHANGED <<scanVars, segmentVars>>

-----------------------------------------------------------------------------
(* Page tables. *)

PagedEnd == input.offset + input.length - 1
Pieces(ignore) == PageMapping(input.layer, input.offset, input.length, ignore)

\* The layer below holds every page in full or not at all.
WholePages ==
  \A g \in 0..7 : \/ {"memory"} \X (4 * g..4 * g + 3) \subseteq input.layer.valid
                 \/ ({"memory"} \X (4 * g..4 * g + 3)) \cap input.layer.valid = {}

InSwap(a) == Translation(input.layer, a).layer = "swap"

\* The frame of an address, level by level as the processor finds it from the bits
\* the levels are looked up by; no frame under a table whose entries are all alike.
\* In a set, empty for a fault.
Frame1(e) == IF e.kind = "protnone" THEN MaxFrame - e.frame ELSE e.frame
Present(e) == \/ e.kind = "present"
              \/ e.kind = "transition" /\ input.layer.system = "windows"
              \/ e.kind = "protnone" /\ input.layer.system = "linux"
Uniform(f) == input.layer.tables[f][0] = input.layer.tables[f][1]
Architectural(a) ==
  LET e4 == input.layer.tables[8][(a \div 8) % 2]
      e3 == input.layer.tables[e4.frame][(a \div 4) % 2]
      e2 == input.layer.tables[e3.frame][(a \div 2) % 2]
  IN IF Uniform(8) \/ ~Present(e4) \/ Uniform(e4.frame) \/ ~Present(e3)
       THEN {}
     ELSE IF e3.large THEN {Frame1(e3) * 2 + (a % 4)}
     ELSE IF Uniform(e3.frame) \/ ~Present(e2) THEN {} ELSE {Frame1(e2) * 2 + (a % 2)}

\* The walk in positions and masks finds the address a processor would, in every
\* class of layer, whatever level it ends or fails at (intel.py:155-267). No address
\* is refused for lying above the range, where a processor would refuse all but
\* the canonical ones: it translates as its low bits do.
WalkIsArchitectural ==
  input.what = "paged" =>
    \A a \in 0..(2 * MaximumAddress + 1) :
      LET t == Translation(input.layer, a)
      IN (IF t.layer = "memory" THEN {t.address} ELSE {}) = Architectural(a)

\* A mapping that ignores errors never leaves out, invents or moves an address
\* however it skips, as long as the pages of the layer below are there in full
\* or not at all (intel.py:380-436). A range that runs over the end of the address
\* space goes on at its beginning.
MappedExactly ==
  (input.what = "paged" /\ WholePages) =>
    LET m == Pieces(TRUE)
    IN /\ ~m.raised
       /\ \A a \in input.offset..PagedEnd :
            ~InSwap(a) => Image(m.pieces, a) = Backed(input.layer, a)

\* Without ignoring errors the mapping raises exactly when a byte of the range,
\* or the address of an empty one, is not backed, and otherwise agrees with the
\* one that does.
StrictRaises ==
  (input.what = "paged" /\ WholePages) =>
    LET m == Pieces(FALSE)
    IN /\ m.raised <=> \E a \in {input.offset} \cup (input.offset..PagedEnd) :
                         Backed(input.layer, a) = {}
       /\ ~m.raised => m = Pieces(TRUE)

Maximal(p) ==
  \A i \in 1..Len(p) - 1 :
    /\ p[i].at + p[i].size <= p[i + 1].at
    /\ p[i].at + p[i].size = p[i + 1].at =>
         \/ p[i].layer # p[i + 1].layer
         \/ p[i].mapped + p[i].size # p[i + 1].mapped

\* The pieces are in order and as long as can be: none continues the one before
\* it in both layers (intel.py:324-378).
StitchedMaximal == input.what = "paged" => Maximal(Pieces(TRUE).pieces)

\* Canonical form and its inverse: every address of the layer comes back, its
\* canonical form extends its top bit, and Decanonicalize brings nothing but
\* canonical addresses into the layer (intel.py:138-153).
CanonicalForms ==
  input.what = "address" =>
    LET a == input.of
        top == (a \div 2^(VirtualBits - 1)) % 2
        canonical == a \div 2^(VirtualBits - 1) \in {0, 2^(Register - VirtualBits + 1) - 1}
    IN /\ a <= MaximumAddress =>
            /\ Decanonicalize(Canonicalize(a)) = a
            /\ Canonicalize(a) = a + top * CanonicalPrefix
       /\ canonical <=> /\ Decanonicalize(a) <= MaximumAddress
                        /\ Canonicalize(Decanonicalize(a)) = a

-----------------------------------------------------------------------------
\* Translating one address or mapping a range finds the bytes the processor would,
\* in pieces that are in order and joined (intel.py:138-436).
PagesAreArchitectural ==
  /\ WalkIsArchitectural /\ MappedExactly /\ StrictRaises
  /\ StitchedMaximal /\ CanonicalForms
=============================================================================
