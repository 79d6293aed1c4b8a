---------------------------- MODULE IntelPaging ----------------------------
(* Intel page tables: the walk from a virtual address to a physical one, and
   the mapping of a range built from it, with the shortcut over what is not
   mapped (volatility3/framework/layers/intel.py).

   Widths are small. A table holds 2^bits entries in a frame of its own. An
   entry is [kind, large, frame]; of kind "clear", "present", or one of those a
   system gives a meaning to: "transition" and "swapped" on Windows, "protnone"
   on Linux, whose frame is stored inverted. *)
EXTENDS Integers, FiniteSets, SequencesExt, Bitwise

CONSTANTS
  PageBits,     \* _page_size_in_bits
  Structure,    \* _structure: the levels, [bits, large] from the top one
  MaxFrame,     \* the last frame a physical address can name
  Register      \* _bits_per_register

ASSUME PagingAssumption ==
  /\ PageBits \in Nat \ {0} /\ MaxFrame \in Nat /\ Register \in Nat
  /\ \A i \in DOMAIN Structure : Structure[i].bits \in Nat \ {0} /\ Structure[i].large \in BOOLEAN

Smaller(a, b) == IF a <= b THEN a ELSE b

PageSize == 2^PageBits
VirtualBits == PageBits + FoldLeft(LAMBDA n, level : n + level.bits, 0, Structure)
MaximumAddress == 2^VirtualBits - 1

\* The bits of an address that address_mask keeps.
Active(addr) == addr % (MaximumAddress + 1)

-----------------------------------------------------------------------------
(* canonicalize and decanonicalize. *)

CanonicalPrefix == 2^Register - 2^VirtualBits

\* Mutant: the sign bit of an address is looked for one bit too high.
CanonicalizeHigh(addr) ==
  IF Register <= VirtualBits THEN Active(addr)
  ELSE IF addr < 2^VirtualBits THEN addr
  ELSE (addr % 2^(VirtualBits + 1)) + CanonicalPrefix

\* The mask keeps the bits up to VirtualBits itself, one more than an address has.
Canonicalize(addr) ==
  IF Register <= VirtualBits THEN Active(addr)
  ELSE IF addr < 2^(VirtualBits - 1) THEN addr
  ELSE (addr % 2^(VirtualBits + 1)) + CanonicalPrefix

\* XOR with the prefix turns every bit of a register above the address over.
Decanonicalize(addr) ==
  IF addr < 2^(VirtualBits - 1) THEN addr
  ELSE (addr % 2^VirtualBits)
         + (2^(Register - VirtualBits) - 1 - (addr \div 2^VirtualBits)) * 2^VirtualBits

-----------------------------------------------------------------------------
(* The walk. A layer is a record: its system, "plain", "windows" or "linux";
   tables, a function from the frames that hold a table to their entries; root,
   the frame of the first; and valid, the set of the pairs of a layer below and
   an address in it that hold data. *)

\* _page_is_valid of the three classes.
PageIsValid(layer, entry) ==
  \/ entry.kind = "present"
  \/ layer.system = "windows" /\ entry.kind = "transition"
  \/ layer.system = "linux" /\ entry.kind = "protnone"

\* _pte_pfn: LinuxMixin inverts the frame of a page without access.
PteFrame(layer, entry) ==
  IF layer.system = "linux" /\ entry.kind = "protnone" THEN MaxFrame - entry.frame ELSE entry.frame

\* _get_valid_table: no table where none can be read, and none where all the
\* entries are the same.
HasValidTable(layer, frame) ==
  /\ frame \in DOMAIN layer.tables
  /\ \E i, j \in DOMAIN layer.tables[frame] : layer.tables[frame][i] # layer.tables[frame][j]

\* Mutant: a large page ends the walk at the level below.
DescendTwice(layer, address, acc, level) ==
  LET position == acc.position - level.bits
      index == (address \div 2^(position + 1)) % 2^level.bits
      entry == layer.tables[acc.entry.frame][index]
  IN IF acc.at # "table" THEN acc
     ELSE IF ~PageIsValid(layer, acc.entry) \/ ~HasValidTable(layer, acc.entry.frame)
       THEN [acc EXCEPT !.at = "fault"]
     ELSE [at |-> IF level.large /\ entry.large THEN "page" ELSE "table",
           entry |-> entry, position |-> IF entry.large THEN position - 1 ELSE position]

\* One level of _translate_entry: acc.position is the number of the highest bit
\* of the address not used yet.
Descend(layer, address, acc, level) ==
  LET position == acc.position - level.bits
      index == (address \div 2^(position + 1)) % 2^level.bits
      entry == layer.tables[acc.entry.frame][index]
  IN IF acc.at # "table" THEN acc
     ELSE IF ~PageIsValid(layer, acc.entry) \/ ~HasValidTable(layer, acc.entry.frame)
       THEN [acc EXCEPT !.at = "fault"]
     ELSE [at |-> IF level.large /\ entry.large THEN "page" ELSE "table",
           entry |-> entry, position |-> position]

\* Mutant: an address is compared with the range as it is, not what is left of it.
InRangeUnmasked(page) == page <= MaximumAddress

\* The check at the head of _translate_entry. The mask is that of the range, so it
\* never fails.
InRange(page) == Active(page) <= MaximumAddress

\* _translate_entry: from the root, level by level. An address above the range goes
\* the way of its low bits.
Walk(layer, address) ==
  LET page == address - (address % PageSize)
      first == [at |-> IF InRange(page) THEN "table" ELSE "fault",
                entry |-> [kind |-> "present", large |-> FALSE, frame |-> layer.root],
                position |-> Smaller(VirtualBits, Register) - 1]
  IN FoldLeft(LAMBDA acc, level : Descend(layer, page, acc, level), first, Structure)

\* What the walk w of an address ends with: a fault with the bits it leaves invalid,
\* or the physical address and the size of the page it is in.
\* WindowsMixin._translate_swap finds a page in the swap layer, at the start of the
\* page wherever the address was.
Outcome(layer, w, address) ==
  LET size == 2^(w.position + 1)
  IN IF w.at # "fault" /\ PageIsValid(layer, w.entry)
       THEN [fault |-> FALSE, layer |-> "memory", size |-> size,
             address |-> PteFrame(layer, w.entry) * PageSize + (address % size)]
     ELSE IF layer.system = "windows" /\ w.entry.kind = "swapped"
       THEN [fault |-> FALSE, layer |-> "swap", size |-> size,
             address |-> w.entry.frame * size]
     ELSE [fault |-> TRUE, layer |-> "none", size |-> size, address |-> 0]

Translation(layer, address) == Outcome(layer, Walk(layer, address), address)

-----------------------------------------------------------------------------
(* The mapping of a range, in pieces [at, size, mapped, layer]. *)

Available(layer, t, size) ==
  \A a \in t.address..(t.address + size - 1) : <<t.layer, a>> \in layer.valid

\* Mutant: the offset inside of what is skipped is forgotten.
SkipWhole(t, chunk, offset) == IF t.fault THEN t.size ELSE chunk

\* How far _mapping moves on when there is nothing at offset: to the end of what
\* the fault leaves invalid, or, for a page that is not all there, of the chunk.
SkipLength(t, chunk, offset) ==
  LET skip_mask == IF t.fault THEN t.size - 1 ELSE chunk - 1
  IN skip_mask + 1 - (offset & skip_mask)

RECURSIVE MapRange(_, _, _, _)
\* _mapping at an offset, whose translation is t and whose chunk ends with the page
\* or the range.
MapChunk(layer, t, chunk, offset, length, ignore) ==
  IF ~t.fault /\ Available(layer, t, chunk)
    THEN LET piece == [at |-> offset, size |-> chunk, mapped |-> t.address, layer |-> t.layer]
         IN [MapRange(layer, offset + chunk, length - chunk, ignore) EXCEPT !.pieces = <<piece>> \o @]
  ELSE IF ignore
    THEN LET skip == SkipLength(t, chunk, offset)
         IN MapRange(layer, offset + skip, length - skip, ignore)
  ELSE [pieces |-> <<>>, raised |-> TRUE]

MapRange(layer, offset, length, ignore) ==
  LET t == Translation(layer, offset)
      chunk == Smaller(t.size - (offset % t.size), length)
  IN IF length <= 0 THEN [pieces |-> <<>>, raised |-> FALSE]
     ELSE MapChunk(layer, t, chunk, offset, length, ignore)

\* A range of no bytes at an address that is mapped is a piece of no bytes.
MapPoint(layer, t, offset, ignore) ==
  IF ~t.fault /\ Available(layer, t, 1)
    THEN [pieces |-> <<[at |-> offset, size |-> 0, mapped |-> t.address, layer |-> t.layer]>>,
          raised |-> FALSE]
  ELSE [pieces |-> <<>>, raised |-> ~ignore]

Mapped(layer, offset, length, ignore) ==
  IF length = 0 THEN MapPoint(layer, Translation(layer, offset), offset, ignore)
  ELSE MapRange(layer, offset, length, ignore)

\* Mutant: the page before is compared, not the piece that has grown.
StitchLast(pieces, p) ==
  LET s == pieces[Len(pieces)]
  IN IF /\ pieces # <<>>
        /\ s.at + s.size = p.at /\ s.mapped + PageSize = p.mapped /\ s.layer = p.layer
     THEN Append(Front(pieces), [s EXCEPT !.size = @ + p.size])
     ELSE Append(pieces, p)

\* mapping: neighbours in both layers become one piece.
Stitch(pieces, p) ==
  LET s == pieces[Len(pieces)]
  IN IF /\ pieces # <<>>
        /\ s.at + s.size = p.at /\ s.mapped + s.size = p.mapped /\ s.layer = p.layer
     THEN Append(Front(pieces), [s EXCEPT !.size = @ + p.size])
     ELSE Append(pieces, p)

\* Mutant: what cannot be mapped is passed over whoever asks.
MappingLenient(layer, offset, length, ignore) ==
  LET m == Mapped(layer, offset, length, TRUE)
  IN [m EXCEPT !.pieces = FoldLeft(Stitch, <<>>, @)]

PageMapping(layer, offset, length, ignore) ==
  LET m == Mapped(layer, offset, length, ignore)
  IN [m EXCEPT !.pieces = FoldLeft(Stitch, <<>>, @)]

-----------------------------------------------------------------------------
(* What a mapping says of single addresses. *)

\* Where the mapping puts an address: <<layer, physical>>, in a set.
Image(pieces, a) ==
  {<<pieces[i].layer, pieces[i].mapped + a - pieces[i].at>> :
     i \in {i \in DOMAIN pieces : pieces[i].at <= a /\ a < pieces[i].at + pieces[i].size}}

\* Where the walk puts it.
Backed(layer, a) ==
  LET t == Translation(layer, a)
  IN {p \in {<<t.layer, t.address>>} : ~t.fault /\ p \in layer.valid}
=============================================================================
