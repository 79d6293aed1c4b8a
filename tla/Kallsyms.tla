------------------------------ MODULE Kallsyms ------------------------------
(***************************************************************************)
(* The kernel's own symbol table as Volatility reads it from memory        *)
(* (framework/symbols/linux/kallsyms.py): the stream of compressed names,  *)
(* the arrays of addresses, of markers and of sequence numbers, and the    *)
(* symbols of modules.                                                     *)
(*                                                                         *)
(* A table k has the bytes of the stream (k.stream), the characters each   *)
(* byte of a name stands for (k.tokens), the entry of each symbol in       *)
(* kallsyms_offsets or kallsyms_addresses (k.raw, k.relative, k.base), the *)
(* place of every 2^MarkerBits-th symbol (k.markers), the symbols in the   *)
(* order of their names (k.seqs), and the bounds of the sections, _end     *)
(* among them. Symbols and offsets are counted from 0. The arrays          *)
(* themselves can be read;                                                 *)
(* `position` is where the reader of the stream was left.                  *)
(***************************************************************************)
EXTENDS Integers, Sequences, SequencesExt, FiniteSetsExt, TLC

CONSTANTS
  LenBits,      \* bits of a length byte that hold the length: 7
  MarkerBits    \* a marker for every 2^MarkerBits symbols: 8

NotFound == [found |-> FALSE]
NoOffset == -1          \* reading the stream raised
Unexpanded == [ok |-> FALSE]
NoType == 0

InStream(k, o) == o \in 0..Len(k.stream) - 1
ByteAt(k, o) == k.stream[o + 1]
IsBig(k, o) == ByteAt(k, o) >= 2^LenBits
SymbolCount(k) == Len(k.raw)

-----------------------------------------------------------------------------
(* Names. *)

\* Mutant: the second byte of a big symbol's length is the lower one.
CompressedLengthSwapped(k, o, p) ==
  IF IsBig(k, o) THEN (ByteAt(k, o) % 2^LenBits) * 2^LenBits + ByteAt(k, p)
  ELSE ByteAt(k, o)

\* The length byte is at o; p is where the upper byte of a big symbol is taken from.
CompressedLength(k, o, p) ==
  IF IsBig(k, o) THEN ByteAt(k, p) * 2^LenBits + (ByteAt(k, o) % 2^LenBits)
  ELSE ByteAt(k, o)

\* The first character is the type. No caller gives filters.
ExpandFrom(k, first, length) ==
  IF \E i \in 0..length - 1 : ~InStream(k, first + i) THEN Unexpanded
  ELSE LET text == FlattenSeq([i \in 1..length |-> k.tokens[ByteAt(k, first + i - 1)]])
       IN IF text = <<>> THEN [ok |-> TRUE, type |-> NoType, name |-> text, length |-> length]
          ELSE [ok |-> TRUE, type |-> Head(text), name |-> Tail(text), length |-> length]

ExpandSymbol(k, o) ==
  IF ~InStream(k, o) \/ (IsBig(k, o) /\ ~InStream(k, o + 1)) THEN Unexpanded
  ELSE ExpandFrom(k, o + (IF IsBig(k, o) THEN 2 ELSE 1), CompressedLength(k, o, o + 1))

\* Mutant: the markers are taken to be twice as far apart.
MarkerOfMore(index) == index \div 2^(MarkerBits + 1)

Marker(index) == index \div 2^MarkerBits

\* The offset of a symbol, from the nearest marker on: the upper byte of a big
\* symbol's length is read wherever the reader was left.
RECURSIVE SkipSymbols(_, _, _, _)
SkipSymbols(k, o, count, position) ==
  IF count = 0 THEN o
  ELSE IF ~InStream(k, o) \/ (IsBig(k, o) /\ ~InStream(k, position)) THEN NoOffset
  ELSE SkipSymbols(k, o + CompressedLength(k, o, position) + 1, count - 1,
                   IF IsBig(k, o) THEN position + 1 ELSE position)

SymbolOffset(k, index, position) ==
  SkipSymbols(k, k.markers[Marker(index) + 1], index % 2^MarkerBits, position)

-----------------------------------------------------------------------------
(* Addresses. *)

\* Offsets are absolute when they are positive and below the base otherwise.
AddressByIndex(k, index) ==
  LET raw == k.raw[index + 1]
  IN IF k.relative /\ raw < 0 THEN k.base - 1 - raw ELSE raw

RECURSIVE Bisect(_, _, _, _)
Bisect(k, address, low, high) ==
  LET mid == low + ((high - low) \div 2)
  IN IF high - low <= 1 THEN low
     ELSE IF AddressByIndex(k, mid) <= address THEN Bisect(k, address, mid, high)
     ELSE Bisect(k, address, low, mid)

\* Mutant: the last of the symbols at an address.
LastAlias(k, low) == low

RECURSIVE FirstAliasFrom(_, _)
FirstAliasFrom(k, low) ==
  IF low > 0 /\ AddressByIndex(k, low - 1) = AddressByIndex(k, low) THEN FirstAliasFrom(k, low - 1)
  ELSE low

FirstAlias(k, low) == FirstAliasFrom(k, low)

Within(bounds, address) == bounds[1] <= address /\ address < bounds[2]

\* Where the last symbol ends.
SectionEnd(k, address) == IF Within(k.inittext, address) THEN k.inittext[2] ELSE k.end

\* Mutant: the next symbol ends this one, wherever it is.
NextEnd(k, address, low) ==
  IF low + 1 < SymbolCount(k) THEN AddressByIndex(k, low + 1) ELSE SectionEnd(k, address)

SymbolEnd(k, address, low) ==
  LET later == {i \in low + 1..SymbolCount(k) - 1 :
                  AddressByIndex(k, i) > AddressByIndex(k, low)}
  IN IF later = {} THEN SectionEnd(k, address) ELSE AddressByIndex(k, Min(later))

SymbolPosAt(k, address, low) ==
  [index |-> low, size |-> SymbolEnd(k, address, low) - AddressByIndex(k, low)]

SymbolPos(k, address) ==
  SymbolPosAt(k, address, FirstAlias(k, Bisect(k, address, 0, SymbolCount(k))))

\* The answer, with the address of the symbol with one index and the size at it.
Symbol(k, expanded, index) ==
  [found |-> TRUE, name |-> expanded.name, type |-> expanded.type,
   address |-> AddressByIndex(k, index), size |-> SymbolPos(k, AddressByIndex(k, index)).size]

\* get_core_symbols: what cannot be expanded is passed over without moving on, and
\* a big symbol's second length byte is not counted.
RECURSIVE CoreSymbolsFrom(_, _, _)
CoreSymbolsFrom(k, o, index) ==
  LET e == ExpandSymbol(k, o)
  IN IF index = SymbolCount(k) THEN <<>>
     ELSE IF ~e.ok THEN CoreSymbolsFrom(k, o, index + 1)
     ELSE <<Symbol(k, e, index)>> \o CoreSymbolsFrom(k, o + e.length + 1, index + 1)
CoreSymbols(k) == CoreSymbolsFrom(k, 0, 0)

\* What is at an offset of the stream, for a lookup that has found it; reading it may
\* raise, which is NotFound here.
SymbolAt(k, o, index) ==
  LET e == ExpandSymbol(k, o) IN IF o # NoOffset /\ e.ok THEN Symbol(k, e, index) ELSE NotFound

CoreLookupAddress(k, address, position) ==
  IF Within(k.text, address) \/ Within(k.inittext, address)
    THEN LET pos == SymbolPos(k, address)
         IN [size |-> pos.size] @@ SymbolAt(k, SymbolOffset(k, pos.index, position), pos.index)
  ELSE NotFound

-----------------------------------------------------------------------------
(* Symbols by name. Names are compared character by character. *)

Precedes(a, b) ==
  \/ Len(a) < Len(b) /\ IsPrefix(a, b)
  \/ \E i \in DOMAIN a \cap DOMAIN b :
       a[i] < b[i] /\ SubSeq(a, 1, i - 1) = SubSeq(b, 1, i - 1)

\* _core_lookup_name_slow. Where a name cannot be read it raises: here, NotFound.
LookupNameSlow(k, name) ==
  LET all == CoreSymbols(k)
      found == {i \in DOMAIN all : all[i].name = name}
  IN IF found = {} THEN NotFound ELSE all[Min(found)]

NameByIndex(k, index, position) ==
  ExpandSymbol(k, SymbolOffset(k, k.seqs[index + 1], position)).name

RECURSIVE SearchNames(_, _, _, _, _)
SearchNames(k, name, low, high, position) ==
  LET mid == (low + high) \div 2
      there == NameByIndex(k, mid, position)
  IN IF low > high THEN NoOffset
     ELSE IF there = name THEN mid
     ELSE IF Precedes(there, name) THEN SearchNames(k, name, mid + 1, high, position)
     ELSE SearchNames(k, name, low, mid - 1, position)

\* Mutant: the one that was met, of those that have the name.
AnyOfName(k, name, low, position) == low

\* The first of those that have the name; one that is the first of all names is
\* never answered.
RECURSIVE FirstOfNameFrom(_, _, _, _)
FirstOfNameFrom(k, name, low, position) ==
  IF low <= 0 THEN NoOffset
  ELSE IF NameByIndex(k, low - 1, position) # name THEN low
  ELSE FirstOfNameFrom(k, name, low - 1, position)

FirstOfName(k, name, low, position) == FirstOfNameFrom(k, name, low, position)

LookupNameIndex(k, name, position) ==
  FirstOfName(k, name, SearchNames(k, name, 0, SymbolCount(k) - 1, position), position)

\* _core_lookup_name_fast.
LookupNameFast(k, name, position) ==
  LET index == LookupNameIndex(k, name, position)
      seq == k.seqs[index + 1]
  IN IF index = NoOffset THEN NotFound ELSE SymbolAt(k, SymbolOffset(k, seq, position), seq)

\* _search_kernel_symbol_object_by_name: the place of a name among the exported
\* ones, which are sorted, or -1.
RECURSIVE SearchExported(_, _, _, _)
SearchExported(names, name, base, count) ==
  LET pivot == base + (count \div 2)
  IN IF count <= 0 THEN NoOffset
     ELSE IF names[pivot + 1] = name THEN pivot
     ELSE IF Precedes(names[pivot + 1], name)
       THEN SearchExported(names, name, pivot + 1, (count - 1) \div 2)
     ELSE SearchExported(names, name, base, count \div 2)
=============================================================================
