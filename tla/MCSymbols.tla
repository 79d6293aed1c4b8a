------------------------------ MODULE MCSymbols ------------------------------
(* What TLC gives the operators of Kallsyms and KernelModules, and what their
   answers are held against. *)
EXTENDS Kallsyms, KernelModules, MCInput

-----------------------------------------------------------------------------
(* A table of symbols [name, at], in the order of their addresses. A name is its
   type and up to two letters; byte 2 stands for two letters at once, so that a
   name of three characters takes two bytes or three. *)

MCTokens == [b \in 0..2^LenBits * 2 - 1 |->
               CASE b = 0 -> <<1>> [] b = 1 -> <<2>> [] b = 2 -> <<1, 2>> [] OTHER -> <<b>>]

\* The bytes of one symbol, with the length in one byte or, from 2^LenBits on, two.
Encoded(bytes) ==
  (IF Len(bytes) < 2^LenBits THEN <<Len(bytes)>>
   ELSE <<2^LenBits + (Len(bytes) % 2^LenBits), Len(bytes) \div 2^LenBits>>) \o bytes

NameOf(bytes) == FlattenSeq([i \in DOMAIN bytes |-> MCTokens[bytes[i]]])
Before(a, b) == Precedes(Tail(NameOf(a)), Tail(NameOf(b)))

\* The order in which the kernel sorts symbols of these names: by name, and by
\* index where names are equal.
Sorted(names) ==
  SortSeq([i \in DOMAIN names |-> i - 1],
          LAMBDA i, j : \/ Before(names[i + 1], names[j + 1])
                        \/ i < j /\ ~Before(names[j + 1], names[i + 1]))

MCNames == {<<1, 0>>, <<1, 1>>, <<0, 2>>, <<1, 0, 1>>, <<1, 0, 0, 1>>}
Table(names, addresses, relative) ==
  [stream |-> FlattenSeq([i \in DOMAIN names |-> Encoded(names[i])]),
   tokens |-> MCTokens,
   raw |-> [i \in DOMAIN addresses |-> IF relative THEN 9 - addresses[i] ELSE addresses[i]],
   relative |-> relative, base |-> 10,
   markers |-> [m \in 1..Marker(Len(names) - 1) + 1 |->
                  Len(FlattenSeq([i \in 1..(m - 1) * 2^MarkerBits |-> Encoded(names[i])]))],
   seqs |-> Sorted(names), text |-> <<10, 16>>, inittext |-> <<18, 20>>, end |-> 22]

Kas ==
  \E n \in 1..4 : \E names \in [1..n -> MCNames], a \in [1..n -> {10, 12, 18}], r \in BOOLEAN :
    /\ \A i \in 1..n - 1 : a[i] <= a[i + 1]
    /\ input = [what |-> "kallsyms", names |-> names, addresses |-> a,
                table |-> Table(names, a, r), position |-> 0]

\* What two gatherers bring, the kernel last.
Gather ==
  LET info == [offset : {0, 4}, name : {"m"}, start : {2, 4}, end : {4, 6}, smeared : BOOLEAN]
      kernel == [offset |-> 8, name |-> KernelName, start |-> 8, end |-> 10, smeared |-> FALSE]
  IN \E a \in BoundedSeq(info, 2), b \in BoundedSeq(info, 1), k \in BOOLEAN :
       input = [what |-> "modules", results |-> <<a, IF k THEN Append(b, kernel) ELSE b>>]

\* Four addresses, of which some can be read and some are valid.
Hidden ==
  \E r, v \in SUBSET (0..3), known \in SUBSET {0, 2, 3} : \E p \in [r -> 0..2] :
      input = [what |-> "hidden", points_to |-> p, valid |-> v, known |-> known]

SymbolsInit == Kas \/ Gather \/ Hidden

-----------------------------------------------------------------------------
(* Symbols. *)

K == input.table
Count == Len(input.names)
NameAt(i) == Tail(NameOf(input.names[i]))
SizeAt(i) ==
  LET later == {input.addresses[j] : j \in {j \in 1..Count : input.addresses[j] > input.addresses[i]}}
  IN (IF later # {} THEN Min(later) ELSE IF input.addresses[i] = 18 THEN 20 ELSE 22)
       - input.addresses[i]
Expected(i) ==
  [found |-> TRUE, name |-> NameAt(i), type |-> Head(NameOf(input.names[i])),
   address |-> input.addresses[i], size |-> SizeAt(i)]
Big(i) == Len(input.names[i]) >= 2^LenBits

\* Every symbol up to the first with a long name is read with its type, name,
\* address and size, in the table's order (kallsyms.py:399-515).
SymbolsUpToTheFirstBig ==
  input.what = "kallsyms" =>
    \A i \in 1..Count :
      (\A j \in 1..i - 1 : ~Big(j)) => Len(CoreSymbols(K)) >= i /\ CoreSymbols(K)[i] = Expected(i)

\* An address in the kernel's text has the first of the symbols at the highest
\* address not above it, when no long name lies between it and its marker
\* (kallsyms.py:552-664, 697-733).
AddressHasItsSymbol ==
  input.what = "kallsyms" =>
    \A a \in input.addresses[1]..20 :
      LET below == {i \in 1..Count : input.addresses[i] <= a}
          start == Max({input.addresses[i] : i \in below})
          first == Min({i \in below : input.addresses[i] = start})
          marked == ((first - 1) \div 2^MarkerBits) * 2^MarkerBits
      IN (\A j \in marked + 1..first - 1 : ~Big(j)) =>
           LET s == CoreLookupAddress(K, a, input.position)
           IN IF a \in 10..15 \cup 18..19
                THEN /\ s.found /\ s.name = NameAt(first) /\ s.address = start
                     /\ s.size > 0 /\ (a < 18 => s.size = SizeAt(first))
              ELSE ~s.found

\* The search in the order of names finds what the search from the start finds,
\* but for the first name of all, which it never finds (kallsyms.py:1594-1711).
FastLookupAgrees ==
  (input.what = "kallsyms" /\ \A i \in 1..Count : ~Big(i)) =>
    \A i \in 1..Count :
      LET fast == LookupNameFast(K, NameAt(i), input.position)
      IN IF \E j \in 1..Count : Precedes(NameAt(j), NameAt(i))
           THEN /\ fast = LookupNameSlow(K, NameAt(i))
                /\ fast.address = input.addresses[Min({j \in 1..Count : NameAt(j) = NameAt(i)})]
         ELSE ~fast.found

\* A sorted list of exported names is searched as it should
\* (kallsyms.py:1117-1152).
ExportedAreFound ==
  (input.what = "kallsyms" /\ IsInjective([i \in 1..Count |-> NameAt(i)])) =>
    LET names == [i \in 1..Count |-> NameAt(K.seqs[i] + 1)]
    IN /\ \A i \in 1..Count : SearchExported(names, names[i], 0, Count) = i - 1
       /\ SearchExported(names, <<3, 3>>, 0, Count) = NoOffset

-----------------------------------------------------------------------------
(* Modules. *)

\* An address is given to a module that holds it, and to none only when it lies in
\* none or when every module that holds it starts where another, gathered before
\* it, starts (modules.py:116-143, 240-379).
AddressHasItsModule ==
  input.what = "modules" =>
    LET results == RunScanners(input.results)
        all == FlattenSeq(results)
    IN \A a \in 0..10 :
         LET found == LookupModule(Flatten(results), a)
             holds == {i \in DOMAIN all : all[i].start <= a /\ a < all[i].end}
             kept == {i \in holds : \A j \in 1..i - 1 : all[j].start # all[i].start}
         IN IF kept = {} THEN found = {}
            ELSE \E f \in found : f.module = all[Min(kept)]

\* Hidden modules are those that point to themselves and are valid, and that the
\* kernel's list does not have, each once, in their order; one that is not aligned
\* is missed when all of the list are (modules.py:382-458, 547-560).
HiddenAreFound ==
  input.what = "hidden" =>
    LET found == HiddenModules(input.points_to, input.valid, input.known, 0, 4)
        hidden == {a \in DOMAIN input.points_to \cap input.valid :
                     input.points_to[a] = a /\ a \notin input.known}
    IN /\ ToSet(found) \subseteq hidden
       /\ \A i \in 1..Len(found) - 1 : found[i] < found[i + 1]
       /\ \A a \in hidden : \/ a \in ToSet(found)
                            \/ a % PointerSize # 0 /\ \A b \in input.known : b % PointerSize = 0

-----------------------------------------------------------------------------
\* The kernel's symbols, the modules an address belongs to and the modules that
\* hide are found as the kernel has them, within what each part says.
SymbolsAreFound ==
  /\ SymbolsUpToTheFirstBig /\ AddressHasItsSymbol /\ FastLookupAgrees
  /\ ExportedAreFound /\ AddressHasItsModule /\ HiddenAreFound
=============================================================================
