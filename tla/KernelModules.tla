--------------------------- MODULE KernelModules ----------------------------
(***************************************************************************)
(* Which module an address of the kernel belongs to, and which modules     *)
(* hide from the kernel's list (framework/symbols/linux/utilities/         *)
(* modules.py).  A module info m has the address of its structure          *)
(* (m.offset), its name, and the first address it occupies and the first   *)
(* after it (m.start, m.end), both masked.                                 *)
(***************************************************************************)
EXTENDS Integers, Sequences, SequencesExt, FiniteSetsExt

CONSTANTS
  KernelName,     \* the name of the kernel itself
  PointerSize     \* what get_module_address_alignment answers

\* run_modules_scanners: the results of each gatherer in turn, without the modules
\* whose name cannot be read.
RunScanners(gathered) == [g \in DOMAIN gathered |-> SelectSeq(gathered[g], LAMBDA m : ~m.smeared)]

\* Mutant: modules of one name are one.
FlattenByName(results) ==
  FoldLeft(LAMBDA unique, m :
             IF \E i \in DOMAIN unique : unique[i].name = m.name THEN unique ELSE Append(unique, m),
           <<>>, FlattenSeq(results))

\* flatten_run_modules_results: of those that start at one address, the first.
Flatten(results) ==
  FoldLeft(LAMBDA unique, m :
             IF \E i \in DOMAIN unique : unique[i].start = m.start THEN unique ELSE Append(unique, m),
           <<>>, FlattenSeq(results))

\* Mutant: the end is taken for the last address.
FitsUpToEnd(m, address) == m.start <= address /\ address <= m.end

Fits(m, address) == m.start <= address /\ address < m.end

\* module_lookup_by_address: the first module that fits, and the offset of the one
\* whose symbols are searched, which is the last of the list unless the kernel fits.
LookupModule(modules, address) ==
  LET matches == SelectSeq(modules, LAMBDA m : Fits(m, address))
  IN IF matches = <<>> THEN {}
     ELSE {[module |-> Head(matches),
            symbols_of |-> IF Head(matches).name = KernelName THEN Head(matches) ELSE Last(modules)]}

-----------------------------------------------------------------------------
(* get_hidden_modules. points_to has the addresses that can be read, with what the
   structure there would hold as its own address; valid are those that is_valid
   accepts. *)

\* Mutant: what is known says nothing of the alignment.
AlignedAlways(known) == PointerSize

Alignment(known) == IF \A a \in known : a % PointerSize = 0 THEN PointerSize ELSE 1

HiddenModules(points_to, valid, known, addr_min, addr_max) ==
  LET alignment == Alignment(known)
      tried == [i \in 1..((addr_max - addr_min + alignment - 1) \div alignment) |->
                  addr_min + (i - 1) * alignment]
  IN SelectSeq(tried, LAMBDA a : /\ a \notin known
                                 /\ a \in DOMAIN points_to /\ points_to[a] = a
                                 /\ a \in valid)
=============================================================================
