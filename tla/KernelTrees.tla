---------------------------- MODULE KernelTrees -----------------------------
(* How Volatility reads the trees of a Linux kernel: the IDR of old kernels, the
   radix tree and the XArray of the page cache, maple trees of memory areas, red-
   black trees and chained scatter lists.

   A pointer is a record [to, tag]: the address, and the two low bits the kernel
   keeps flags in. mem holds the structure at each address; what it does not hold
   cannot be read. *)
EXTENDS Integers, Sequences, SequencesExt, FiniteSets, FiniteSetsExt

CONSTANTS
  IdrBits,        \* IDR_BITS
  IntSize,        \* INT_SIZE, the bytes of an int
  ChunkShift,     \* CHUNK_SHIFT: a node has 2^ChunkShift slots
  IndexBits       \* RADIX_TREE_INDEX_BITS

NoEntry == [to |-> 0, tag |-> 0]
MaxIdrShift == IntSize * 8 - 1

-----------------------------------------------------------------------------
(* The IDR: a layer has its number and its entries below. *)

IdrMax(layers) == 2^Min({IntSize, layers * IdrBits, MaxIdrShift}) - 1

\* From a layer of number n - 1, or an element when n is 0.
RECURSIVE Descend(_, _, _, _)
Descend(mem, at, id, n) ==
  IF n = 0 \/ at = 0 THEN at
  ELSE Descend(mem, mem[at].ary[(id \div 2^(IdrBits * (n - 1))) % 2^IdrBits], id, n - 1)

\* Mutant: the digits of the ID are taken from the low end.
DescendLowFirst(mem, at, id, n) ==
  IF n = 2 THEN Descend(mem, mem[at].ary[id % 2^IdrBits], id \div 2^IdrBits, 1)
  ELSE Descend(mem, at, id, n)

IdrLookup(mem, at, id, n) == Descend(mem, at, id, n)

\* 0 is no element.
IdrFind(mem, top, id) ==
  IF id < 0 \/ top = 0 \/ id > IdrMax(mem[top].layer + 1) THEN 0
  ELSE IdrLookup(mem, top, id, mem[top].layer + 1)

IdrEntries(mem, top, cur) ==
  SelectSeq([i \in 1..cur |-> IdrFind(mem, top, i - 1)], LAMBDA e : e # 0)

-----------------------------------------------------------------------------
(* Radix tree and XArray. v tells them apart, and whether the kernel still has a
   radix_tree_root; the flag of an internal node is 2, or 1 in a radix tree of
   such a kernel. v.height is the member of a node that its height is in: "shift",
   or in older kernels "path" or "height"; v.heights is the length of the array of
   what a tree of each height can hold, 0 where the kernel has none. *)

InternalTag(v) == IF v.xarray \/ ~v.hasRoot THEN 2 ELSE 1
NodeIsInternal(v, p) ==
  IF v.xarray THEN p.tag = InternalTag(v) ELSE (p.tag \div InternalTag(v)) % 2 = 1
IsNodeTagged(v, p) == IF v.xarray THEN p.tag # 0 ELSE NodeIsInternal(v, p)
UntagNode(p) == [p EXCEPT !.tag = 0]

\* Mutant: a value kept in a slot counts as an entry.
IsAnyNode(v, p) == TRUE

\* Neither a value of an XArray nor an exceptional entry of a radix tree.
IsValidNode(v, p) ==
  IF v.xarray THEN ~IsNodeTagged(v, p) ELSE ~(v.hasRoot /\ p.tag = 2)

SlotToNodep(v, slot) ==
  IF NodeIsInternal(v, slot) THEN [slot EXCEPT !.tag = @ - InternalTag(v)] ELSE slot

\* RADIX_TREE_HEIGHT_MASK: the bits of a path that are the height, one more than
\* the levels an index can take.
HeightValues == 2^((IndexBits + ChunkShift - 1) \div ChunkShift + 1)

\* Mutant: the offset in the parent, which a path has as well, is not masked off.
WholePath(v, node) ==
  IF v.height = "shift" THEN node.raw \div ChunkShift + 1 ELSE node.raw

\* raw is what the member holds.
NodeHeight(v, node) ==
  CASE v.height = "shift" -> node.raw \div ChunkShift + 1
    [] v.height = "path" -> node.raw % HeightValues
    [] v.height = "height" -> node.raw

\* "exceeds max height": only of a radix tree, and where the kernel has the array.
TooHigh(v, height) == ~v.xarray /\ v.heights # 0 /\ height >= v.heights

\* A slot that cannot be read is passed over, like an empty one.
RECURSIVE IterNode(_, _, _, _)
IterNode(v, mem, p, height) ==
  IF p.to \notin DOMAIN mem THEN <<>>
  ELSE FlattenSeq([i \in 1..2^ChunkShift |->
         LET slot == mem[p.to].slots[i]
             q == SlotToNodep(v, slot)
         IN IF slot = NoEntry THEN <<>>
            ELSE IF height > 1 THEN IterNode(v, mem, q, height - 1)
            ELSE IF IsValidNode(v, q) THEN <<q.to>> ELSE <<>>])

\* Mutant: whatever the root points to is walked.
AnyHead(head, readable) == TRUE

\* The guard of get_entries: a pointer that is not null, to what can be read, marked
\* or not. The root itself is taken to be readable.
HasHead(head, readable) == head # NoEntry /\ head.to \in readable

\* head is what the root points to, height the one the root has, or 0, and readable
\* the addresses that can be read. A node that is too high raises.
IdStorageEntries(v, mem, readable, head, height) ==
  LET p == IF IsNodeTagged(v, head) THEN UntagNode(head) ELSE head
      levels == IF NodeIsInternal(v, head) THEN NodeHeight(v, mem[p.to]) ELSE height
  IN IF ~HasHead(head, readable) THEN [entries |-> <<>>, raised |-> FALSE]
     ELSE IF NodeIsInternal(v, head) /\ TooHigh(v, levels)
       THEN [entries |-> <<>>, raised |-> TRUE]
     ELSE [entries |-> IF levels # 0 THEN IterNode(v, mem, p, levels)
                       ELSE IF IsValidNode(v, p) THEN <<p.to>> ELSE <<>>,
           raised |-> FALSE]

\* Mutant: an address that holds no page is left out.
PassOverBadPages(r, pages) ==
  [pages |-> SelectSeq(r.entries, LAMBDA e : e \in pages), raised |-> r.raised]

\* The cached pages, up to the first entry that is no page, where it raises, or to
\* where the walk did.
GetCachedPages(r, pages) ==
  LET bad == {i \in DOMAIN r.entries : r.entries[i] \notin pages}
      n == IF bad = {} THEN Len(r.entries) ELSE Min(bad) - 1
  IN [pages |-> SubSeq(r.entries, 1, n), raised |-> r.raised \/ bad # {}]

-----------------------------------------------------------------------------
(* Maple trees. An entry [to, type] points to a node and says what it is; a node
   has a pointer to its parent and its slots, which are entries or, in a leaf,
   values. *)

NoSlot == [to |-> 0, type |-> "none"]

\* Mutant: the parent in the node is not compared.
AnyParent(mem, e, parent) == TRUE

IsChildOf(mem, e, parent) == mem[e.to].parent = parent

\* Every leaf slot below an entry. seen is passed on from branch to branch; a
\* node that cannot be read, or of no known type, ends the walk with an error.
RECURSIVE ParseNode(_, _, _, _)
ParseNode(mem, e, parent, seen) ==
  LET none == [slots |-> <<>>, seen |-> seen \cup {e}, raised |-> FALSE]
  IN IF e \in seen THEN none
     ELSE IF e.to \notin DOMAIN mem THEN [none EXCEPT !.raised = TRUE]
     ELSE IF ~IsChildOf(mem, e, parent) THEN none
     ELSE IF e.type = "leaf"
       THEN [none EXCEPT !.slots = SelectSeq(mem[e.to].slots, LAMBDA s : s # NoSlot)]
     ELSE IF e.type = "range"
       THEN FoldLeft(LAMBDA r, s :
              IF r.raised \/ s = NoSlot THEN r
              ELSE LET below == ParseNode(mem, s, e.to, r.seen)
                   IN [below EXCEPT !.slots = r.slots \o @],
              none, mem[e.to].slots)
     ELSE [none EXCEPT !.raised = TRUE]

GetSlots(mem, tree, root) == ParseNode(mem, root, tree, {})

-----------------------------------------------------------------------------
(* Red-black trees: left and right below each node. *)

RECURSIVE WalkNodes(_, _, _, _)
WalkNodes(mem, at, above, right) ==
  IF at \notin DOMAIN mem THEN [nodes |-> <<>>, loops |-> FALSE]
  ELSE IF at \in above THEN [nodes |-> <<>>, loops |-> TRUE]
  ELSE LET l == WalkNodes(mem, mem[at].left, above \cup {at}, right)
           r == IF right THEN WalkNodes(mem, mem[at].right, above \cup {at}, right)
                ELSE [nodes |-> <<>>, loops |-> FALSE]
       IN [nodes |-> <<at>> \o l.nodes \o r.nodes, loops |-> l.loops \/ r.loops]

\* Mutant: only the left branches.
LeftNodes(mem, root) == WalkNodes(mem, root, {}, FALSE)

GetNodes(mem, root) == WalkNodes(mem, root, {}, TRUE)

-----------------------------------------------------------------------------
(* Scatter lists: arrays of entries, of which one may be the last of all and one
   may, in place of data, be the chain to the next array. *)

SgNext(mem, at) ==
  IF mem[at].last THEN 0 ELSE IF mem[at].chain # 0 THEN mem[at].chain ELSE at + 1

\* The entries after `at`, count of them since the last chain. A chain to itself
\* is the end of no array and begins the count anew each time.
RECURSIVE SgFrom(_, _, _, _, _)
SgFrom(mem, at, count, max, chains) ==
  LET next == SgNext(mem, at)
      end == [entries |-> <<>>, outcome |-> "ended"]
  IN IF count > max \/ next = 0 THEN end
     ELSE IF next \notin DOMAIN mem THEN [end EXCEPT !.outcome = "raised"]
     ELSE IF mem[next].chain # 0
       THEN IF next \in chains THEN [end EXCEPT !.outcome = "loops"]
            ELSE SgFrom(mem, next, 0, max, chains \cup {next})
     ELSE LET rest == SgFrom(mem, next, count + 1, max, chains)
          IN [rest EXCEPT !.entries = <<next>> \o @]

\* Mutant: the count of entries goes on over a chain.
ForEachInAll(mem, at, max) ==
  LET all == SgFrom(mem, at, 1, max, {})
  IN [all EXCEPT !.entries = SubSeq(<<at>> \o @, 1, Min({max, Len(@) + 1}))]

ForEachSg(mem, at, max) ==
  LET rest == SgFrom(mem, at, 1, max, {})
  IN IF mem[at].empty THEN [entries |-> <<>>, outcome |-> "ended"]
     ELSE [rest EXCEPT !.entries = <<at>> \o @]
=============================================================================
