------------------------------ MODULE MCKernel ------------------------------
(* Evaluates how Volatility walks the structures of a Linux kernel, one memory
   to a state: lists and hashes with broken links, name spaces, processes, and
   trees. *)
EXTENDS KernelLists, KernelTrees, TLC, MCInput

-----------------------------------------------------------------------------
(* Lists. *)

List ==
  LET pointers == 0..2 \cup {Nil} IN
  \E n, p \in [0..2 -> pointers], r \in {0..2, {0, 1}}, v \in {0..2, {0, 2}} :
    input = [what |-> "list",
             m |-> [next |-> n, prev |-> p, readable |-> r, valid |-> v]]

\* The ring 0, 1, 2, 3 of init_task and three tasks, of which one, bad, is not
\* readable or has links to anything; 4 is memory that is no task.
Links4(step, bad, to, stray) ==
  [i \in 0..4 |-> IF i = bad THEN to ELSE IF i = 4 THEN stray ELSE (i + step) % 4]
Ring ==
  \E bad \in 1..3, hole \in BOOLEAN, n, p \in 0..4 \cup {Nil}, stray \in 0..4 :
    input = [what |-> "ring", bad |-> bad,
             m |-> [next |-> Links4(1, bad, n, stray), prev |-> Links4(3, bad, p, stray),
                    readable |-> IF hole THEN (0..4) \ {bad} ELSE 0..4, valid |-> 0..4]]

\* Three nodes, and the buckets 5 and 6.
Hash ==
  \E n \in [{1, 2, 3, 5, 6} -> 1..3 \cup {Nil}], r \in {1..3, {2, 3}},
     v \in {1..3, {1, 2}, {2, 3}, {1, 3}, {3}} :
    input = [what |-> "hash",
             m |-> [next |-> n, readable |-> r, valid |-> v \cup {5, 6}]]

-----------------------------------------------------------------------------
(* File systems: 10 with 11 and 12 in it, and 20 with 21. Mount 1 is of all, 2 and
   3 are somewhere in it; 3 may mount a directory of the first a second time. *)

Space(c, r, u, p, q) ==
  [parent |-> 10 :> 10 @@ 11 :> 10 @@ 12 :> c @@ 20 :> 20 @@ 21 :> 20,
   readable |-> {10, 11, 12, 20, 21},
   root |-> <<10, 20, r>>, up |-> <<1, 1, u>>, point |-> <<10, p, q>>]

RECURSIVE Under(_, _, _)
Under(ns, d, top) == d = top \/ (ns.parent[d] # d /\ Under(ns, ns.parent[d], top))

\* No two mounts are on one dentry of one mount, and each is on what it can be.
Made(ns) ==
  /\ <<ns.up[2], ns.point[2]>> # <<ns.up[3], ns.point[3]>>
  /\ Under(ns, ns.point[3], ns.root[ns.up[3]])

Roots == {<<10, 1>>, <<11, 1>>, <<20, 2>>}
Names ==
  \E c, p \in {10, 11, 12}, r \in {10, 11, 20}, u \in {1, 2}, q \in {10, 11, 12, 20, 21},
     root \in Roots :
    LET ns == Space(c, r, u, p, q) IN
    /\ c # 12 /\ Made(ns)
    /\ input = [what |-> "names", ns |-> ns, root |-> root]

Mounts ==
  \E r \in {10, 11, 20}, u \in {1, 2}, q \in {10, 11, 12, 20, 21}, root \in Roots,
     m \in {<<Nil, 1, 2>>, <<2, 1, 2>>, <<3, Nil, 3>>, <<Nil, 3, Nil>>},
     p \in {<<1, 2, 3>>, <<2, 1, 3>>, <<1, 3, 2>>}, s \in {<<1, 1, 1>>, <<1, 2, 1>>} :
    LET ns == Space(11, r, u, 11, q) IN
    /\ Made(ns)
    /\ input = [what |-> "mounts", root |-> root,
                ns |-> ns @@ [master |-> m, peer |-> p, space |-> s]]

Processes ==
  \E pids \in {1..4, {0, 2, 3, 4}, {3, 4, 5}}, o \in {"rising", "falling"} :
    \E f \in [pids -> 0..5] : input = [what |-> "processes", parent |-> f, order |-> o]

-----------------------------------------------------------------------------
(* Trees. *)

Idr ==
  \E s \in SUBSET {0, 3, 15, 16, 255, 256, 600}, n \in {1, 2}, c \in {0, 4, 20} :
    input = [what |-> "idr", ids |-> s, layers |-> n, cur |-> c]

P(to, tag) == [to |-> to, tag |-> tag]

\* The kernels: an XArray; radix trees from 4.7, 3.15 and 2.6.24 on; of the oldest
\* kernels, which do not mark nodes and keep the height in the root; and from 4.20.
Kernel(xarray, hasRoot, mark, height, heights) ==
  [xarray |-> xarray, hasRoot |-> hasRoot, mark |-> mark, height |-> height, heights |-> heights]
Kinds == {Kernel(TRUE, FALSE, 2, "shift", 0), Kernel(FALSE, TRUE, 1, "shift", 3),
          Kernel(FALSE, TRUE, 1, "path", 3), Kernel(FALSE, TRUE, 1, "height", 3),
          Kernel(FALSE, TRUE, 0, "height", 0), Kernel(FALSE, FALSE, 2, "shift", 0)}

\* Of an XArray: pages, a value and a sibling of the entry before; of a radix
\* tree: pages and, before 4.20, an exceptional entry.
LeafSlot(v) == {NoEntry, P(31, 0), P(32, 0)}
                 \cup (IF v.xarray THEN {P(5, 1), P(4, 2)} ELSE IF v.hasRoot THEN {P(5, 2)} ELSE {})

\* Node 40 over 41 and 42, as high as its member says; a path has an offset, too.
Raw(v, height) ==
  CASE v.height = "shift" -> (height - 1) * ChunkShift
    [] v.height = "path" -> height + HeightValues
    [] v.height = "height" -> height
Nodes(v, tall, s40, s41, s42) ==
  40 :> [raw |-> Raw(v, tall), slots |-> s40] @@ 41 :> [raw |-> Raw(v, 1), slots |-> s41]
    @@ 42 :> [raw |-> Raw(v, 1), slots |-> s42]

\* Every content of the nodes.
StorageSlots ==
  \E v \in Kinds, pages \in {{31, 32}, {31}} :
    \E head \in {P(40, v.mark), P(41, v.mark)}, a, b \in {NoEntry, P(41, v.mark), P(42, v.mark)},
       c, d, e \in LeafSlot(v), f \in {P(31, 0), P(32, 0)} :
      input = [what |-> "storage", v |-> v, head |-> head, mapped |-> {31, 32}, pages |-> pages,
               tall |-> 2, mem |-> Nodes(v, 2, <<a, b>>, <<c, d>>, <<e, f>>)]

\* Every head: none, a page, a value, which may be as large as an address, or a
\* node; where any of it is on pages that are gone, or node 40 is too high.
StorageHeads ==
  \E v \in Kinds, mapped \in SUBSET {31, 32}, gone \in SUBSET {40, 41, 42}, tall \in {2, 3} :
    \E pages \in {mapped, mapped \ {32}},
       head \in {NoEntry, P(31, 0), P(32, 0), P(40, v.mark), P(41, v.mark)}
                  \cup (IF v.xarray THEN {P(5, 1), P(31, 1)}
                        ELSE IF v.hasRoot THEN {P(5, 2), P(31, 2)} ELSE {}) :
      /\ v.heights = 0 => tall = 2
      /\ input = [what |-> "storage", v |-> v, head |-> head, mapped |-> mapped, pages |-> pages,
                  tall |-> tall,
                  mem |-> LET n == Nodes(v, tall, <<P(41, v.mark), P(42, v.mark)>>,
                                         <<NoEntry, P(32, 0)>>, <<P(31, 0), P(32, 0)>>)
                          IN [at \in {40, 41, 42} \ gone |-> n[at]]]

Child(to, type) == [to |-> to, type |-> type]
Value(n) == [to |-> n, type |-> "value"]
Maple ==
  LET below == {NoSlot, Child(21, "leaf"), Child(22, "range"), Child(20, "range"),
                Child(9, "leaf"), Child(23, "odd")}
  IN \E a, b, c \in below, d \in {NoSlot, Child(23, "leaf")},
        p \in {20, 22}, q \in {1, 20, 22} :
       input = [what |-> "maple", root |-> Child(20, "range"),
                mem |-> 20 :> [parent |-> 1, slots |-> <<a, b>>]
                        @@ 21 :> [parent |-> p, slots |-> <<Value(61), NoSlot>>]
                        @@ 22 :> [parent |-> q, slots |-> <<c, d>>]
                        @@ 23 :> [parent |-> 22, slots |-> <<Value(63), Value(64)>>]]

RedBlack ==
  \E l, r \in [1..3 -> 0..3] :
    input = [what |-> "redblack", mem |-> [n \in 1..3 |-> [left |-> l[n], right |-> r[n]]]]

Scatter ==
  \E c \in [1..5 -> {0, 1, 4}], ends \in SUBSET {2, 3, 5}, max \in {1, 2, 3} :
    input = [what |-> "scatter", max |-> max,
             mem |-> [n \in 1..5 |-> [chain |-> c[n], last |-> n \in ends, empty |-> FALSE]]]

KernelInit == \/ List \/ Ring \/ Hash \/ Names \/ Mounts \/ Processes
              \/ Idr \/ StorageSlots \/ StorageHeads \/ Maple \/ RedBlack \/ Scatter

-----------------------------------------------------------------------------
(* Lists. *)

\* S is the smallest set that has the first node and with a node its successor.
IsReach(S, ok, first, step) ==
  LET closed(T) == /\ first \in ok => first \in T
                   /\ \A n \in T : step[n] \in ok => step[n] \in T
  IN closed(S) /\ \A T \in SUBSET S : closed(T) => T = S

Reach(nodes, ok, first, step) == CHOOSE S \in SUBSET nodes : IsReach(S, ok, first, step)

\* list_tasks lists every task that a chain of sound links from init_task leads
\* to, forwards or backwards, once, and nothing else, in whatever circles the
\* links run (pslist.py:246-288, extensions/__init__.py:1528-1583).
EachTaskOnce ==
  input.what = "list" =>
    LET m == input.m
        ok == (m.readable \cap m.valid) \ {0}
        good == {1, 2}
        listed == ListTasks(m, 0, good)
    IN /\ IsInjective(listed)
       /\ ToSet(listed) = good \cap (Reach(good, ok, m.next[0], m.next)
                                      \cup Reach(good, ok, m.prev[0], m.prev))

\* One task whose links were overwritten, or whose page is gone, hides no other:
\* what follows it is found from the other end.
OneSmearHidesNothing ==
  input.what = "ring" =>
    (1..3) \ {input.bad} \subseteq ToSet(ListTasks(input.m, 0, 1..3))

\* The hash gives every upid that a chain of sound links from a bucket leads to,
\* and besides them one made up from each bucket in use; it fails when the first
\* upid of a chain begins on a missing page and is not the last
\* (pidhashtable.py:86-127).
UpidsAndBuckets ==
  input.what = "hash" =>
    LET m == input.m
        used == {b \in {5, 6} : m.next[b] \in m.readable}
        ok == m.readable \cap m.valid
        r == GetUpids(m, <<5, 6>>)
        fails == \E b \in used : m.next[b] \notin m.valid /\ m.next[m.next[b]] \in m.readable
    IN /\ r.raised <=> fails
       /\ ~r.raised =>
            r.seen = used \cup UNION {Reach(1..3, ok, m.next[b], m.next) : b \in used}

-----------------------------------------------------------------------------
(* Names, mounts and processes. *)

RECURSIVE Cross(_, _)
Cross(ns, at) ==
  LET on == {p \in 1..3 : ns.up[p] = at[2] /\ ns.point[p] = at[1] /\ p # at[2]}
  IN IF on = {} THEN at ELSE LET p == CHOOSE p \in on : TRUE IN Cross(ns, <<ns.root[p], p>>)

\* Where a path leads to from a root, mounts on the way included; <<>> is nowhere.
Resolve(ns, root, names) ==
  FoldLeft(LAMBDA at, name :
             IF at # <<>> /\ ns.parent[name] = at[1] /\ name # at[1]
               THEN Cross(ns, <<name, at[2]>>) ELSE <<>>,
           root, names)

\* The path of what a path names is that path: through mounts, mounts on mounts,
\* directories mounted twice, and seen from another root
\* (symbols/linux/__init__.py:150-215).
PathNamesItsDentry ==
  input.what = "names" =>
    \A names \in BoundedSeq({11, 12, 21}, 3) :
      LET at == Resolve(input.ns, input.root, names)
      IN at # <<>> =>
           DoGetPath(input.ns, input.root, at) = [loops |-> FALSE, names |-> names]

\* Up from a position to its parent, or to where its mount is.
RECURSIVE Sees(_, _, _)
Sees(ns, root, at) ==
  \/ at = root
  \/ LET d == at[1]  m == at[2] IN
     IF d = ns.root[m] THEN ns.up[m] # m /\ Sees(ns, root, <<ns.point[m], ns.up[m]>>)
     ELSE ns.parent[d] # d /\ Sees(ns, root, <<ns.parent[d], m>>)

\* The mount mountinfo gives as the dominating one is a master, in the name space
\* of the slave, that a process sees from its root
\* (extensions/__init__.py:1423-1453, 1779-1841).
DominatingIsInSight ==
  input.what = "mounts" =>
    LET ns == input.ns
        d == Dominating(ns, ns.master[1], ns.space[1], input.root, {})
    IN d # Nil =>
         /\ d \in Reach(1..3, 1..3, ns.master[1], ns.master)
         /\ ns.space[d] = ns.space[1]
         /\ Sees(ns, input.root, <<ns.root[d], d>>)

\* The parents of a task that count: swapper has none, and a parent 0 is smear
\* for all but init and kthreadd.
Smeared(p) == p = 0 \/ (p > 2 /\ input.parent[p] = 0)
Parents == [p \in DOMAIN input.parent |-> IF Smeared(p) THEN Nil ELSE input.parent[p]]

\* pstree shows each task once, below its parent, but for swapper and tasks whose
\* parent is smear, and but for those in or below a circle of tasks, which it
\* loses (pstree.py:53-158).
EachProcessOnce ==
  input.what = "processes" =>
    LET pids == DOMAIN input.parent
        up(p) == Reach(pids, pids, Parents[p], Parents)
        circle == {p \in pids : Parents[p] # p /\ p \in up(p)}
        lost == {p \in pids : Smeared(p) \/ (up(p) \cup {p}) \cap circle # {}}
        order == SetToSortSeq(pids, LAMBDA a, b : (a < b) = (input.order = "rising"))
        shown == PsTree(input.parent, order)
    IN /\ IsInjective(shown)
       /\ ToSet(shown) = pids \ lost

-----------------------------------------------------------------------------
(* Trees. *)

Element(id) == 1000 + id
Layer(ids, base, number) ==
  [layer |-> number,
   ary |-> [i \in 0..255 |-> IF number = 1 THEN 1 + i
                             ELSE IF base + i \in ids THEN Element(base + i) ELSE 0]]
IdrMem == [at \in 1..257 |-> IF at = 257 THEN Layer(input.ids, 0, 1)
                             ELSE Layer(input.ids, 256 * (at - 1), 0)]
IdrTop == IF input.layers = 2 THEN 257 ELSE 1
InIdr == {id \in input.ids : id < 256^input.layers}

\* An ID that idr_max lets pass is found where it is stored, through one layer or
\* two; the entries are those of the IDs below cur that it lets pass
\* (extensions/__init__.py:2849-2896).
IdrFindsWhatItAdmits ==
  input.what = "idr" =>
    LET found(id) == IdrFind(IdrMem, IdrTop, id)
        admitted == {id \in 0..600 : id <= IdrMax(input.layers)}
    IN /\ \A id \in admitted : found(id) = IF id \in InIdr THEN Element(id) ELSE 0
       /\ IdrEntries(IdrMem, IdrTop, input.cur)
            = SetToSortSeq({Element(id) : id \in InIdr \cap admitted \cap 0..input.cur - 1}, <)

\* A head that is there, and one that is higher than the kernel lets a tree be.
Readable == DOMAIN input.mem \cup input.mapped
HeadStands == input.head # NoEntry /\ input.head.to \in Readable
TooTall == HeadStands /\ input.head = P(40, 1) /\ input.tall = 3

\* The slot of an index, digit by digit as the kernel looks it up; a node that is
\* gone has none.
SlotOf(node, n) ==
  IF node = NoEntry \/ node.to \notin DOMAIN input.mem THEN NoEntry ELSE input.mem[node.to].slots[n]
SlotAt(i) ==
  IF input.head.to \in {40, 41}
    THEN SlotOf(IF input.head.to = 40 THEN SlotOf(input.head, i \div 2 + 1) ELSE input.head, (i % 2) + 1)
  ELSE input.head
Indices == IF ~HeadStands \/ TooTall THEN {}
           ELSE CASE input.head.to = 40 -> 0..3 [] input.head.to = 41 -> 0..1 [] OTHER -> {0}

\* The root has the height where nodes have no shift.
RootHeight ==
  IF input.v.height = "shift" THEN 0
  ELSE CASE input.head.to = 40 -> 2 [] input.head.to = 41 -> 1 [] OTHER -> 0
StorageEntries == IdStorageEntries(input.v, input.mem, Readable, input.head, RootHeight)

\* An entry is what a slot holds without a mark, or a sibling of an XArray, which
\* goes for an address; so does a value as large as one where it is all that an
\* XArray has.
Kept(i) ==
  LET slot == SlotAt(i) IN
  /\ slot # NoEntry
  /\ IF input.v.xarray THEN slot.tag # 1 \/ slot = input.head ELSE slot.tag # 2

\* The entries of a radix tree or an XArray come in the order of their indices,
\* all of them and no values, whatever the kernel and the height; a tree whose head
\* is null or cannot be read has none, and of one that is too high the walk raises
\* (symbols/linux/__init__.py:725-938).
EntriesInIndexOrder ==
  input.what = "storage" =>
    LET kept == SetToSortSeq({i \in Indices : Kept(i)}, <)
    IN StorageEntries = [entries |-> [k \in DOMAIN kept |-> SlotAt(kept[k]).to], raised |-> TooTall]

\* The pages of a file are listed up to the first entry that is none: a page that
\* is not mapped, or the second index of a large page
\* (symbols/linux/__init__.py:961-980).
PagesUpToTheFirstBad ==
  input.what = "storage" =>
    LET entry == {i \in Indices : Kept(i)}
        bad == {i \in entry : SlotAt(i).to \notin input.pages}
        first == IF bad = {} THEN 4 ELSE Min(bad)
        before == SetToSortSeq({i \in entry : i < first}, <)
    IN GetCachedPages(StorageEntries, input.pages)
         = [pages |-> [k \in DOMAIN before |-> SlotAt(before[k]).to],
            raised |-> TooTall \/ bad # {}]

\* A maple tree gives slots of those leaves only that parents and children agree on
\* down from the root, each once, in whatever circles the entries run. It gives
\* them all, or fails at a slot that is of no node, but when one of the entries is
\* in a node that is not its parent as well: found there first, it is discarded
\* and counts as seen when its parent has it (extensions/__init__.py:903-1012).
LeavesOfTheFamily ==
  input.what = "maple" =>
    LET mem == input.mem
        r == GetSlots(mem, 1, input.root)
        Agreed(E) == /\ mem[input.root.to].parent = 1 => input.root \in E
                     /\ \A e \in E : e.type = "range" => \A s \in ToSet(mem[e.to].slots) :
                          (s.to \in DOMAIN mem /\ mem[s.to].parent = e.to) => s \in E
        every == {input.root} \cup ToSet(mem[20].slots) \cup ToSet(mem[22].slots)
        family == CHOOSE E \in SUBSET every :
                    Agreed(E) /\ \A F \in SUBSET E : Agreed(F) => F = E
        fails == \E e \in family :
                   \/ e.type = "odd"
                   \/ /\ e.type = "range"
                      /\ \E s \in ToSet(mem[e.to].slots) : s # NoSlot /\ s.to \notin DOMAIN mem
        misplaced == \E e \in family, p \in family :
                       /\ p.type = "range" /\ mem[e.to].parent # p.to
                       /\ e \in ToSet(mem[p.to].slots)
        leaves == UNION {ToSet(mem[e.to].slots) \ {NoSlot} : e \in {e \in family : e.type = "leaf"}}
    IN /\ IsInjective(r.slots)
       /\ ToSet(r.slots) \subseteq leaves
       /\ r.raised => fails
       /\ (~misplaced /\ fails) => r.raised
       /\ (~misplaced /\ ~fails) => leaves \subseteq ToSet(r.slots)

\* A red-black tree whose nodes were moved while it was read gives a node once
\* for each way that leads to it, and does not end when a node is below itself
\* (extensions/__init__.py:2925-2951).
OnceForEachWay ==
  input.what = "redblack" =>
    LET mem == input.mem
        r == GetNodes(mem, 1)
        below(n) == {mem[n].left, mem[n].right} \cap 1..3
        Down(S) == 1 \in S /\ \A n \in S : below(n) \subseteq S
        reach == CHOOSE S \in SUBSET (1..3) : Down(S) /\ \A T \in SUBSET S : Down(T) => T = S
        under(n) == CHOOSE S \in SUBSET (1..3) :
                      LET closed(T) == below(n) \subseteq T /\ \A k \in T : below(k) \subseteq T
                      IN closed(S) /\ \A T \in SUBSET S : closed(T) => T = S
        times(n) == Cardinality({i \in DOMAIN r.nodes : r.nodes[i] = n})
        ways(n) == (IF n = 1 THEN 1 ELSE 0)
                   + FoldSet(LAMBDA k, sum :
                               sum + (IF mem[k].left = n THEN times(k) ELSE 0)
                                   + (IF mem[k].right = n THEN times(k) ELSE 0), 0, 1..3)
    IN /\ r.loops <=> \E n \in reach : n \in under(n)
       /\ ~r.loops => \A n \in 1..3 : times(n) = ways(n)

\* The kernel's own walk: the next entry, or where its chain leads; at most n.
RECURSIVE KernelSg(_, _)
KernelSg(at, n) ==
  IF n = 0 \/ input.mem[at].last \/ at = 5 THEN <<at>>
  ELSE <<at>> \o KernelSg(IF input.mem[at + 1].chain # 0 THEN input.mem[at + 1].chain
                          ELSE at + 1, n - 1)

\* Of a table as the kernel makes it, with arrays of no more than max entries and
\* an end, the walk gives the kernel's entries; with no end and no circle it goes
\* at most one entry past max in any array (extensions/__init__.py:2987-3042).
EntriesAsTheKernel ==
  input.what = "scatter" =>
    LET mem == input.mem
        chains == {n \in 1..5 : mem[n].chain # 0}
        kernel == KernelSg(1, 5)
        ended == mem[kernel[Len(kernel)]].last
        made == /\ ended /\ 1 \notin chains
                /\ \A n \in chains : ~mem[n].last /\ mem[n].chain \notin chains
        inArray == \A i \in 1..Len(kernel) - input.max :
                     \E k \in i..(i + input.max - 1) : k < Len(kernel) /\ kernel[k + 1] # kernel[k] + 1
        r == ForEachSg(mem, 1, input.max)
    IN /\ (made /\ inArray) => r = [entries |-> kernel, outcome |-> "ended"]
       /\ chains = {} => Len(r.entries) <= input.max + 1

-----------------------------------------------------------------------------
\* Whatever is smeared, circular or unmapped, a walk along links gives what can be
\* reached by sound links, once, and a name or a parent only where one leads to it
\* (extensions/__init__.py:1190-1281, 1411-1453, 1779-1841; pidhashtable.py:86-127;
\* symbols/linux/__init__.py:150-215; pstree.py:53-158).
ListsAreWalked ==
  /\ EachTaskOnce /\ OneSmearHidesNothing /\ UpidsAndBuckets
  /\ PathNamesItsDentry /\ DominatingIsInSight /\ EachProcessOnce

\* A walk down a tree of the kernel gives the entries that the kernel's own lookup
\* finds, in their order, and only those where the tree is damaged
\* (extensions/__init__.py:2828-3042, 903-1012; symbols/linux/__init__.py:690-980).
TreesAreWalked ==
  /\ IdrFindsWhatItAdmits /\ EntriesInIndexOrder /\ PagesUpToTheFirstBad
  /\ LeavesOfTheFamily /\ OnceForEachWay /\ EntriesAsTheKernel

\* A smeared dump misleads neither the walks along links nor those down a tree.
KernelIsWalked == ListsAreWalked /\ TreesAreWalked
=============================================================================
