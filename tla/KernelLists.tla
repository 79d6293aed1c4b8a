---------------------------- MODULE KernelLists -----------------------------
(* How Volatility follows the lists, the hash, the mounts and the process tree
   of a Linux kernel. The memory is a snapshot taken while the kernel ran: any
   link in it may lead nowhere, to something else, or in a circle. A walk that
   the code does not protect from a circle has "loops" in its result.

   A memory m has the link of each node in a field of its own (m.next, m.prev);
   m.readable are the nodes a pointer can be followed to, and m.valid those whose
   enclosing structure begins in mapped memory. Nil is a null pointer. *)
EXTENDS Integers, Sequences, SequencesExt, FiniteSets

CONSTANT Nil

\* Mutant: the structure around the link is not looked at.
StopsAtSeen(m, at, seen) == at \in seen

Stops(m, at, seen) == at \in seen \/ at \notin m.valid

\* The nodes from `at` on along one link, up to the first that was seen or lies
\* in a structure that is not mapped.
RECURSIVE Links(_, _, _, _)
Links(m, link, at, seen) ==
  IF Stops(m, at, seen) THEN <<>>
  ELSE <<at>> \o (IF link[at] \in m.readable THEN Links(m, link, link[at], seen \cup {at})
                  ELSE <<>>)

\* A sentinel is not part of any structure and is not yielded itself.
ToList(m, link, head, sentinel) ==
  IF link[head] \notin m.readable \/ ~(sentinel \/ head \in m.valid) THEN <<>>
  ELSE (IF sentinel THEN <<>> ELSE <<head>>) \o Links(m, link, link[head], {head})

\* Mutant: the list is walked in one direction.
ListForwards(m, head, good) == SelectSeq(ToList(m, m.next, head, TRUE), LAMBDA t : t \in good)

\* The tasks from init_task's list in both directions, each once; good are those
\* that is_valid accepts and the filter lets pass.
ListTasks(m, head, good) ==
  LET there == ToList(m, m.next, head, TRUE)
      back == ToList(m, m.prev, head, TRUE)
  IN SelectSeq(there \o SelectSeq(back, LAMBDA t : t \notin ToSet(there)), LAMBDA t : t \in good)

-----------------------------------------------------------------------------
(* The hash of process IDs. Buckets are nodes as well: the code takes the upid
   around the place that holds a pointer, which is for the first node of a chain
   the bucket, and no upid. *)

RECURSIVE WalkUpid(_, _, _)
WalkUpid(m, upid, seen) ==
  IF upid \notin m.valid \/ upid \in seen THEN seen
  ELSE IF m.next[upid] \notin m.readable THEN seen \cup {upid}
  ELSE WalkUpid(m, m.next[upid], seen \cup {upid})

\* One chain from the place `at` that holds the next pointer.
RECURSIVE WalkChain(_, _, _)
WalkChain(m, at, seen) ==
  IF m.next[at] \notin m.readable \/ at \in seen THEN [seen |-> seen, raised |-> FALSE]
  ELSE IF at \notin m.valid THEN [seen |-> seen, raised |-> TRUE]
  ELSE WalkChain(m, m.next[at], WalkUpid(m, at, seen))

\* Mutant: a chain ends at its first upid that was seen in another.
WalkFirst(m, at, seen) ==
  IF m.next[at] \notin m.readable THEN [seen |-> seen, raised |-> FALSE]
  ELSE [seen |-> seen \cup {at, m.next[at]}, raised |-> FALSE]

Chain(m, at, seen) == WalkChain(m, at, seen)

GetUpids(m, buckets) ==
  FoldLeft(LAMBDA r, b : IF r.raised THEN r ELSE Chain(m, b, r.seen),
           [seen |-> {}, raised |-> FALSE], buckets)

-----------------------------------------------------------------------------
(* Directory entries and mounts. ns.parent is the parent of a dentry, its own for
   the root of a file system; a mount has its root, the mount it is on (its own
   for the root of all) and the dentry there: ns.root, ns.up and ns.point. A
   dentry stands for its own name. *)

IsRoot(ns, d) == ns.parent[d] = d

\* Mutant: the root of the mount below, not the dentry it is on.
AboveRoot(ns, at) == <<ns.root[ns.up[at[2]]], ns.up[at[2]]>>

Above(ns, at) == <<ns.point[at[2]], ns.up[at[2]]>>

\* The path from root, a dentry and a mount, down to `at`.
RECURSIVE PathFrom(_, _, _, _)
PathFrom(ns, root, at, seen) ==
  LET d == at[1]
      m == at[2]
      end == [loops |-> FALSE, names |-> <<>>]
  IN IF at \in seen THEN [end EXCEPT !.loops = TRUE]
     ELSE IF d \notin ns.readable \/ at = root THEN end
     ELSE IF d = ns.root[m] \/ IsRoot(ns, d)
       THEN IF d # ns.root[m] \/ ns.up[m] = m THEN end
            ELSE PathFrom(ns, root, Above(ns, at), seen \cup {at})
     ELSE LET above == PathFrom(ns, root, <<ns.parent[d], m>>, seen \cup {at})
          IN [above EXCEPT !.names = Append(@, d)]

DoGetPath(ns, root, at) == PathFrom(ns, root, at, {})

\* The ancestor of d that is a child of the dentry at an address.
RECURSIVE DAncestor(_, _, _, _)
DAncestor(ns, d, address, seen) ==
  IF IsRoot(ns, d) \/ d \in seen THEN Nil
  ELSE IF ns.parent[d] = address THEN d
  ELSE DAncestor(ns, ns.parent[d], address, seen \cup {d})

\* The other dentry comes as a pointer: it is equal to its target, but vol.offset
\* is the address of the pointer itself, where no dentry is.
FieldAddress == Nil
IsSubdir(ns, d, old) == d = old \/ DAncestor(ns, d, FieldAddress, {}) # Nil

RECURSIVE Climb(_, _, _, _, _)
Climb(ns, m, d, root, seen) ==
  IF m = root[2] \/ ns.up[m] = m \/ m \in seen THEN <<d, m>>
  ELSE Climb(ns, ns.up[m], ns.point[m], root, seen \cup {m})

\* Mutant: any place in the mount of the root.
IsMountReachable(ns, m, root) == Climb(ns, m, ns.root[m], root, {})[2] = root[2]

IsPathReachable(ns, m, root) ==
  LET top == Climb(ns, m, ns.root[m], root, {})
  IN top[2] = root[2] /\ IsSubdir(ns, top[1], root[1])

\* mnt_share.next is a pointer too: the address it is kept at is the one of
\* mnt_share, and the mount around it the mount itself.
NextPeer(ns, m) == m

RECURSIVE Peers(_, _, _, _, _, _)
Peers(ns, m, first, space, root, seen) ==
  IF m \in seen THEN Nil
  ELSE IF ns.space[m] = space /\ IsPathReachable(ns, m, root) THEN m
  ELSE IF NextPeer(ns, m) = first THEN Nil
  ELSE Peers(ns, NextPeer(ns, m), first, space, root, seen \cup {m})

GetPeerUnderRoot(ns, m, space, root) == Peers(ns, m, m, space, root, {})

\* The first master up the chain of masters that has a peer under the root.
RECURSIVE Dominating(_, _, _, _, _)
Dominating(ns, m, space, root, seen) ==
  IF m = Nil \/ m \in seen THEN Nil
  ELSE LET peer == GetPeerUnderRoot(ns, m, space, root)
       IN IF peer # Nil THEN peer ELSE Dominating(ns, ns.master[m], space, root, seen \cup {m})

-----------------------------------------------------------------------------
(* The tree of processes: parent[pid] of each listed task, which need not be
   listed itself. Swapper is 0, init 1 and kthreadd 2. *)

\* How far up find_level gets from a task, and the <<parent, child>> pairs on
\* the way.
RECURSIVE FindLevel(_, _, _, _)
FindLevel(parent, pid, parents, seen) ==
  IF \/ pid \notin DOMAIN parent \/ pid = 0
     \/ parent[pid] \in parents \/ pid \in seen
     \/ parent[pid] = 0 /\ pid > 2
    THEN [level |-> 0, pairs |-> {}]
  ELSE LET up == FindLevel(parent, parent[pid], parents \cup {parent[pid]}, seen \cup {pid})
       IN [level |-> up.level + 1, pairs |-> up.pairs \cup {<<parent[pid], pid>>}]

Level(parent, pid) == FindLevel(parent, pid, {}, {})
Children(parent) == UNION {Level(parent, p).pairs : p \in DOMAIN parent}

\* Mutant: the listing begins at every task whatever its level.
AnyLevel(parent, pid) == TRUE

Begins(parent, pid) == Level(parent, pid).level = 1

\* A task and its descendants in the order of their pids. A task that is its own
\* ancestor comes again without an end; the listing stops at the first repeat.
RECURSIVE YieldProcesses(_, _, _)
YieldProcesses(children, pid, above) ==
  <<pid>> \o IF pid \in above THEN <<>>
             ELSE LET below == SetToSortSeq({c[2] : c \in {c \in children : c[1] = pid}}, <)
                  IN FlattenSeq([i \in DOMAIN below |->
                                   YieldProcesses(children, below[i], above \cup {pid})])

\* The rows of a root up to the first that was shown already.
NewRows(rows, shown) ==
  LET old == {i \in DOMAIN rows : rows[i] \in shown \/ rows[i] \in ToSet(SubSeq(rows, 1, i - 1))}
  IN SubSeq(rows, 1, (CHOOSE n \in 0..Len(rows) :
                        /\ n = Len(rows) \/ n + 1 \in old
                        /\ old \cap (1..n) = {}))

\* order is the order the tasks were listed in.
PsTree(parent, order) ==
  FoldLeft(LAMBDA shown, pid :
             IF ~Begins(parent, pid) THEN shown
             ELSE shown \o NewRows(YieldProcesses(Children(parent), pid, {}), ToSet(shown)),
           <<>>, order)
=============================================================================
