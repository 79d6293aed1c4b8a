------------------------------ MODULE TreeGrid ------------------------------
(***************************************************************************)
(* The table a plugin returns: the rows its generator yields, each with a  *)
(* level, made into a tree one by one, what JsonRenderer's visitor makes   *)
(* of each under a filter, and the insertion of a row among the children   *)
(* of a node, which renumbers the paths behind it.                         *)
(*                                                                         *)
(* A row is known by the number of its insertion.  A node's path is the    *)
(* sequence of its indexes in the lists of children, from the root.        *)
(***************************************************************************)
EXTENDS Integers, SequencesExt

CONSTANTS
    MaxRows,     \* bound: the rows of a grid
    MaxLevel     \* bound: the deepest level a generator gives

ASSUME GridAssumption == MaxRows \in Nat /\ MaxLevel \in Nat

VARIABLES
    children,    \* of each node, and of the root NoParent: the list of its children
    parents,     \* of each node, _parent
    paths,       \* of each node, _path
    nodes,       \* prev_nodes
    rowCount,    \* _row_count
    populated,   \* _populated
    accMap,      \* acc_map: the row that was printed at a path
    under        \* of each row that was printed: where, NoParent for the outermost list

gridVars == <<children, parents, paths, nodes, rowCount, populated, accMap, under>>

NoParent == 0

Lower(m, n) == IF m <= n THEN m ELSE n

PathOf(node) == IF node = NoParent THEN <<>> ELSE paths[node]

Agree(p, q, n) == \A k \in 1..n : p[k] = q[k]

GridInit ==
    /\ children = [node \in {NoParent} |-> <<>>]
    /\ parents = <<>> /\ paths = <<>> /\ nodes = <<>>
    /\ rowCount = 0 /\ populated = FALSE
    /\ accMap = [path \in {} |-> NoParent] /\ under = [row \in {} |-> NoParent]
-----------------------------------------------------------------------------
\* The paths from newpath on, among its siblings and all that is below them.
AtOrAfter(path, newpath) ==
    LET k == Len(newpath)
    IN  Len(path) >= k /\ Agree(path, newpath, k - 1) /\ path[k] >= newpath[k]

\* Mutant: only the siblings are visited, not what is below them.
VisitsSiblings(path, newpath) == Len(path) = Len(newpath) /\ AtOrAfter(path, newpath)

\* The children from the position on are visited, with all below them.
Visits(path, newpath) == AtOrAfter(path, newpath)

PathChanged(path, newpath) ==
    LET k == Len(newpath)
    IN  IF path[k] >= newpath[k] THEN [path EXCEPT ![k] = @ + 1] ELSE path

\* children.insert(position, (tree_item, [])), which appends at the end.  The list is the
\* one _find_children comes to along the parent's path, as long as PathsResolve holds.
Attach(parent, position, row) ==
    [node \in 0..row |->
        CASE node = row -> <<>>
          [] node = parent -> InsertAt(children[node], position + 1, row)
          [] OTHER -> children[node]]
-----------------------------------------------------------------------------
\* Mutant: the nodes below the new one's level are not dropped.
KeepPrevious(index, row) == nodes \o <<row>>

\* prev_nodes[0:parent_index] + [treenode]
NextPrevious(index, row) == SubSeq(nodes, 1, index) \o <<row>>

\* Mutant: a row the filter takes is remembered all the same.
PrintedAnyway(row, path, hidden) ==
    [p \in DOMAIN accMap \cup {path} |-> IF p = path THEN row ELSE accMap[p]]

Printed(row, path, hidden) ==
    IF hidden THEN accMap
    ELSE [p \in DOMAIN accMap \cup {path} |-> IF p = path THEN row ELSE accMap[p]]

\* Only add if the parent has not been filtered out.
PlaceOf(parent) ==
    IF parent # NoParent /\ paths[parent] \in DOMAIN accMap
    THEN accMap[paths[parent]] ELSE NoParent

\* One turn of populate: _append, prev_nodes, and the visitor, which returns at
\* once for a row that the filter hides.
Row(level, hidden) ==
    LET row == Len(parents) + 1
        index == Lower(Len(nodes), level)
        parent == IF index > 0 THEN nodes[index] ELSE NoParent
        newpath == Append(PathOf(parent), Len(children[parent]))
    IN  /\ ~populated /\ row <= MaxRows
        /\ children' = Attach(parent, Len(children[parent]), row)
        /\ parents' = Append(parents, parent)
        /\ paths' = Append(paths, newpath)
        /\ nodes' = NextPrevious(index, row)
        /\ rowCount' = rowCount + 1
        /\ accMap' = Printed(row, newpath, hidden)
        /\ under' = IF hidden THEN under
                    ELSE [r \in DOMAIN under \cup {row} |->
                             IF r = row THEN PlaceOf(parent) ELSE under[r]]
        /\ UNCHANGED populated

\* The generator has no more rows, or failed where populate does not.
Populated ==
    /\ ~populated
    /\ populated' = TRUE
    /\ UNCHANGED <<children, parents, paths, nodes, rowCount, accMap, under>>

\* _insert at a position among the children of a node.
Insert(parent, position) ==
    LET row == Len(parents) + 1
        newpath == Append(PathOf(parent), position)
    IN  /\ populated /\ row <= MaxRows
        /\ children' = Attach(parent, position, row)
        /\ parents' = Append(parents, parent)
        /\ paths' = Append([i \in 1..Len(paths) |->
                              IF Visits(paths[i], newpath) THEN PathChanged(paths[i], newpath)
                              ELSE paths[i]],
                           newpath)
        /\ UNCHANGED <<nodes, rowCount, populated, accMap, under>>

GridNext ==
    \/ \E level \in 0..MaxLevel, hidden \in BOOLEAN : Row(level, hidden)
    \/ Populated
    \/ \E parent \in 0..Len(parents) : \E position \in 0..Len(children[parent]) :
          Insert(parent, position)

GridSpec == GridInit /\ [][GridNext]_gridVars
-----------------------------------------------------------------------------
\* A node comes before another one when the tree is visited in order.
Before(p, q) ==
    \/ Len(p) < Len(q) /\ Agree(p, q, Len(p))
    \/ \E k \in 1..Lower(Len(p), Len(q)) : p[k] < q[k] /\ Agree(p, q, k - 1)

\* The path of a node leads to it: it is the path of its parent and then its place
\* in the list of the parent's children, where _find_children looks for it
\* (renderers/__init__.py:352-366, 387-412).
PathsResolve ==
    \A row \in 1..Len(parents) :
        LET above == PathOf(parents[row])
            place == paths[row][Len(paths[row])]
        IN  /\ Len(paths[row]) = Len(above) + 1
            /\ Agree(above, paths[row], Len(above))
            /\ place + 1 \in 1..Len(children[parents[row]])
            /\ children[parents[row]][place + 1] = row

\* A grid is visited in the order in which the generator yielded its rows, whatever
\* levels it gave them and wherever rows are inserted later
\* (renderers/__init__.py:318-326, 387-412).
VisitIsRowOrder ==
    \A i, j \in 1..rowCount : i < j => Before(paths[i], paths[j])

\* A row that was printed stands below its parent if that was printed too, before
\* it, and else in the outermost list: no row is lost with its parent or put under
\* another (cli/text_renderer.py:599-607).
JsonPrintsEveryRow ==
    \A row \in DOMAIN under :
        /\ under[row] = IF parents[row] \in DOMAIN under THEN parents[row] ELSE NoParent
        /\ under[row] < row

\* The rows of a grid come out in the order they went in, each where its path leads
\* and below its parent, and an insertion changes no order
\* (renderers/__init__.py:292-412, cli/text_renderer.py:569-617).
GridKeepsRows == PathsResolve /\ VisitIsRowOrder /\ JsonPrintsEveryRow
=============================================================================
