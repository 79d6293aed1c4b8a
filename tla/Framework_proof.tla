-------------------------- MODULE Framework_proof --------------------------
(***************************************************************************)
(* Proofs about the layers and the symbol tables of a context, for any     *)
(* names, stackers, tables and bodies, and about the table of results, for *)
(* any number of rows and any levels; and about the files of symbols that  *)
(* runs share, for any number of runs, inodes, blocks and kills.           *)
(***************************************************************************)
EXTENDS LayerStack, SymbolSpace, TreeGrid, SymbolFetch, SequenceTheorems, TLAPS

(* The layers.                                                              *)

\* Every layer that one of these depends on is among them.
Closed(held) == \A n \in DOMAIN held : held[n].dependencies \subseteq DOMAIN held

\* The stack is a chain of layers of this context.
Chained(held, list) ==
  /\ \A i \in 1..Len(list) : list[i] \in DOMAIN held
  /\ \A i \in 1..(Len(list) - 1) : list[i + 1] \in held[list[i]].dependencies

\* A context that has all the layers of another, as they are, and maybe more.
Extends(more, held) ==
  /\ DOMAIN held \subseteq DOMAIN more
  /\ \A n \in DOMAIN held : more[n] = held[n]

LayersInv ==
  /\ stacked \in Seq(Names) /\ stacked # <<>>
  /\ Closed(layers)
  /\ phase = "stacking" => Chained(layers, stacked)

\* A layer that can be added leaves the context closed, and the others alone.
LEMMA WithIsClosed ==
  ASSUME NEW held, NEW n, NEW dependencies, NEW by,
         Closed(held), CanAdd(held, n, dependencies)
  PROVE  /\ Closed(With(held, n, dependencies, by))
         /\ Extends(With(held, n, dependencies, by), held)
         /\ n \in DOMAIN With(held, n, dependencies, by)
         /\ With(held, n, dependencies, by)[n].dependencies = dependencies
<1> DEFINE more == With(held, n, dependencies, by)
<1>1. /\ DOMAIN more = DOMAIN held \cup {n}
      /\ more[n] = [dependencies |-> dependencies, by |-> by]
      /\ \A m \in DOMAIN held : more[m] = held[m]
  BY DEF With, CanAdd
<1>2. more[n].dependencies = dependencies
  BY <1>1
<1> HIDE DEF more
<1>3. Closed(more)
  BY <1>1, <1>2 DEF Closed, CanAdd
<1>4. Extends(more, held)
  BY <1>1 DEF Extends
<1> QED
  BY <1>1, <1>2, <1>3, <1>4 DEF more

\* A side layer leaves the context closed, and the others alone.
LEMMA SidesAreClosed ==
  ASSUME Closed(layers), NEW side \in Sides
  PROVE  Closed(side) /\ Extends(side, layers)
<1>1. CASE side = layers
  BY <1>1 DEF Extends
<1>2. CASE \E n \in Names : CanAdd(layers, n, {}) /\ side = With(layers, n, {}, Nobody)
  BY <1>2, WithIsClosed
<1> QED
  BY <1>1, <1>2 DEF Sides

\* A context that extends one that extends a third extends the third.
LEMMA ExtendsIsTransitive ==
  ASSUME NEW a, NEW b, NEW c, Extends(b, a), Extends(c, b)
  PROVE  Extends(c, a)
  BY DEF Extends

\* A chain stays one in a larger context.
LEMMA ChainStays ==
  ASSUME NEW held, NEW more, NEW list \in Seq(Names),
         Extends(more, held), Chained(held, list)
  PROVE  Chained(more, list)
<1>1. \A i \in 1..Len(list) : list[i] \in DOMAIN held /\ more[list[i]] = held[list[i]]
  BY DEF Extends, Chained
<1> QED
  BY <1>1 DEF Extends, Chained

\* The layer stacked last is put on top of the chain.
LEMMA ChainGrows ==
  ASSUME NEW held, NEW list \in Seq(Names), list # <<>>, NEW n \in Names,
         Chained(held, list), n \in DOMAIN held,
         Head(list) \in held[n].dependencies
  PROVE  Chained(held, <<n>> \o list)
<1> DEFINE longer == <<n>> \o list
<1>1. /\ longer \in Seq(Names)
      /\ Len(longer) = Len(list) + 1
      /\ longer[1] = n
      /\ \A i \in 1..Len(list) : longer[i + 1] = list[i]
  OBVIOUS
<1> HIDE DEF longer
<1>2. ASSUME NEW i \in 1..Len(longer) PROVE longer[i] \in DOMAIN held
  <2>1. CASE i = 1
    BY <1>1, <2>1
  <2>2. CASE i # 1
    <3>1. i - 1 \in 1..Len(list) /\ (i - 1) + 1 = i
      BY <1>1, <2>2
    <3> QED
      BY <1>1, <3>1 DEF Chained
  <2> QED
    BY <2>1, <2>2
<1>3. ASSUME NEW i \in 1..(Len(longer) - 1)
      PROVE  longer[i + 1] \in held[longer[i]].dependencies
  <2>1. longer[i + 1] = list[i]
    BY <1>1
  <2>2. CASE i = 1
    BY <1>1, <2>1, <2>2
  <2>3. CASE i # 1
    <3>1. i - 1 \in 1..(Len(list) - 1) /\ (i - 1) + 1 = i
      BY <1>1, <2>3
    <3>2. longer[i] = list[i - 1]
      BY <1>1, <3>1
    <3>3. list[(i - 1) + 1] \in held[list[i - 1]].dependencies
      BY <3>1 DEF Chained
    <3> QED
      BY <2>1, <3>1, <3>2, <3>3
  <2> QED
    BY <2>2, <2>3
<1> QED
  BY <1>2, <1>3 DEF Chained, longer

\* The invariant holds of the evidence file alone.
LEMMA InitLayersInv == LayersInit => LayersInv
  BY FileAssumption DEF LayersInit, LayersInv, Closed, Chained

\* Every step of the stacker and of the plugins keeps the invariant.
LEMMA NextLayersInv == LayersInv /\ [LayersNext]_layerVars => LayersInv'
<1> SUFFICES ASSUME LayersInv, [LayersNext]_layerVars PROVE LayersInv'
  OBVIOUS
<1>1. CASE UNCHANGED layerVars
  BY <1>1 DEF LayersInv, layerVars
<1>2. CASE Decline
  <2>1. Closed(layers') /\ Extends(layers', layers)
    BY <1>2, SidesAreClosed DEF Decline, LayersInv
  <2>2. Chained(layers', stacked)
    BY <1>2, <2>1, ChainStays DEF Decline, LayersInv
  <2> QED
    BY <1>2, <2>1, <2>2 DEF Decline, LayersInv
<1>3. CASE Finish
  BY <1>3 DEF Finish, LayersInv
<1>4. ASSUME NEW n \in Names, Stack(n) PROVE LayersInv'
  <2>1. PICK side \in Sides : /\ CanAdd(side, n, Base(side))
                              /\ layers' = With(side, n, Base(side), stackSet[at])
    BY <1>4 DEF Stack
  <2>2. Closed(side) /\ Extends(side, layers)
    BY SidesAreClosed DEF LayersInv
  <2>3. /\ Closed(layers') /\ Extends(layers', side)
        /\ n \in DOMAIN layers' /\ layers'[n].dependencies = Base(side)
    BY <2>1, <2>2, WithIsClosed
  <2>4. Chained(layers', stacked)
    <3>1. Extends(layers', layers)
      BY <2>2, <2>3, ExtendsIsTransitive
    <3> QED
      BY <1>4, <3>1, ChainStays DEF LayersInv, Stack
  <2>5. Chained(layers', <<n>> \o stacked)
    BY <2>3, <2>4, ChainGrows DEF LayersInv, Base
  <2>6. stacked' \in Seq(Names) /\ stacked' # <<>>
    BY <1>4 DEF LayersInv, Stack
  <2> QED
    BY <1>4, <2>3, <2>5, <2>6 DEF LayersInv, Stack
<1>5. ASSUME NEW n \in Names, DelLayer(n) PROVE LayersInv'
  <2>1. /\ DOMAIN layers' = Present \ {n}
        /\ \A m \in Present \ {n} : layers'[m] = layers[m]
    BY <1>5 DEF DelLayer
  <2>2. Closed(layers')
    BY <1>5, <2>1 DEF DelLayer, CanDel, LayersInv, Closed, Present
  <2> QED
    BY <1>5, <2>2 DEF DelLayer, LayersInv
<1>6. ASSUME NEW n \in Names, NEW d \in SUBSET Names, AddLayer(n, d) PROVE LayersInv'
  BY <1>6, WithIsClosed DEF AddLayer, LayersInv
<1> QED
  BY <1>1, <1>2, <1>3, <1>4, <1>5, <1>6 DEF LayersNext

\* The stackers left are different ones, and none of them has stacked a layer.
StackersInv ==
  /\ stackSet \in Seq(Range(Stackers))
  /\ \A i, j \in 1..Len(stackSet) : stackSet[i] = stackSet[j] => i = j
  /\ at \in Nat \ {0}
  /\ phase = "stacking" =>
       \A n \in Present : layers[n].by = Nobody \/ layers[n].by \notin Range(stackSet)

\* A list without one of its members has the others, once each.
LEMMA RemovingOne ==
  ASSUME NEW S, NEW list \in Seq(S), NEW i \in 1..Len(list),
         \A j, k \in 1..Len(list) : list[j] = list[k] => j = k
  PROVE  LET left == Removing(list, i) IN
         /\ left \in Seq(S)
         /\ \A j, k \in 1..Len(left) : left[j] = left[k] => j = k
         /\ Range(left) \subseteq Range(list)
         /\ list[i] \notin Range(left)
<1> DEFINE left == Removing(list, i)
           was(k) == IF k < i THEN k ELSE k + 1
<1> DEFINE front == SubSeq(list, 1, i - 1)
           back == SubSeq(list, i + 1, Len(list))
<1>1. /\ left \in Seq(S)
      /\ Len(left) = Len(list) - 1
      /\ \A k \in 1..Len(left) : left[k] = list[was(k)]
  <2>1. /\ front \in Seq(S) /\ Len(front) = i - 1
        /\ \A k \in 1..(i - 1) : front[k] = list[k]
    OBVIOUS
  <2>2. /\ back \in Seq(S) /\ Len(back) = Len(list) - i
        /\ \A k \in 1..(Len(list) - i) : back[k] = list[k + i]
    OBVIOUS
  <2>3. left = front \o back
    BY DEF Removing, RemoveAt
  <2> HIDE DEF front, back, left
  <2>4. left \in Seq(S) /\ Len(left) = Len(list) - 1
    BY <2>1, <2>2, <2>3
  <2>5. ASSUME NEW k \in 1..Len(left) PROVE left[k] = list[was(k)]
    <3>1. CASE k < i
      BY <2>1, <2>2, <2>3, <2>4, <3>1
    <3>2. CASE ~(k < i)
      <4>1. k - (i - 1) \in 1..(Len(list) - i) /\ (k - (i - 1)) + i = k + 1
        BY <2>4, <3>2
      <4>2. left[k] = back[k - (i - 1)]
        BY <2>1, <2>2, <2>3, <2>4, <3>2, <4>1
      <4> QED
        BY <2>2, <3>2, <4>1, <4>2
    <3> QED
      BY <3>1, <3>2
  <2> QED
    BY <2>4, <2>5
<1>2. \A k \in 1..Len(left) : was(k) \in 1..Len(list) /\ was(k) # i
  BY <1>1
<1>3. \A j, k \in 1..Len(left) : was(j) = was(k) => j = k
  BY <1>1
<1> HIDE DEF left, was
<1>4. \A j, k \in 1..Len(left) : left[j] = left[k] => j = k
  BY <1>1, <1>2, <1>3
<1>5. ASSUME NEW x \in Range(left) PROVE x \in Range(list) /\ x # list[i]
  <2>1. PICK k \in 1..Len(left) : x = left[k]
    BY <1>1 DEF Range
  <2>2. x = list[was(k)] /\ was(k) \in 1..Len(list) /\ was(k) # i
    BY <1>1, <1>2, <2>1
  <2>3. x # list[i]
    BY <2>2
  <2> QED
    BY <2>2, <2>3 DEF Range
<1> QED
  BY <1>1, <1>4, <1>5 DEF left

\* The invariant holds before the first round, with every stacker still to come.
LEMMA InitStackersInv == LayersInit => StackersInv
<1> SUFFICES ASSUME LayersInit PROVE StackersInv
  OBVIOUS
<1>1. Stackers \in Seq(Range(Stackers))
  BY StackersAssumption DEF Range
<1>2. \A i, j \in 1..Len(Stackers) : Stackers[i] = Stackers[j] => i = j
  BY StackersAssumption DEF IsInjective
<1> QED
  BY <1>1, <1>2 DEF LayersInit, StackersInv, Present

\* Every step of the stacker and of the plugins keeps it: the stacker that stacks
\* a layer leaves the list with the same step.
LEMMA NextStackersInv == StackersInv /\ [LayersNext]_layerVars => StackersInv'
<1> SUFFICES ASSUME StackersInv, [LayersNext]_layerVars PROVE StackersInv'
  OBVIOUS
<1>1. CASE UNCHANGED layerVars
  BY <1>1 DEF StackersInv, layerVars, Present
<1>2. ASSUME NEW side \in Sides, phase = "stacking"
      PROVE  \A n \in DOMAIN side :
               side[n].by = Nobody \/ side[n].by \notin Range(stackSet)
  <2>1. CASE side = layers
    BY <1>2, <2>1 DEF StackersInv, Present
  <2>2. ASSUME NEW m \in Names, side = With(layers, m, {}, Nobody)
        PROVE  \A n \in DOMAIN side :
                 side[n].by = Nobody \/ side[n].by \notin Range(stackSet)
    BY <1>2, <2>2 DEF StackersInv, Present, With
  <2> QED
    BY <2>1, <2>2 DEF Sides
<1>3. CASE Decline
  BY <1>2, <1>3 DEF Decline, StackersInv, Present
<1>4. CASE Finish
  BY <1>4 DEF Finish, StackersInv
<1>5. ASSUME NEW n \in Names, Stack(n) PROVE StackersInv'
  <2>1. PICK side \in Sides : layers' = With(side, n, Base(side), stackSet[at])
    BY <1>5 DEF Stack
  <2>2. phase = "stacking" /\ at \in 1..Len(stackSet) /\ stackSet' = Removing(stackSet, at)
        /\ at' = 1
    BY <1>5 DEF Stack, StackersInv
  <2>3. /\ stackSet' \in Seq(Range(Stackers))
        /\ \A i, j \in 1..Len(stackSet') : stackSet'[i] = stackSet'[j] => i = j
        /\ Range(stackSet') \subseteq Range(stackSet)
        /\ stackSet[at] \notin Range(stackSet')
    BY <2>2, RemovingOne, SMTT(30) DEF StackersInv
  <2>4. ASSUME NEW m \in Present'
        PROVE  layers'[m].by = Nobody \/ layers'[m].by \notin Range(stackSet')
    <3>1. CASE m = n
      <4>1. layers'[m] = [dependencies |-> Base(side), by |-> stackSet[at]]
        BY <2>1, <2>4, <3>1 DEF Present, With
      <4> QED
        BY <2>3, <4>1
    <3>2. CASE m # n
      <4>1. m \in DOMAIN side /\ layers'[m] = side[m]
        BY <2>1, <2>4, <3>2 DEF Present, With
      <4>2. side[m].by = Nobody \/ side[m].by \notin Range(stackSet)
        BY <1>2, <2>2, <4>1
      <4> QED
        BY <2>3, <4>1, <4>2
    <3> QED
      BY <3>1, <3>2
  <2> QED
    BY <2>2, <2>3, <2>4 DEF StackersInv
<1>6. ASSUME NEW n \in Names, DelLayer(n) PROVE StackersInv'
  BY <1>6 DEF DelLayer, StackersInv
<1>7. ASSUME NEW n \in Names, NEW d \in SUBSET Names, AddLayer(n, d) PROVE StackersInv'
  BY <1>7 DEF AddLayer, StackersInv
<1> QED
  BY <1>1, <1>3, <1>4, <1>5, <1>6, <1>7 DEF LayersNext

\* A side layer is one like the others.
LEMMA SidesHaveTypes ==
  ASSUME LayersTypeOK, NEW side \in Sides
  PROVE  DOMAIN side \subseteq Names /\ \A m \in DOMAIN side : side[m] \in Layer
<1>1. CASE side = layers
  BY <1>1 DEF LayersTypeOK, Present
<1>2. ASSUME NEW m \in Names, side = With(layers, m, {}, Nobody)
      PROVE  DOMAIN side \subseteq Names /\ \A k \in DOMAIN side : side[k] \in Layer
  BY <1>2 DEF LayersTypeOK, Present, With, Layer
<1> QED
  BY <1>1, <1>2 DEF Sides

\* THEOREM: the variables of the stacker and the context keep their types.
THEOREM LayersTypeCorrect == LayersSpec => []LayersTypeOK
<1>1. LayersInit => LayersTypeOK
  <2> SUFFICES ASSUME LayersInit PROVE LayersTypeOK
    OBVIOUS
  <2>1. Stackers \in Seq(Range(Stackers))
    BY StackersAssumption DEF Range
  <2> QED
    BY <2>1, FileAssumption DEF LayersInit, LayersTypeOK, Present, Layer
<1>2. LayersTypeOK /\ StackersInv /\ [LayersNext]_layerVars => LayersTypeOK'
  <2> SUFFICES ASSUME LayersTypeOK, StackersInv, [LayersNext]_layerVars PROVE LayersTypeOK'
    OBVIOUS
  <2>1. CASE UNCHANGED layerVars
    BY <2>1 DEF LayersTypeOK, layerVars, Present
  <2>2. CASE Decline
    BY <2>2, SidesHaveTypes DEF Decline, LayersTypeOK, Present
  <2>3. CASE Finish
    BY <2>3 DEF Finish, LayersTypeOK, Present
  <2>4. ASSUME NEW n \in Names, Stack(n) PROVE LayersTypeOK'
    <3>1. PICK side \in Sides : layers' = With(side, n, Base(side), stackSet[at])
      BY <2>4 DEF Stack
    <3>2. DOMAIN side \subseteq Names /\ \A m \in DOMAIN side : side[m] \in Layer
      BY SidesHaveTypes
    <3>3. at \in 1..Len(stackSet) /\ stackSet[at] \in Range(Stackers)
      BY <2>4 DEF Stack, LayersTypeOK
    <3>4. Base(side) \subseteq Names
      BY <3>2 DEF Base, LayersTypeOK
    <3>5. [dependencies |-> Base(side), by |-> stackSet[at]] \in Layer
      BY <3>3, <3>4 DEF Layer
    <3>6. Present' \subseteq Names /\ \A m \in Present' : layers'[m] \in Layer
      BY <3>1, <3>2, <3>5 DEF Present, With
    <3>7. stackSet' \in Seq(Range(Stackers))
      BY <2>4, <3>3, RemovingOne DEF Stack, StackersInv
    <3>8. stacked' \in Seq(Names) \ {<<>>} /\ at' \in Nat \ {0} /\ phase' = phase
      BY <2>4 DEF Stack, LayersTypeOK
    <3> QED
      BY <3>6, <3>7, <3>8 DEF LayersTypeOK
  <2>5. ASSUME NEW n \in Names, DelLayer(n) PROVE LayersTypeOK'
    BY <2>5 DEF DelLayer, LayersTypeOK, Present
  <2>6. ASSUME NEW n \in Names, NEW d \in SUBSET Names, AddLayer(n, d) PROVE LayersTypeOK'
    <3>1. [dependencies |-> d, by |-> Nobody] \in Layer
      BY DEF Layer
    <3>2. Present' \subseteq Names /\ \A m \in Present' : layers'[m] \in Layer
      BY <2>6, <3>1 DEF AddLayer, LayersTypeOK, Present, With
    <3> QED
      BY <2>6, <3>2 DEF AddLayer, LayersTypeOK
  <2> QED
    BY <2>1, <2>2, <2>3, <2>4, <2>5, <2>6 DEF LayersNext
<1> QED
  BY <1>1, <1>2, InitStackersInv, NextStackersInv, PTL DEF LayersSpec

\* THEOREM: whatever stackers return and plugins add or remove, all that a layer
\* depends on is in the context, the stack is a chain down to the evidence file,
\* and no stacker that has stacked a layer is tried again.
THEOREM StackIsAlwaysSound == LayersSpec => []StackIsSound
<1>1. LayersInv => DependenciesPresent
  BY DEF LayersInv, Closed, DependenciesPresent, Present
<1>2. LayersInv => StackedIsAChain
  BY DEF LayersInv, Chained, StackedIsAChain, Present
<1>3. StackersInv => EachStackerOnce
  BY DEF StackersInv, EachStackerOnce
<1>4. LayersInv /\ StackersInv => StackIsSound
  BY <1>1, <1>2, <1>3 DEF StackIsSound
<1> QED
  BY <1>4, InitLayersInv, NextLayersInv, InitStackersInv, NextStackersInv, PTL DEF LayersSpec
-----------------------------------------------------------------------------
(* The symbol tables.                                                       *)

\* What get_type leaves in the cache when it resolves a name: what was there,
\* and what it reached, as it is found in the tables.
LEMMA GetTypeAdds ==
  ASSUME NEW n \in Name, NEW after \in AfterGetType(n), after # resolved
  PROVE  \E reached \in SUBSET Name :
           /\ IsVisit(n, reached)
           /\ DOMAIN after = DOMAIN resolved \cup reached
           /\ \A m \in DOMAIN resolved : after[m] = resolved[m]
           /\ \A m \in reached :
                /\ m \notin DOMAIN resolved
                /\ after[m] = IF Found(m) THEN dict[m[1]].serial ELSE 0
<1>1. PICK reached \in SUBSET Name :
        /\ IsVisit(n, reached)
        /\ after = [m \in DOMAIN resolved \cup reached |->
                      IF m \in DOMAIN resolved THEN resolved[m]
                      ELSE IF Found(m) THEN dict[m[1]].serial ELSE 0]
  BY DEF AfterGetType
<1>2. \A m \in reached : m \notin DOMAIN resolved
  BY <1>1 DEF IsVisit
<1> QED
  BY <1>1, <1>2

\* A symbol that is recorded has its type, was cleared, or has a bare reference for
\* one; a symbol that has its type is recorded, and its type was no bare reference.
SymbolsRight ==
  \A t \in Tables :
    /\ t \in subresolved /\ symbols[t] # "full" =>
         t \in cleared \/ (t \in Held /\ dict[t].body.bare)
    /\ symbols[t] = "full" => t \in subresolved /\ t \in Held /\ ~ dict[t].body.bare

\* The cache of types is current and closed, and the symbols are as they should be.
SpaceInv ==
  /\ SpaceTypeOK
  /\ ResolvedIsCurrent
  /\ ClosedUnderChildren
  /\ SymbolsRight

\* What get_type adds is typed, current and closed.
LEMMA GetTypeKeeps ==
  ASSUME SpaceInv, NEW n \in Name, resolved' \in AfterGetType(n), dict' = dict,
         serial' = serial
  PROVE  /\ DOMAIN resolved' \subseteq Name
         /\ \A m \in DOMAIN resolved' : resolved'[m] \in 0..serial
         /\ ResolvedIsCurrent'
         /\ ClosedUnderChildren'
<1>1. CASE resolved' = resolved
  BY <1>1 DEF SpaceInv, SpaceTypeOK, ResolvedIsCurrent, ClosedUnderChildren, Held, Children
<1>2. CASE resolved' # resolved
  <2>1. PICK reached \in SUBSET Name :
           /\ IsVisit(n, reached)
           /\ DOMAIN resolved' = DOMAIN resolved \cup reached
           /\ \A m \in DOMAIN resolved : resolved'[m] = resolved[m]
           /\ \A m \in reached :
                /\ m \notin DOMAIN resolved
                /\ resolved'[m] = IF Found(m) THEN dict[m[1]].serial ELSE 0
    BY <1>2, GetTypeAdds
  <2>2. DOMAIN resolved' \subseteq Name
    BY <2>1 DEF SpaceInv, SpaceTypeOK
  <2>3. ASSUME NEW m \in DOMAIN resolved' PROVE resolved'[m] \in 0..serial
    BY <2>1 DEF SpaceInv, SpaceTypeOK, Found, Held
  <2>4. ResolvedIsCurrent'
    BY <2>1 DEF SpaceInv, ResolvedIsCurrent, Found, Held
  <2>5. ASSUME NEW m \in DOMAIN resolved', resolved'[m] # 0
        PROVE  Children(m) \subseteq DOMAIN resolved'
    <3>1. CASE m \in DOMAIN resolved
      BY <2>1, <2>5, <3>1 DEF SpaceInv, ClosedUnderChildren
    <3>2. CASE m \in reached
      BY <2>1, <2>5, <3>2 DEF IsVisit, Traversed
    <3> QED
      BY <2>1, <3>1, <3>2
  <2>6. ClosedUnderChildren'
    BY <2>5 DEF ClosedUnderChildren, Children
  <2> QED
    BY <2>2, <2>3, <2>4, <2>6
<1> QED
  BY <1>1, <1>2

\* The invariant holds of a context without tables.
LEMMA InitSpaceInv == SpaceInit => SpaceInv
  BY AppendsAssumption
  DEF SpaceInit, SpaceInv, SpaceTypeOK, ResolvedIsCurrent, ClosedUnderChildren,
      SymbolsRight, Held

\* A table appended under a new name disturbs nothing; one that replaces
\* another forgets all that was resolved.
LEMMA AppendSpaceInv ==
  ASSUME SpaceInv, NEW t \in Tables, NEW body \in Bodies, AppendTable(t, body)
  PROVE  SpaceInv'
<1>1. /\ serial' = serial + 1 /\ serial' \in 0..MaxAppends
      /\ DOMAIN dict' = Held \cup {t}
      /\ dict'[t] = [body |-> body, serial |-> serial + 1]
      /\ \A u \in Held \ {t} : dict'[u] = dict[u]
      /\ subresolved' = subresolved
  BY AppendsAssumption DEF AppendTable, SpaceInv, SpaceTypeOK
<1>2. \A u \in Held' : dict'[u].body \in Bodies /\ dict'[u].serial \in 1..serial'
  BY <1>1 DEF SpaceInv, SpaceTypeOK, Held
<1>3. /\ symbols' \in [Tables -> {"none", "raw", "full"}]
      /\ cleared' \subseteq Tables
      /\ cleared' = cleared \cup ({t} \cap subresolved)
      /\ symbols'[t] = "none" /\ \A u \in Tables \ {t} : symbols'[u] = symbols[u]
  BY DEF AppendTable, SpaceInv, SpaceTypeOK
<1>6. SymbolsRight'
  BY <1>1, <1>3 DEF SpaceInv, SymbolsRight, Held
<1>4. CASE t \in Held
  <2>1. DOMAIN resolved' = {}
    BY <1>4 DEF AppendTable, AfterAppend, NoResolutions
  <2>2. ResolvedIsCurrent' /\ ClosedUnderChildren'
    BY <2>1 DEF ResolvedIsCurrent, ClosedUnderChildren
  <2> QED
    BY <1>1, <1>2, <1>3, <1>6, <2>1, <2>2 DEF SpaceInv, SpaceTypeOK, Held
<1>5. CASE t \notin Held
  <2>1. resolved' = resolved
    BY <1>5 DEF AppendTable, AfterAppend
  <2>2. \A n \in DOMAIN resolved :
           resolved[n] # 0 => n[1] \in Held /\ dict'[n[1]] = dict[n[1]]
    BY <1>1, <1>5 DEF SpaceInv, ResolvedIsCurrent
  <2>3. ResolvedIsCurrent'
    BY <1>1, <2>1, <2>2 DEF SpaceInv, ResolvedIsCurrent, Held
  <2>4. ClosedUnderChildren'
    BY <2>1, <2>2 DEF SpaceInv, ClosedUnderChildren, Children
  <2>5. \A n \in DOMAIN resolved' : resolved'[n] \in 0..serial'
    BY <1>1, <2>1 DEF SpaceInv, SpaceTypeOK
  <2> QED
    BY <1>1, <1>2, <1>3, <1>6, <2>1, <2>3, <2>4, <2>5 DEF SpaceInv, SpaceTypeOK, Held
<1> QED
  BY <1>4, <1>5

\* Removing a table forgets all that was resolved.
LEMMA RemoveSpaceInv ==
  ASSUME SpaceInv, NEW t \in Tables, RemoveTable(t)
  PROVE  SpaceInv'
<1>1. /\ DOMAIN dict' = Held \ {t}
      /\ \A u \in Held \ {t} : dict'[u] = dict[u]
      /\ DOMAIN resolved' = {}
      /\ UNCHANGED <<subresolved, serial>>
  BY DEF RemoveTable, NoResolutions
<1>2. /\ symbols' \in [Tables -> {"none", "raw", "full"}]
      /\ cleared' \subseteq Tables
      /\ cleared' = cleared \cup ({t} \cap subresolved)
      /\ symbols'[t] = "none" /\ \A u \in Tables \ {t} : symbols'[u] = symbols[u]
  BY DEF RemoveTable, SpaceInv, SpaceTypeOK
<1>5. SymbolsRight'
  BY <1>1, <1>2 DEF SpaceInv, SymbolsRight, Held
<1>3. SpaceTypeOK'
  BY <1>1, <1>2 DEF SpaceInv, SpaceTypeOK, Held
<1>4. ResolvedIsCurrent' /\ ClosedUnderChildren'
  BY <1>1 DEF ResolvedIsCurrent, ClosedUnderChildren
<1> QED
  BY <1>3, <1>4, <1>5 DEF SpaceInv

\* Asking for a symbol records it when its type was resolved, or is a bare reference.
LEMMA GetSymbolSpaceInv ==
  ASSUME SpaceInv, NEW t \in Tables, GetSymbol(t)
  PROVE  SpaceInv'
<1>1. UNCHANGED <<dict, serial, cleared>> /\ t \in Held
  BY DEF GetSymbol
<1>2. dict[t].body.symbol \in Name /\ symbols \in [Tables -> {"none", "raw", "full"}]
  BY <1>1, BodiesAssumption DEF SpaceInv, SpaceTypeOK
<1>3. CASE Untouched(t)
  <2>1. /\ resolved' = resolved
        /\ subresolved' = subresolved \cup {t}
        /\ symbols' = [symbols EXCEPT ![t] = IF @ = "none" THEN "raw" ELSE @]
    BY <1>3 DEF GetSymbol
  <2>2. /\ symbols' \in [Tables -> {"none", "raw", "full"}]
        /\ \A u \in Tables : symbols'[u] = "full" <=> symbols[u] = "full"
    BY <1>2, <2>1
  <2>3. SymbolsRight'
    BY <1>1, <1>3, <2>1, <2>2 DEF SpaceInv, SymbolsRight, Held, Untouched
  <2>4. subresolved' \subseteq Tables
    BY <2>1 DEF SpaceInv, SpaceTypeOK
  <2>5. SpaceTypeOK'
    BY <1>1, <2>1, <2>2, <2>4 DEF SpaceInv, SpaceTypeOK, Held
  <2>6. ResolvedIsCurrent' /\ ClosedUnderChildren'
    BY <1>1, <2>1 DEF SpaceInv, ResolvedIsCurrent, ClosedUnderChildren, Held, Children
  <2> QED
    BY <2>3, <2>5, <2>6 DEF SpaceInv
<1>4. CASE ~ Untouched(t)
  <2>1. /\ resolved' \in AfterGetType(dict[t].body.symbol)
        /\ symbols' = [symbols EXCEPT ![t] =
                          IF Answers(dict[t].body.symbol, resolved')
                          THEN "full" ELSE "raw"]
        /\ subresolved' =
             IF Records(t, resolved') THEN subresolved \cup {t} ELSE subresolved
    BY <1>4 DEF GetSymbol
  <2>2. /\ symbols' \in [Tables -> {"none", "raw", "full"}]
        /\ \A u \in Tables \ {t} : symbols'[u] = symbols[u]
        /\ symbols'[t] = "full" <=> Records(t, resolved')
    BY <1>2, <2>1 DEF Records
  <2>3. t \notin subresolved /\ ~ dict[t].body.bare
    BY <1>4 DEF Untouched
  <2>4. SymbolsRight'
    BY <1>1, <2>1, <2>2, <2>3 DEF SpaceInv, SymbolsRight, Held
  <2>5. subresolved' \subseteq Tables
    BY <2>1 DEF SpaceInv, SpaceTypeOK
  <2>6. /\ DOMAIN resolved' \subseteq Name
        /\ \A m \in DOMAIN resolved' : resolved'[m] \in 0..serial
        /\ ResolvedIsCurrent' /\ ClosedUnderChildren'
    BY <1>1, <1>2, <2>1, GetTypeKeeps
  <2>7. SpaceTypeOK'
    BY <1>1, <2>2, <2>5, <2>6 DEF SpaceInv, SpaceTypeOK, Held
  <2> QED
    BY <2>4, <2>6, <2>7 DEF SpaceInv
<1> QED
  BY <1>3, <1>4

\* Every step keeps the invariant.
LEMMA NextSpaceInv == SpaceInv /\ [SpaceNext]_spaceVars => SpaceInv'
<1> SUFFICES ASSUME SpaceInv, [SpaceNext]_spaceVars PROVE SpaceInv'
  OBVIOUS
<1>1. CASE UNCHANGED spaceVars
  BY <1>1
  DEF SpaceInv, SpaceTypeOK, ResolvedIsCurrent, ClosedUnderChildren, SymbolsRight, Held,
      Children, spaceVars
<1>2. ASSUME NEW t \in Tables, ClearSymbolCache(t) PROVE SpaceInv'
  <2>1. /\ symbols' \in [Tables -> {"none", "raw", "full"}]
        /\ cleared' \subseteq Tables
        /\ cleared' = cleared \cup ({t} \cap subresolved)
        /\ symbols'[t] = "none" /\ \A u \in Tables \ {t} : symbols'[u] = symbols[u]
    BY <1>2 DEF ClearSymbolCache, SpaceInv, SpaceTypeOK
  <2>2. UNCHANGED <<dict, resolved, subresolved, serial>>
    BY <1>2 DEF ClearSymbolCache
  <2>3. SymbolsRight'
    BY <2>1, <2>2 DEF SpaceInv, SymbolsRight, Held
  <2> QED
    BY <2>1, <2>2, <2>3
    DEF SpaceInv, SpaceTypeOK, ResolvedIsCurrent, ClosedUnderChildren, Held, Children
<1>3. ASSUME NEW n \in Name, GetType(n) PROVE SpaceInv'
  <2>1. /\ DOMAIN resolved' \subseteq Name
        /\ \A m \in DOMAIN resolved' : resolved'[m] \in 0..serial
        /\ ResolvedIsCurrent' /\ ClosedUnderChildren'
    BY <1>3, GetTypeKeeps DEF GetType
  <2>2. SymbolsRight'
    BY <1>3 DEF GetType, SpaceInv, SymbolsRight, Held
  <2> QED
    BY <1>3, <2>1, <2>2 DEF GetType, SpaceInv, SpaceTypeOK, Held
<1> QED
  BY <1>1, <1>2, <1>3, AppendSpaceInv, RemoveSpaceInv, GetSymbolSpaceInv DEF SpaceNext

\* THEOREM: the variables of the symbol tables keep their types.
THEOREM SpaceTypeCorrect == SpaceSpec => []SpaceTypeOK
<1>1. SpaceInv => SpaceTypeOK
  BY DEF SpaceInv
<1> QED
  BY <1>1, InitSpaceInv, NextSpaceInv, PTL DEF SpaceSpec

\* THEOREM: a cached type is one of the table that has its name now, all that it
\* refers to is cached with it, and a symbol whose type is not resolved will be
\* tried again, was made anew after its table was replaced or cleared, or has a bare
\* reference for a type, which is never resolved.
THEOREM ResolutionIsAlwaysSound == SpaceSpec => []ResolutionIsSound
<1>1. SpaceInv => RawSymbolIsRetried
  BY DEF SpaceInv, SpaceTypeOK, SymbolsRight, RawSymbolIsRetried, Held
<1>2. SpaceInv => ResolutionIsSound
  BY <1>1 DEF SpaceInv, ResolutionIsSound
<1> QED
  BY <1>2, InitSpaceInv, NextSpaceInv, PTL DEF SpaceSpec

\* THEOREM: an answer, a failure of a name that another type refers to among
\* them, stays until a table is removed or replaced.
THEOREM AnswersAlwaysStay == SpaceSpec => AnswersStay
<1> DEFINE Stays == \A n \in DOMAIN resolved : n \in DOMAIN resolved' /\ resolved'[n] = resolved[n]
           Goes == \E t \in Held : t \notin DOMAIN dict' \/ dict'[t] # dict[t]
<1>1. ASSUME SpaceInv, [SpaceNext]_spaceVars PROVE Stays \/ Goes
  <2>1. CASE UNCHANGED spaceVars
    BY <2>1 DEF spaceVars
  <2>2. ASSUME NEW t \in Tables, NEW body \in Bodies, AppendTable(t, body)
        PROVE  Stays \/ Goes
    <3>1. CASE t \in Held
      <4>1. dict'[t].serial = serial + 1 /\ dict[t].serial \in 1..serial /\ serial \in Nat
        BY <1>1, <2>2, <3>1 DEF AppendTable, SpaceInv, SpaceTypeOK
      <4>2. dict'[t] # dict[t]
        BY <4>1
      <4> QED
        BY <3>1, <4>2
    <3>2. CASE t \notin Held
      BY <2>2, <3>2 DEF AppendTable, AfterAppend
    <3> QED
      BY <3>1, <3>2
  <2>3. ASSUME NEW t \in Tables, RemoveTable(t) PROVE Goes
    BY <2>3 DEF RemoveTable
  <2>4. ASSUME NEW n \in Name, resolved' \in AfterGetType(n) PROVE Stays
    BY <2>4, GetTypeAdds
  <2>5. ASSUME NEW t \in Tables, GetSymbol(t) PROVE Stays
    <3>1. dict[t].body.symbol \in Name
      BY <1>1, <2>5, BodiesAssumption DEF GetSymbol, SpaceInv, SpaceTypeOK
    <3>2. resolved' = resolved \/ resolved' \in AfterGetType(dict[t].body.symbol)
      BY <2>5 DEF GetSymbol
    <3> QED
      BY <2>4, <3>1, <3>2
  <2>6. ASSUME NEW t \in Tables, ClearSymbolCache(t) PROVE Stays
    BY <2>6 DEF ClearSymbolCache
  <2>7. ASSUME NEW n \in Name, GetType(n) PROVE Stays
    BY <2>4, <2>7 DEF GetType
  <2> HIDE DEF Stays, Goes
  <2> QED
    BY <1>1, <2>1, <2>2, <2>3, <2>5, <2>6, <2>7 DEF SpaceNext
<1>2. SpaceInv /\ [SpaceNext]_spaceVars => [Stays \/ Goes]_spaceVars
  BY <1>1
<1> QED
  BY <1>2, InitSpaceInv, NextSpaceInv, PTL DEF SpaceSpec, AnswersStay

-----------------------------------------------------------------------------
(* The grid.                                                                *)

\* The number of a path's last component, where its node is among its siblings.
PathIn(pt, node) == IF node = NoParent THEN <<>> ELSE pt[node]

\* Paths are sequences of natural numbers, none of them empty.
WellFormed(ch, pa, pt, n) ==
  /\ n \in Nat
  /\ \A r \in 1..n : /\ Len(pt[r]) \in Nat /\ Len(pt[r]) >= 1
                     /\ \A d \in 1..Len(pt[r]) : pt[r][d] \in Nat
  /\ \A p \in 0..n : Len(ch[p]) \in Nat
  /\ \A r \in 1..n : pa[r] \in Nat /\ pa[r] < r

\* A path is the path of the parent and then the place in the parent's list.
Resolves(ch, pa, pt, n) ==
  \A r \in 1..n :
    /\ Len(pt[r]) = Len(PathIn(pt, pa[r])) + 1
    /\ Agree(PathIn(pt, pa[r]), pt[r], Len(PathIn(pt, pa[r])))
    /\ pt[r][Len(pt[r])] + 1 <= Len(ch[pa[r]])
    /\ ch[pa[r]][pt[r][Len(pt[r])] + 1] = r

\* A list of children holds children, each at the place its path says.
Listed(ch, pa, pt, n) ==
  \A p \in 0..n : \A x \in 1..Len(ch[p]) :
    /\ ch[p][x] \in 1..n
    /\ pa[ch[p][x]] = p
    /\ pt[ch[p][x]][Len(pt[ch[p][x]])] = x - 1

\* No two nodes have the same path.
Distinct(pt, n) ==
  \A i, j \in 1..n :
    Len(pt[i]) = Len(pt[j]) /\ Agree(pt[i], pt[j], Len(pt[i])) => i = j

Forest(ch, pa, pt, n) ==
  /\ WellFormed(ch, pa, pt, n) /\ Resolves(ch, pa, pt, n)
  /\ Listed(ch, pa, pt, n) /\ Distinct(pt, n)

\* A node is added at a position among the children of a parent; if it is not
\* added at the end, the paths from there on move by one.
NewPathIs(pt, parent, position, np) ==
  /\ Len(np) = Len(PathIn(pt, parent)) + 1
  /\ Agree(PathIn(pt, parent), np, Len(np) - 1)
  /\ np[Len(np)] = position

Moved(pt, np, shift, r) == shift /\ AtOrAfter(pt[r], np)

PathsMove(pt, pt2, n, np, shift) ==
  \A r \in 1..n :
    /\ Len(pt2[r]) = Len(pt[r])
    /\ \A d \in 1..Len(pt[r]) :
         pt2[r][d] = IF Moved(pt, np, shift, r) /\ d = Len(np) THEN pt[r][d] + 1 ELSE pt[r][d]

ListGrows(ch, ch2, n, parent, position) ==
  /\ ch2[n + 1] = <<>>
  /\ \A p \in 0..n : p # parent => ch2[p] = ch[p]
  /\ Len(ch2[parent]) = Len(ch[parent]) + 1
  /\ \A x \in 1..position : ch2[parent][x] = ch[parent][x]
  /\ ch2[parent][position + 1] = n + 1
  /\ \A x \in (position + 2)..(Len(ch[parent]) + 1) : ch2[parent][x] = ch[parent][x - 1]

Grows(ch, pa, pt, n, parent, position, np, shift, ch2, pa2, pt2) ==
  /\ parent \in 0..n /\ position \in 0..Len(ch[parent])
  /\ shift \in BOOLEAN /\ (shift \/ position = Len(ch[parent]))
  /\ NewPathIs(pt, parent, position, np)
  /\ PathsMove(pt, pt2, n, np, shift)
  /\ pt2[n + 1] = np
  /\ ListGrows(ch, ch2, n, parent, position)
  /\ pa2[n + 1] = parent /\ \A r \in 1..n : pa2[r] = pa[r]

LEMMA PathInType ==
  ASSUME NEW ch, NEW pa, NEW pt, NEW n, WellFormed(ch, pa, pt, n), NEW p \in 0..n
  PROVE  /\ Len(PathIn(pt, p)) \in Nat
         /\ \A d \in 1..Len(PathIn(pt, p)) : PathIn(pt, p)[d] \in Nat
         /\ Len(PathIn(pt, p)) = 0 <=> p = 0
<1>1. CASE p = 0
  <2>1. PathIn(pt, p) = <<>>
    BY <1>1 DEF PathIn, NoParent
  <2>2. Len(PathIn(pt, p)) = 0
    BY <2>1
  <2> QED BY <1>1, <2>2
<1>2. CASE p # 0
  <2>1. p \in 1..n /\ PathIn(pt, p) = pt[p]
    BY <1>2 DEF PathIn, NoParent
  <2> QED BY <1>2, <2>1 DEF WellFormed
<1> QED BY <1>1, <1>2

\* Paths of two nodes, or of the root, that look alike are of the same node.
LEMMA AlikeIsSame ==
  ASSUME NEW ch, NEW pa, NEW pt, NEW n, WellFormed(ch, pa, pt, n), Distinct(pt, n),
         NEW p \in 0..n, NEW q \in 0..n,
         Len(PathIn(pt, p)) = Len(PathIn(pt, q)),
         \A d \in 1..Len(PathIn(pt, p)) : PathIn(pt, p)[d] = PathIn(pt, q)[d]
  PROVE  p = q
<1>1. CASE p = 0 \/ q = 0
  BY <1>1, PathInType
<1>2. CASE p # 0 /\ q # 0
  <2>1. /\ p \in 1..n /\ PathIn(pt, p) = pt[p]
        /\ q \in 1..n /\ PathIn(pt, q) = pt[q]
    BY <1>2 DEF PathIn, NoParent
  <2> QED BY <2>1 DEF Distinct, Agree
<1> QED BY <1>1, <1>2

\* The place of a node in another list than the new one's does not change.
LEMMA OtherPlaceKept ==
  ASSUME NEW ch, NEW pa, NEW pt, NEW n, Forest(ch, pa, pt, n),
         NEW parent \in 0..n, NEW position, NEW np, NewPathIs(pt, parent, position, np),
         NEW r \in 1..n, Len(pt[r]) = Len(np), Agree(pt[r], np, Len(np) - 1)
  PROVE  pa[r] = parent
<1> DEFINE above == PathIn(pt, pa[r])
           here == PathIn(pt, parent)
<1>1. WellFormed(ch, pa, pt, n) /\ Distinct(pt, n)
  BY DEF Forest
<1>2. pa[r] \in 0..n
  BY <1>1 DEF WellFormed
<1>3. /\ Len(pt[r]) = Len(above) + 1
      /\ Agree(above, pt[r], Len(above))
  BY DEF Forest, Resolves
<1>4. Len(above) \in Nat /\ Len(here) \in Nat
  BY <1>1, <1>2, PathInType
<1>5. /\ Len(np) = Len(here) + 1
      /\ Agree(here, np, Len(np) - 1)
  BY DEF NewPathIs
<1> HIDE DEF above, here
<1>6. Len(above) = Len(here) /\ Len(np) - 1 = Len(here)
  <2>1. Len(np) - 1 = Len(here)
    BY <1>4, <1>5
  <2>2. Len(above) + 1 = Len(here) + 1
    BY <1>3, <1>5
  <2> QED BY <1>4, <2>1, <2>2
<1>7. ASSUME NEW d \in 1..Len(above) PROVE above[d] = here[d]
  <2>1. d \in 1..(Len(np) - 1)
    BY <1>6
  <2>2. here[d] = np[d]
    BY <1>5, <2>1 DEF Agree
  <2>3. above[d] = pt[r][d]
    BY <1>3 DEF Agree
  <2>4. pt[r][d] = np[d]
    BY <2>1 DEF Agree
  <2> QED BY <2>2, <2>3, <2>4
<1>8. /\ Len(PathIn(pt, pa[r])) = Len(PathIn(pt, parent))
      /\ \A d \in 1..Len(PathIn(pt, pa[r])) : PathIn(pt, pa[r])[d] = PathIn(pt, parent)[d]
  BY <1>6, <1>7 DEF above, here
<1>9. PICK q : q = pa[r]
  OBVIOUS
<1>10. /\ q \in 0..n /\ Len(PathIn(pt, q)) = Len(PathIn(pt, parent))
       /\ \A d \in 1..Len(PathIn(pt, q)) : PathIn(pt, q)[d] = PathIn(pt, parent)[d]
  BY <1>2, <1>8, <1>9, Zenon
<1>11. q = parent
  BY <1>1, <1>10, AlikeIsSame
<1> QED BY <1>9, <1>11

\* The new path is of numbers, and one longer than its parent's.
LEMMA NewPathType ==
  ASSUME NEW ch, NEW pa, NEW pt, NEW n, NEW parent, NEW position, NEW np, NEW shift,
         NEW ch2, NEW pa2, NEW pt2, Forest(ch, pa, pt, n),
         Grows(ch, pa, pt, n, parent, position, np, shift, ch2, pa2, pt2)
  PROVE  /\ Len(np) \in Nat /\ Len(np) >= 1
         /\ position \in Nat
         /\ \A d \in 1..Len(np) : np[d] \in Nat
<1> DEFINE here == PathIn(pt, parent)
<1>1. WellFormed(ch, pa, pt, n) /\ parent \in 0..n /\ position \in 0..Len(ch[parent])
  BY DEF Forest, Grows
<1>2. Len(here) \in Nat /\ \A d \in 1..Len(here) : here[d] \in Nat
  BY <1>1, PathInType
<1>3. position \in Nat
  BY <1>1 DEF WellFormed
<1>4. /\ Len(np) = Len(here) + 1
      /\ Agree(here, np, Len(np) - 1)
      /\ np[Len(np)] = position
  BY DEF Grows, NewPathIs
<1> HIDE DEF here
<1>5. Len(np) \in Nat /\ Len(np) >= 1 /\ Len(np) - 1 = Len(here)
  BY <1>2, <1>4
<1>6. ASSUME NEW d \in 1..Len(np) PROVE np[d] \in Nat
  <2>1. CASE d = Len(np)
    BY <2>1, <1>3, <1>4
  <2>2. CASE d # Len(np)
    <3>1. d \in 1..Len(here) /\ d \in 1..(Len(np) - 1)
      BY <2>2, <1>5
    <3>2. here[d] = np[d]
      BY <3>1, <1>4 DEF Agree
    <3> QED BY <1>2, <3>1, <3>2
  <2> QED BY <2>1, <2>2
<1> QED BY <1>3, <1>5, <1>6

\* Everything stays well formed.
LEMMA WellFormedGrows ==
  ASSUME NEW ch, NEW pa, NEW pt, NEW n, NEW parent, NEW position, NEW np, NEW shift,
         NEW ch2, NEW pa2, NEW pt2, Forest(ch, pa, pt, n),
         Grows(ch, pa, pt, n, parent, position, np, shift, ch2, pa2, pt2)
  PROVE  WellFormed(ch2, pa2, pt2, n + 1)
<1>1. WellFormed(ch, pa, pt, n) /\ n \in Nat
  BY DEF Forest, WellFormed
<1>2. /\ Len(np) \in Nat /\ Len(np) >= 1 /\ position \in Nat
      /\ \A d \in 1..Len(np) : np[d] \in Nat
  BY NewPathType
<1>3. parent \in 0..n /\ PathsMove(pt, pt2, n, np, shift) /\ pt2[n + 1] = np
      /\ ListGrows(ch, ch2, n, parent, position) /\ pa2[n + 1] = parent
      /\ \A r \in 1..n : pa2[r] = pa[r]
  BY DEF Grows
<1>4. ASSUME NEW r \in 1..(n + 1)
      PROVE  /\ Len(pt2[r]) \in Nat /\ Len(pt2[r]) >= 1
             /\ \A d \in 1..Len(pt2[r]) : pt2[r][d] \in Nat
             /\ pa2[r] \in Nat /\ pa2[r] < r
  <2>1. CASE r = n + 1
    BY <2>1, <1>1, <1>2, <1>3
  <2>2. CASE r # n + 1
    <3>1. r \in 1..n
      BY <2>2, <1>1
    <3>2. /\ Len(pt[r]) \in Nat /\ Len(pt[r]) >= 1
          /\ \A d \in 1..Len(pt[r]) : pt[r][d] \in Nat
          /\ pa[r] \in Nat /\ pa[r] < r
      BY <1>1, <3>1 DEF WellFormed
    <3>3. Len(pt2[r]) = Len(pt[r]) /\ pa2[r] = pa[r]
      BY <1>3, <3>1 DEF PathsMove
    <3>4. ASSUME NEW d \in 1..Len(pt[r]) PROVE pt2[r][d] \in Nat
      <4>1. pt2[r][d] = pt[r][d] \/ pt2[r][d] = pt[r][d] + 1
        BY <1>3, <3>1 DEF PathsMove
      <4> QED BY <4>1, <3>2
    <3> QED BY <3>2, <3>3, <3>4
  <2> QED BY <2>1, <2>2
<1>5. ASSUME NEW p \in 0..(n + 1) PROVE Len(ch2[p]) \in Nat
  <2>1. CASE p = n + 1
    <3>1. ch2[p] = <<>>
      BY <2>1, <1>3 DEF ListGrows
    <3> QED BY <3>1
  <2>2. CASE p # n + 1
    <3>1. p \in 0..n
      BY <2>2, <1>1
    <3>2. Len(ch[p]) \in Nat
      BY <3>1, <1>1 DEF WellFormed
    <3>3. CASE p = parent
      BY <3>2, <3>3, <1>3 DEF ListGrows
    <3>4. CASE p # parent
      BY <3>1, <3>2, <3>4, <1>3 DEF ListGrows
    <3> QED BY <3>3, <3>4
  <2> QED BY <2>1, <2>2
<1> QED BY <1>1, <1>4, <1>5 DEF WellFormed

\* What Grows says of the path of a node that was there.
LEMMA OldPath ==
  ASSUME NEW pt, NEW pt2, NEW n, NEW np, NEW shift, PathsMove(pt, pt2, n, np, shift),
         NEW r \in 1..n
  PROVE  /\ Len(pt2[r]) = Len(pt[r])
         /\ \A d \in 1..Len(pt[r]) : d # Len(np) => pt2[r][d] = pt[r][d]
         /\ ~Moved(pt, np, shift, r) => \A d \in 1..Len(pt[r]) : pt2[r][d] = pt[r][d]
         /\ Moved(pt, np, shift, r) /\ Len(np) \in 1..Len(pt[r])
               => pt2[r][Len(np)] = pt[r][Len(np)] + 1
BY DEF PathsMove

\* A node moves with those below it.
LEMMA MovedAlike ==
  ASSUME NEW pt, NEW np, NEW shift, NEW r, NEW q, Len(np) \in Nat, Len(np) >= 1,
         Len(pt[r]) >= Len(np), Len(pt[q]) >= Len(np), Agree(pt[r], pt[q], Len(np))
  PROVE  Moved(pt, np, shift, r) <=> Moved(pt, np, shift, q)
<1>1. \A d \in 1..Len(np) : pt[r][d] = pt[q][d]
  BY DEF Agree
<1>2. pt[r][Len(np)] = pt[q][Len(np)] /\ \A d \in 1..(Len(np) - 1) : pt[r][d] = pt[q][d]
  BY <1>1
<1>3. Agree(pt[r], np, Len(np) - 1) <=> Agree(pt[q], np, Len(np) - 1)
  BY <1>2 DEF Agree
<1> QED BY <1>2, <1>3 DEF Moved, AtOrAfter

\* No node that was there gets the new path.
LEMMA NewPathIsNew ==
  ASSUME NEW ch, NEW pa, NEW pt, NEW n, NEW parent, NEW position, NEW np, NEW shift,
         NEW ch2, NEW pa2, NEW pt2, Forest(ch, pa, pt, n),
         Grows(ch, pa, pt, n, parent, position, np, shift, ch2, pa2, pt2),
         NEW r \in 1..n, Len(pt2[r]) = Len(np), Agree(pt2[r], np, Len(np))
  PROVE  FALSE
<1> DEFINE k == Len(np)
<1>1. k \in Nat /\ k >= 1 /\ np[k] \in Nat
  BY NewPathType
<1>2. /\ parent \in 0..n /\ NewPathIs(pt, parent, position, np) /\ np[k] = position
      /\ shift \in BOOLEAN /\ (shift \/ position = Len(ch[parent]))
      /\ PathsMove(pt, pt2, n, np, shift)
  BY DEF Grows, NewPathIs
<1>3. Len(pt[r]) = k
  BY <1>2, OldPath
<1> HIDE DEF k
<1>4. Agree(pt2[r], np, k)
  BY DEF k
<1>5. ASSUME NEW d \in 1..(k - 1) PROVE pt[r][d] = np[d]
  <2>1. d \in 1..k /\ d # k
    BY <1>1
  <2>2. pt2[r][d] = np[d]
    BY <1>4, <2>1 DEF Agree
  <2>3. pt2[r][d] = pt[r][d]
    BY <2>1, <1>2, <1>3, OldPath DEF k
  <2> QED BY <2>2, <2>3
<1>6. Agree(pt[r], np, k - 1)
  BY <1>5 DEF Agree
<1>7. pa[r] = parent
  BY <1>2, <1>3, <1>6, OtherPlaceKept DEF k
<1>8. k \in 1..k /\ pt2[r][k] = np[k]
  BY <1>1, <1>4 DEF Agree
<1>9. pt[r][k] \in Nat /\ pt[r][k] + 1 <= Len(ch[parent]) /\ Len(ch[parent]) \in Nat
  <2>1. pt[r][k] \in Nat /\ Len(ch[parent]) \in Nat
    BY <1>2, <1>3, <1>8 DEF Forest, WellFormed
  <2>2. pt[r][k] + 1 <= Len(ch[parent])
    BY <1>3, <1>7 DEF Forest, Resolves
  <2> QED BY <2>1, <2>2
<1>10. Moved(pt, np, shift, r) <=> shift /\ pt[r][k] >= np[k]
  BY <1>1, <1>3, <1>6 DEF Moved, AtOrAfter, k
<1>11. CASE Moved(pt, np, shift, r)
  <2>1. pt2[r][k] = pt[r][k] + 1
    BY <1>2, <1>3, <1>8, <1>11, OldPath DEF k
  <2> QED BY <2>1, <1>1, <1>8, <1>9, <1>10, <1>11
<1>12. CASE ~Moved(pt, np, shift, r)
  <2>1. pt2[r][k] = pt[r][k]
    BY <1>2, <1>3, <1>8, <1>12, OldPath
  <2> QED BY <2>1, <1>1, <1>2, <1>8, <1>9, <1>10, <1>12
<1> QED BY <1>11, <1>12

\* Of two nodes with the same path after it, none moved alone.
LEMMA AlikeMoveAlike ==
  ASSUME NEW ch, NEW pa, NEW pt, NEW n, NEW parent, NEW position, NEW np, NEW shift,
         NEW ch2, NEW pa2, NEW pt2, Forest(ch, pa, pt, n),
         Grows(ch, pa, pt, n, parent, position, np, shift, ch2, pa2, pt2),
         NEW i \in 1..n, NEW j \in 1..n, Len(pt[i]) = Len(pt[j]),
         Agree(pt2[i], pt2[j], Len(pt[i])), Moved(pt, np, shift, i)
  PROVE  Moved(pt, np, shift, j)
<1> DEFINE k == Len(np)
<1>1. k \in Nat /\ k >= 1 /\ np[k] \in Nat
  BY NewPathType
<1>2. PathsMove(pt, pt2, n, np, shift)
  BY DEF Grows
<1>3. Len(pt[i]) >= k /\ Agree(pt[i], np, k - 1) /\ pt[i][k] >= np[k] /\ shift
  BY DEF Moved, AtOrAfter
<1>4. Len(pt[i]) \in Nat
  BY DEF Forest, WellFormed
<1> HIDE DEF k
<1>5. k \in 1..Len(pt[i]) /\ k \in 1..Len(pt[j])
  BY <1>1, <1>3, <1>4
<1>6. pt[i][k] \in Nat /\ pt[j][k] \in Nat
  BY <1>5 DEF Forest, WellFormed
<1>7. ASSUME NEW d \in 1..(k - 1) PROVE pt[j][d] = np[d]
  <2>1. d \in 1..Len(pt[i]) /\ d \in 1..Len(pt[j]) /\ d # k
    BY <1>1, <1>3, <1>4
  <2>2. pt2[i][d] = pt[i][d] /\ pt2[j][d] = pt[j][d]
    BY <2>1, <1>2, OldPath DEF k
  <2>3. pt2[i][d] = pt2[j][d]
    BY <2>1 DEF Agree
  <2>4. pt[i][d] = np[d]
    BY <1>3 DEF Agree
  <2> QED BY <2>2, <2>3, <2>4
<1>8. Agree(pt[j], np, k - 1)
  BY <1>7 DEF Agree
<1>9. pt2[i][k] = pt2[j][k]
  BY <1>5 DEF Agree
<1>10. pt2[i][k] = pt[i][k] + 1
  BY <1>2, <1>5, OldPath DEF k
<1>11. SUFFICES ASSUME ~Moved(pt, np, shift, j) PROVE FALSE
  OBVIOUS
<1>12. pt2[j][k] = pt[j][k]
  BY <1>2, <1>5, <1>11, OldPath
<1>13. ~(pt[j][k] >= np[k])
  <2>1. Len(pt[j]) >= k
    BY <1>3
  <2>2. ~AtOrAfter(pt[j], np)
    BY <1>3, <1>11 DEF Moved
  <2>3. Len(pt[j]) >= Len(np) /\ Agree(pt[j], np, Len(np) - 1)
    BY <1>8, <2>1 DEF k
  <2>4. ~(pt[j][Len(np)] >= np[Len(np)])
    BY <2>2, <2>3 DEF AtOrAfter
  <2> QED BY <2>4 DEF k
<1>14. pt[j][k] = pt[i][k] + 1
  BY <1>9, <1>10, <1>12
<1>15. pt[i][k] >= np[k]
  BY <1>3
<1> QED BY <1>1, <1>6, <1>13, <1>14, <1>15

LEMMA DistinctGrows ==
  ASSUME NEW ch, NEW pa, NEW pt, NEW n, NEW parent, NEW position, NEW np, NEW shift,
         NEW ch2, NEW pa2, NEW pt2, Forest(ch, pa, pt, n),
         Grows(ch, pa, pt, n, parent, position, np, shift, ch2, pa2, pt2)
  PROVE  Distinct(pt2, n + 1)
<1>1. n \in Nat /\ pt2[n + 1] = np /\ PathsMove(pt, pt2, n, np, shift)
  BY DEF Forest, WellFormed, Grows
<1>2. ASSUME NEW i \in 1..n, NEW j \in 1..n, Len(pt2[i]) = Len(pt2[j]),
             Agree(pt2[i], pt2[j], Len(pt2[i]))
      PROVE  i = j
  <2>1. Len(pt2[i]) = Len(pt[i]) /\ Len(pt2[j]) = Len(pt[j])
    BY <1>1, OldPath
  <2>2. Len(pt[i]) = Len(pt[j]) /\ Agree(pt2[i], pt2[j], Len(pt[i]))
    BY <1>2, <2>1
  <2>3. Agree(pt2[j], pt2[i], Len(pt[j]))
    BY <2>2 DEF Agree
  <2>4. Moved(pt, np, shift, i) <=> Moved(pt, np, shift, j)
    <3>1. Moved(pt, np, shift, i) => Moved(pt, np, shift, j)
      BY <2>2, AlikeMoveAlike
    <3>2. Moved(pt, np, shift, j) => Moved(pt, np, shift, i)
      BY <2>2, <2>3, AlikeMoveAlike
    <3> QED BY <3>1, <3>2
  <2>5. ASSUME NEW d \in 1..Len(pt[i]) PROVE pt[i][d] = pt[j][d]
    <3>1. d \in 1..Len(pt[j]) /\ pt2[i][d] = pt2[j][d]
      BY <2>2 DEF Agree
    <3>2. pt[i][d] \in Nat /\ pt[j][d] \in Nat
      BY <3>1 DEF Forest, WellFormed
    <3>3. \/ pt2[i][d] = pt[i][d] /\ pt2[j][d] = pt[j][d]
          \/ pt2[i][d] = pt[i][d] + 1 /\ pt2[j][d] = pt[j][d] + 1
      <4>1. /\ pt2[i][d] = IF Moved(pt, np, shift, i) /\ d = Len(np) THEN pt[i][d] + 1
                            ELSE pt[i][d]
            /\ pt2[j][d] = IF Moved(pt, np, shift, j) /\ d = Len(np) THEN pt[j][d] + 1
                            ELSE pt[j][d]
        BY <1>1, <3>1 DEF PathsMove
      <4>2. CASE Moved(pt, np, shift, i) /\ d = Len(np)
        BY <2>4, <4>1, <4>2
      <4>3. CASE ~(Moved(pt, np, shift, i) /\ d = Len(np))
        BY <2>4, <4>1, <4>3, Zenon
      <4> QED BY <4>2, <4>3
    <3> DEFINE x == pt[i][d]
               y == pt[j][d]
    <3>4. x \in Nat /\ y \in Nat /\ (x = y \/ x + 1 = y + 1)
      BY <3>1, <3>2, <3>3
    <3> HIDE DEF x, y
    <3>5. x = y
      BY <3>4
    <3> QED BY <3>5 DEF x, y
  <2>6. Agree(pt[i], pt[j], Len(pt[i]))
    BY <2>5 DEF Agree
  <2> QED BY <2>2, <2>6 DEF Forest, Distinct
<1>3. ASSUME NEW i \in 1..n, Len(pt2[i]) = Len(np),
             Agree(pt2[i], np, Len(np)) \/ Agree(np, pt2[i], Len(np))
      PROVE  FALSE
  <2>1. Agree(pt2[i], np, Len(np))
    BY <1>3 DEF Agree
  <2> QED BY <1>3, <2>1, NewPathIsNew
<1>4. ASSUME NEW i \in 1..(n + 1), NEW j \in 1..(n + 1), Len(pt2[i]) = Len(pt2[j]),
             Agree(pt2[i], pt2[j], Len(pt2[i]))
      PROVE  i = j
  <2>1. (i \in 1..n \/ i = n + 1) /\ (j \in 1..n \/ j = n + 1)
    BY <1>1
  <2>2. CASE i \in 1..n /\ j \in 1..n
    BY <2>2, <1>2, <1>4
  <2>3. CASE i \in 1..n /\ j = n + 1
    <3>1. Len(pt2[i]) = Len(np) /\ Agree(pt2[i], np, Len(np))
      BY <2>3, <1>1, <1>4
    <3> QED BY <2>3, <3>1, <1>3
  <2>4. CASE i = n + 1 /\ j \in 1..n
    <3>1. Len(pt2[j]) = Len(np) /\ Agree(np, pt2[j], Len(np))
      BY <2>4, <1>1, <1>4
    <3> QED BY <2>4, <3>1, <1>3
  <2> QED BY <2>1, <2>2, <2>3, <2>4
<1> QED BY <1>4 DEF Distinct

\* What becomes of the place of a node among its siblings.
LEMMA PlaceGrows ==
  ASSUME NEW ch, NEW pa, NEW pt, NEW n, NEW parent, NEW position, NEW np, NEW shift,
         NEW ch2, NEW pa2, NEW pt2, Forest(ch, pa, pt, n),
         Grows(ch, pa, pt, n, parent, position, np, shift, ch2, pa2, pt2), NEW r \in 1..n
  PROVE  /\ Len(pt[r]) \in Nat /\ Len(pt[r]) \in 1..Len(pt[r]) /\ Len(pt2[r]) = Len(pt[r])
         /\ pt[r][Len(pt[r])] \in Nat
         /\ pa[r] # parent => pt2[r][Len(pt[r])] = pt[r][Len(pt[r])]
         /\ pa[r] = parent /\ pt[r][Len(pt[r])] < position
               => pt2[r][Len(pt[r])] = pt[r][Len(pt[r])]
         /\ pa[r] = parent /\ ~(pt[r][Len(pt[r])] < position)
               => pt2[r][Len(pt[r])] = pt[r][Len(pt[r])] + 1
<1> DEFINE k == Len(np)
           last == Len(pt[r])
<1>1. k \in Nat /\ k >= 1 /\ position \in Nat
  BY NewPathType
<1>2. /\ parent \in 0..n /\ NewPathIs(pt, parent, position, np) /\ np[k] = position
      /\ shift \in BOOLEAN /\ (shift \/ position = Len(ch[parent]))
      /\ PathsMove(pt, pt2, n, np, shift)
  BY DEF Grows, NewPathIs
<1>3. last \in Nat /\ last >= 1
  BY DEF Forest, WellFormed
<1>4. Len(pt2[r]) = last
  BY <1>2, OldPath
<1> HIDE DEF last, k
<1>5. last \in 1..last
  BY <1>3
<1>6. pt[r][last] \in Nat
  BY <1>5 DEF Forest, WellFormed, last
<1>7. last # k => pt2[r][last] = pt[r][last]
  BY <1>2, <1>5, OldPath DEF last, k
<1>8. ~Moved(pt, np, shift, r) => pt2[r][last] = pt[r][last]
  BY <1>2, <1>5, OldPath DEF last
<1>9. last = k /\ Moved(pt, np, shift, r) => pt2[r][last] = pt[r][last] + 1
  BY <1>2, <1>5, OldPath DEF last, k
<1>10. ASSUME pa[r] # parent PROVE pt2[r][last] = pt[r][last]
  <2>1. ASSUME last = k, Moved(pt, np, shift, r) PROVE FALSE
    <3>1. Agree(pt[r], np, Len(np) - 1)
      BY <2>1 DEF Moved, AtOrAfter
    <3>2. Len(pt[r]) = Len(np)
      BY <2>1 DEF last, k
    <3> QED BY <1>2, <1>10, <3>1, <3>2, OtherPlaceKept
  <2> QED BY <1>7, <1>8, <2>1
<1>11. ASSUME pa[r] = parent
       PROVE  last = k /\ (Moved(pt, np, shift, r) <=> shift /\ pt[r][last] >= position)
  <2> DEFINE here == PathIn(pt, parent)
  <2>1. /\ last = Len(here) + 1 /\ Agree(here, pt[r], Len(here))
        /\ k = Len(here) + 1 /\ Agree(here, np, k - 1)
    BY <1>2, <1>11 DEF Forest, Resolves, NewPathIs, last, k
  <2>2. Len(here) \in Nat
    BY <1>2, PathInType DEF Forest
  <2> HIDE DEF here
  <2>3. last = k /\ Len(here) = k - 1
    BY <2>1, <2>2
  <2>4. \A d \in 1..(k - 1) : pt[r][d] = np[d]
    BY <2>1, <2>3 DEF Agree
  <2>5. Agree(pt[r], np, k - 1)
    BY <2>4 DEF Agree
  <2>6. Len(pt[r]) >= Len(np) /\ Agree(pt[r], np, Len(np) - 1)
    BY <2>3, <2>5, <1>3 DEF last, k
  <2>7. Moved(pt, np, shift, r) <=> shift /\ pt[r][Len(np)] >= np[Len(np)]
    BY <2>6 DEF Moved, AtOrAfter
  <2> QED BY <2>3, <2>7, <1>2 DEF last, k
<1>12. ASSUME pa[r] = parent, ~shift PROVE pt[r][last] < position
  <2>1. position = Len(ch[parent])
    BY <1>2, <1>12
  <2>2. pt[r][last] + 1 <= Len(ch[parent])
    BY <1>12 DEF Forest, Resolves, last
  <2> QED BY <2>1, <2>2, <1>1, <1>6
<1>13. pa[r] = parent /\ pt[r][last] < position => pt2[r][last] = pt[r][last]
  <2>1. pt[r][last] < position => ~(pt[r][last] >= position)
    BY <1>1, <1>6
  <2> QED BY <2>1, <1>8, <1>11
<1>14. pa[r] = parent /\ ~(pt[r][last] < position) => pt2[r][last] = pt[r][last] + 1
  <2>1. ~(pt[r][last] < position) => pt[r][last] >= position
    BY <1>1, <1>6
  <2> QED BY <2>1, <1>2, <1>9, <1>11, <1>12
<1> QED BY <1>3, <1>4, <1>5, <1>6, <1>10, <1>13, <1>14 DEF last

LEMMA ListedGrows ==
  ASSUME NEW ch, NEW pa, NEW pt, NEW n, NEW parent, NEW position, NEW np, NEW shift,
         NEW ch2, NEW pa2, NEW pt2, Forest(ch, pa, pt, n),
         Grows(ch, pa, pt, n, parent, position, np, shift, ch2, pa2, pt2)
  PROVE  Listed(ch2, pa2, pt2, n + 1)
<1> DEFINE Here(p, x, c) == c \in 1..(n + 1) /\ pa2[c] = p /\ pt2[c][Len(pt2[c])] = x - 1
<1>1. n \in Nat /\ position \in Nat /\ parent \in 0..n /\ pt2[n + 1] = np
      /\ np[Len(np)] = position /\ pa2[n + 1] = parent /\ \A r \in 1..n : pa2[r] = pa[r]
  BY NewPathType DEF Forest, WellFormed, Grows, NewPathIs
<1>2. ListGrows(ch, ch2, n, parent, position)
  BY DEF Grows
<1>3. position <= Len(ch[parent]) /\ Len(ch[parent]) \in Nat
  BY <1>1 DEF Grows, Forest, WellFormed
<1>4. ASSUME NEW p \in 0..n, NEW x \in 1..Len(ch[p])
      PROVE  /\ ch[p][x] \in 1..n /\ pa2[ch[p][x]] = p
             /\ pt[ch[p][x]][Len(pt[ch[p][x]])] = x - 1
  BY <1>1 DEF Forest, Listed
<1>5. ASSUME NEW p \in 0..n, p # parent, NEW x \in 1..Len(ch[p]) PROVE Here(p, x, ch[p][x])
  <2> DEFINE c == ch[p][x]
  <2>1. c \in 1..n /\ pa2[c] = p /\ pt[c][Len(pt[c])] = x - 1
    BY <1>4
  <2> HIDE DEF c
  <2>2. pa[c] # parent
    BY <2>1, <1>1, <1>5
  <2>3. pt2[c][Len(pt2[c])] = x - 1
    BY <2>1, <2>2, PlaceGrows
  <2>4. c \in 1..(n + 1)
    BY <2>1, <1>1
  <2> QED BY <2>1, <2>3, <2>4 DEF c
<1>6. ASSUME NEW x \in 1..position PROVE Here(parent, x, ch[parent][x])
  <2> DEFINE c == ch[parent][x]
  <2>1. x \in 1..Len(ch[parent])
    BY <1>1, <1>3
  <2>2. c \in 1..n /\ pa2[c] = parent /\ pt[c][Len(pt[c])] = x - 1
    BY <1>1, <1>4, <2>1
  <2> HIDE DEF c
  <2>3. pa[c] = parent /\ pt[c][Len(pt[c])] < position
    BY <2>2, <1>1
  <2>4. pt2[c][Len(pt2[c])] = x - 1
    BY <2>2, <2>3, PlaceGrows
  <2>5. c \in 1..(n + 1)
    BY <2>2, <1>1
  <2> QED BY <2>2, <2>4, <2>5 DEF c
<1>7. ASSUME NEW x \in (position + 2)..(Len(ch[parent]) + 1)
      PROVE  Here(parent, x, ch[parent][x - 1])
  <2> DEFINE c == ch[parent][x - 1]
  <2>1. x - 1 \in 1..Len(ch[parent])
    BY <1>1, <1>3
  <2>2. c \in 1..n /\ pa2[c] = parent /\ pt[c][Len(pt[c])] = (x - 1) - 1
    BY <1>1, <1>4, <2>1
  <2> HIDE DEF c
  <2>3. pa[c] = parent /\ ~(pt[c][Len(pt[c])] < position)
    <3>1. ~((x - 1) - 1 < position)
      BY <1>1, <1>3
    <3>2. pa[c] = parent
      BY <1>1, <2>2
    <3> QED BY <2>2, <3>1, <3>2
  <2>4. pt2[c][Len(pt2[c])] = ((x - 1) - 1) + 1
    BY <2>2, <2>3, PlaceGrows
  <2>5. c \in 1..(n + 1) /\ ((x - 1) - 1) + 1 = x - 1
    BY <2>2, <1>1, <1>3
  <2> QED BY <2>2, <2>4, <2>5 DEF c
<1>8. Here(parent, position + 1, n + 1)
  BY <1>1
<1> HIDE DEF Here
<1>9. ASSUME NEW p \in 0..(n + 1), NEW x \in 1..Len(ch2[p]) PROVE Here(p, x, ch2[p][x])
  <2>1. CASE p = n + 1
    <3>1. Len(ch2[p]) = 0
      BY <2>1, <1>2 DEF ListGrows
    <3> QED BY <3>1
  <2>2. CASE p # n + 1 /\ p # parent
    <3>1. p \in 0..n
      BY <2>2, <1>1
    <3>2. ch2[p] = ch[p]
      BY <2>2, <3>1, <1>2 DEF ListGrows
    <3> QED BY <2>2, <3>1, <3>2, <1>5
  <2>3. CASE p = parent
    <3>1. x \in 1..(Len(ch[parent]) + 1)
      BY <2>3, <1>2 DEF ListGrows
    <3>2. x \in 1..position \/ x = position + 1 \/ x \in (position + 2)..(Len(ch[parent]) + 1)
      BY <3>1, <1>1, <1>3
    <3>3. CASE x \in 1..position
      <4>1. ch2[parent][x] = ch[parent][x]
        BY <3>3, <1>2 DEF ListGrows
      <4> QED BY <2>3, <3>3, <4>1, <1>6
    <3>4. CASE x = position + 1
      <4>1. ch2[parent][x] = n + 1
        BY <3>4, <1>2 DEF ListGrows
      <4> QED BY <2>3, <3>4, <4>1, <1>8
    <3>5. CASE x \in (position + 2)..(Len(ch[parent]) + 1)
      <4>1. ch2[parent][x] = ch[parent][x - 1]
        BY <3>5, <1>2 DEF ListGrows
      <4> QED BY <2>3, <3>5, <4>1, <1>7
    <3> QED BY <3>2, <3>3, <3>4, <3>5
  <2> QED BY <2>1, <2>2, <2>3
<1> QED BY <1>9 DEF Listed, Here

\* The path of a node still goes on from its parent's.
LEMMA ParentPathGrows ==
  ASSUME NEW ch, NEW pa, NEW pt, NEW n, NEW parent, NEW position, NEW np, NEW shift,
         NEW ch2, NEW pa2, NEW pt2, Forest(ch, pa, pt, n),
         Grows(ch, pa, pt, n, parent, position, np, shift, ch2, pa2, pt2), NEW r \in 1..n
  PROVE  /\ Len(PathIn(pt2, pa[r])) = Len(PathIn(pt, pa[r]))
         /\ Agree(PathIn(pt2, pa[r]), pt2[r], Len(PathIn(pt, pa[r])))
<1> DEFINE q == pa[r]
<1>1. Len(np) \in Nat /\ Len(np) >= 1 /\ PathsMove(pt, pt2, n, np, shift)
  <2>1. Len(np) \in Nat /\ Len(np) >= 1
    BY NewPathType
  <2> QED BY <2>1 DEF Grows
<1>2. CASE q = 0
  <2>1. PathIn(pt, q) = <<>> /\ PathIn(pt2, q) = <<>>
    BY <1>2 DEF PathIn, NoParent
  <2>2. Len(PathIn(pt, q)) = 0 /\ Len(PathIn(pt2, q)) = 0
    BY <2>1
  <2> QED BY <2>2 DEF Agree
<1>3. CASE q # 0
  <2>1. q \in 1..n
    BY <1>3 DEF Forest, WellFormed
  <2>2. PathIn(pt, q) = pt[q] /\ PathIn(pt2, q) = pt2[q]
    BY <1>3 DEF PathIn, NoParent
  <2>3. Len(pt[r]) = Len(pt[q]) + 1 /\ Agree(pt[q], pt[r], Len(pt[q]))
    BY <2>2 DEF Forest, Resolves
  <2>4. Len(pt[q]) \in Nat
    BY <2>1 DEF Forest, WellFormed
  <2> HIDE DEF q
  <2>5. Len(pt2[q]) = Len(pt[q])
    BY <1>1, <2>1, OldPath
  <2>6. ASSUME NEW d \in 1..Len(pt[q]) PROVE pt2[q][d] = pt2[r][d]
    <3>1. d \in 1..Len(pt[r]) /\ pt[q][d] = pt[r][d]
      BY <2>3, <2>4 DEF Agree
    <3>2. CASE d # Len(np)
      <4>1. pt2[q][d] = pt[q][d] /\ pt2[r][d] = pt[r][d]
        BY <1>1, <2>1, <3>1, <3>2, OldPath
      <4> QED BY <3>1, <4>1
    <3>3. CASE d = Len(np)
      <4>1. Len(pt[q]) >= Len(np) /\ Len(pt[r]) >= Len(np)
        BY <2>3, <2>4, <3>3
      <4>2. Agree(pt[q], pt[r], Len(np))
        BY <1>1, <2>3, <2>4, <4>1 DEF Agree
      <4>3. Moved(pt, np, shift, q) <=> Moved(pt, np, shift, r)
        BY <1>1, <4>1, <4>2, MovedAlike
      <4>4. /\ pt2[q][d] = IF Moved(pt, np, shift, q) /\ d = Len(np) THEN pt[q][d] + 1
                           ELSE pt[q][d]
            /\ pt2[r][d] = IF Moved(pt, np, shift, r) /\ d = Len(np) THEN pt[r][d] + 1
                           ELSE pt[r][d]
        BY <1>1, <2>1, <3>1 DEF PathsMove
      <4> QED BY <3>1, <4>3, <4>4
    <3> QED BY <3>2, <3>3
  <2> QED BY <2>2, <2>5, <2>6 DEF Agree, q
<1> QED BY <1>2, <1>3

\* The new path goes on from the parent's, which does not change.
LEMMA NewPathGrows ==
  ASSUME NEW ch, NEW pa, NEW pt, NEW n, NEW parent, NEW position, NEW np, NEW shift,
         NEW ch2, NEW pa2, NEW pt2, Forest(ch, pa, pt, n),
         Grows(ch, pa, pt, n, parent, position, np, shift, ch2, pa2, pt2)
  PROVE  /\ Len(np) = Len(PathIn(pt2, parent)) + 1
         /\ Agree(PathIn(pt2, parent), np, Len(PathIn(pt2, parent)))
<1> DEFINE here == PathIn(pt, parent)
           after == PathIn(pt2, parent)
           k == Len(np)
<1>1. parent \in 0..n /\ PathsMove(pt, pt2, n, np, shift) /\ n \in Nat
  BY DEF Grows, Forest, WellFormed
<1>2. k = Len(here) + 1 /\ Agree(here, np, k - 1)
  BY DEF Grows, NewPathIs
<1>3. Len(here) \in Nat
  BY <1>1, PathInType DEF Forest
<1>4. CASE parent = 0
  <2>1. here = <<>> /\ after = <<>>
    BY <1>4 DEF PathIn, NoParent
  <2> QED BY <1>2, <2>1 DEF Agree
<1>5. CASE parent # 0
  <2>1. parent \in 1..n /\ here = pt[parent] /\ after = pt2[parent]
    BY <1>5, <1>1 DEF PathIn, NoParent
  <2>2. /\ Len(after) = Len(here)
        /\ \A d \in 1..Len(here) : d # k => after[d] = here[d]
    <3>1. PathsMove(pt, pt2, n, np, shift)
      BY <1>1
    <3>2. /\ Len(pt2[parent]) = Len(pt[parent])
          /\ \A d \in 1..Len(pt[parent]) : d # Len(np) => pt2[parent][d] = pt[parent][d]
      BY ONLY <2>1, <3>1, OldPath
    <3> QED BY ONLY <2>1, <3>2
  <2> HIDE DEF here, after, k
  <2>3. k - 1 = Len(here)
    BY <1>2, <1>3
  <2>4. ASSUME NEW d \in 1..Len(here) PROVE after[d] = np[d]
    <3>1. d # k /\ d \in 1..(k - 1)
      BY <1>3, <2>3
    <3>2. here[d] = np[d]
      BY <1>2, <3>1 DEF Agree
    <3> QED BY <2>2, <3>1, <3>2
  <2>5. Agree(after, np, Len(after))
    BY <2>2, <2>4 DEF Agree
  <2> QED BY <1>2, <2>2, <2>5 DEF after, k
<1> QED BY <1>4, <1>5

LEMMA ResolvesGrows ==
  ASSUME NEW ch, NEW pa, NEW pt, NEW n, NEW parent, NEW position, NEW np, NEW shift,
         NEW ch2, NEW pa2, NEW pt2, Forest(ch, pa, pt, n),
         Grows(ch, pa, pt, n, parent, position, np, shift, ch2, pa2, pt2)
  PROVE  Resolves(ch2, pa2, pt2, n + 1)
<1> DEFINE Right(r, q) == /\ Len(pt2[r]) = Len(PathIn(pt2, q)) + 1
                          /\ Agree(PathIn(pt2, q), pt2[r], Len(PathIn(pt2, q)))
                          /\ pt2[r][Len(pt2[r])] + 1 <= Len(ch2[q])
                          /\ ch2[q][pt2[r][Len(pt2[r])] + 1] = r
<1>1. n \in Nat /\ position \in Nat /\ parent \in 0..n /\ pt2[n + 1] = np
      /\ np[Len(np)] = position /\ pa2[n + 1] = parent /\ \A r \in 1..n : pa2[r] = pa[r]
  BY NewPathType DEF Forest, WellFormed, Grows, NewPathIs
<1>2. ListGrows(ch, ch2, n, parent, position) /\ PathsMove(pt, pt2, n, np, shift)
  BY DEF Grows
<1>3. position <= Len(ch[parent]) /\ Len(ch[parent]) \in Nat
  BY <1>1 DEF Grows, Forest, WellFormed
<1>4. Right(n + 1, parent)
  <2>1. /\ Len(np) = Len(PathIn(pt2, parent)) + 1
        /\ Agree(PathIn(pt2, parent), np, Len(PathIn(pt2, parent)))
    BY NewPathGrows
  <2>2. position + 1 <= Len(ch2[parent]) /\ ch2[parent][position + 1] = n + 1
    BY <1>1, <1>2, <1>3 DEF ListGrows
  <2> QED BY <1>1, <2>1, <2>2
<1>5. ASSUME NEW r \in 1..n PROVE Right(r, pa[r])
  <2> DEFINE q == pa[r]
             place == pt[r][Len(pt[r])]
  <2>1. /\ Len(pt[r]) = Len(PathIn(pt, q)) + 1
        /\ place + 1 <= Len(ch[q]) /\ ch[q][place + 1] = r
    BY DEF Forest, Resolves
  <2>2. /\ Len(PathIn(pt2, q)) = Len(PathIn(pt, q))
        /\ Agree(PathIn(pt2, q), pt2[r], Len(PathIn(pt, q)))
    BY ParentPathGrows
  <2>3. /\ place \in Nat /\ Len(pt2[r]) = Len(pt[r])
        /\ q # parent => pt2[r][Len(pt[r])] = place
        /\ q = parent /\ place < position => pt2[r][Len(pt[r])] = place
        /\ q = parent /\ ~(place < position) => pt2[r][Len(pt[r])] = place + 1
    BY PlaceGrows
  <2>4. q \in 0..n
    BY DEF Forest, WellFormed
  <2> DEFINE place2 == pt2[r][Len(pt[r])]
  <2> HIDE DEF q, place, place2
  <2>5. place2 + 1 <= Len(ch2[q]) /\ ch2[q][place2 + 1] = r
    <3>1. CASE q # parent
      <4>1. ch2[q] = ch[q]
        BY <1>2, <2>4, <3>1 DEF ListGrows
      <4>2. place2 = place
        BY <2>3, <3>1 DEF place2
      <4> QED BY <2>1, <4>1, <4>2
    <3>2. CASE q = parent /\ place < position
      <4>1. place2 = place
        BY <2>3, <3>2 DEF place2
      <4>2. place + 1 \in 1..position
        BY <1>1, <2>3, <3>2
      <4>3. ch2[parent][place + 1] = ch[parent][place + 1]
        BY <1>2, <4>2 DEF ListGrows
      <4>4. place + 1 <= Len(ch2[parent])
        BY <1>1, <1>2, <1>3, <4>2 DEF ListGrows
      <4> QED BY <2>1, <3>2, <4>1, <4>3, <4>4
    <3>3. CASE q = parent /\ ~(place < position)
      <4>1. place2 = place + 1
        BY <2>3, <3>3 DEF place2
      <4>2. (place + 1) + 1 \in (position + 2)..(Len(ch[parent]) + 1)
        <5>1. place + 1 <= Len(ch[parent])
          BY <2>1, <3>3
        <5>2. place \in Nat /\ ~(place < position)
          BY <2>3, <3>3
        <5> QED BY <1>1, <1>3, <5>1, <5>2
      <4>3. ch2[parent][(place + 1) + 1] = ch[parent][((place + 1) + 1) - 1]
        BY <1>2, <4>2 DEF ListGrows
      <4>4. ((place + 1) + 1) - 1 = place + 1
        BY <2>3
      <4>5. (place + 1) + 1 <= Len(ch2[parent])
        BY <1>2, <1>3, <4>2 DEF ListGrows
      <4> QED BY <2>1, <3>3, <4>1, <4>3, <4>4, <4>5
    <3> QED BY <3>1, <3>2, <3>3
  <2> QED BY <2>1, <2>2, <2>3, <2>5 DEF q, place2
<1> HIDE DEF Right
<1>6. ASSUME NEW r \in 1..(n + 1) PROVE Right(r, pa2[r])
  <2>1. CASE r = n + 1
    BY <2>1, <1>1, <1>4
  <2>2. CASE r # n + 1
    <3>1. r \in 1..n
      BY <2>2, <1>1
    <3> QED BY <3>1, <1>1, <1>5
  <2> QED BY <2>1, <2>2
<1> QED BY <1>6 DEF Resolves, Right

LEMMA ForestGrows ==
  ASSUME NEW ch, NEW pa, NEW pt, NEW n, NEW parent, NEW position, NEW np, NEW shift,
         NEW ch2, NEW pa2, NEW pt2, Forest(ch, pa, pt, n),
         Grows(ch, pa, pt, n, parent, position, np, shift, ch2, pa2, pt2)
  PROVE  Forest(ch2, pa2, pt2, n + 1)
<1>1. WellFormed(ch2, pa2, pt2, n + 1)
  BY WellFormedGrows
<1>2. Resolves(ch2, pa2, pt2, n + 1)
  BY ResolvesGrows
<1>3. Listed(ch2, pa2, pt2, n + 1)
  BY ListedGrows
<1>4. Distinct(pt2, n + 1)
  BY DistinctGrows
<1> QED BY <1>1, <1>2, <1>3, <1>4 DEF Forest

\* Visiting order is an order.
LEMMA BeforeTransitive ==
  ASSUME NEW p \in Seq(Nat), NEW q \in Seq(Nat), NEW r \in Seq(Nat), Before(p, q), Before(q, r)
  PROVE  Before(p, r)
<1> DEFINE a == Len(p)
           b == Len(q)
           c == Len(r)
<1>1. a \in Nat /\ b \in Nat /\ c \in Nat
  OBVIOUS
<1>2. /\ \A d \in 1..a : p[d] \in Nat
      /\ \A d \in 1..b : q[d] \in Nat
      /\ \A d \in 1..c : r[d] \in Nat
  OBVIOUS
<1> HIDE DEF a, b, c
<1>3. ASSUME NEW m \in 1..a, m <= c, p[m] < r[m], Agree(p, r, m - 1) PROVE Before(p, r)
  <2>1. m \in 1..Lower(a, c)
    BY <1>1, <1>3 DEF Lower
  <2> QED BY <1>3, <2>1 DEF Before, a, c
<1>4. ASSUME a < c, Agree(p, r, a) PROVE Before(p, r)
  BY <1>4 DEF Before, a, c
<1>5. \/ a < b /\ Agree(p, q, a)
      \/ \E k \in 1..a : k <= b /\ p[k] < q[k] /\ Agree(p, q, k - 1)
  <2>1. \A k : k \in 1..Lower(a, b) <=> k \in 1..a /\ k <= b
    BY <1>1 DEF Lower
  <2>2. \/ a < b /\ Agree(p, q, a)
        \/ \E k \in 1..Lower(a, b) : p[k] < q[k] /\ Agree(p, q, k - 1)
    BY DEF Before, a, b
  <2> QED BY <2>1, <2>2, Zenon
<1>6. \/ b < c /\ Agree(q, r, b)
      \/ \E k \in 1..b : k <= c /\ q[k] < r[k] /\ Agree(q, r, k - 1)
  <2>1. \A k : k \in 1..Lower(b, c) <=> k \in 1..b /\ k <= c
    BY <1>1 DEF Lower
  <2>2. \/ b < c /\ Agree(q, r, b)
        \/ \E k \in 1..Lower(b, c) : q[k] < r[k] /\ Agree(q, r, k - 1)
    BY DEF Before, b, c
  <2> QED BY <2>1, <2>2, Zenon
<1>7. ASSUME NEW n \in Nat, NEW m \in Nat, NEW l \in Nat, l <= n, l <= m,
             Agree(p, q, n), Agree(q, r, m)
      PROVE  Agree(p, r, l)
  BY <1>7 DEF Agree
<1>8. CASE a < b /\ Agree(p, q, a) /\ b < c /\ Agree(q, r, b)
  <2>1. Agree(p, r, a)
    BY <1>1, <1>7, <1>8
  <2> QED BY <1>1, <1>4, <1>8, <2>1
<1>9. ASSUME a < b, Agree(p, q, a), NEW k \in 1..b, k <= c, q[k] < r[k], Agree(q, r, k - 1)
      PROVE  Before(p, r)
  <2>1. CASE k > a
    <3>1. Agree(p, r, a) /\ a < c
      BY <1>1, <1>7, <1>9, <2>1
    <3> QED BY <1>4, <3>1
  <2>2. CASE k <= a
    <3>1. k \in 1..a /\ k - 1 \in Nat /\ k - 1 <= a
      BY <1>1, <2>2
    <3>2. p[k] = q[k]
      BY <1>9, <3>1, Zenon DEF Agree
    <3>3. Agree(p, r, k - 1)
      BY <1>1, <1>7, <1>9, <3>1
    <3> QED BY <1>3, <1>9, <3>1, <3>2, <3>3
  <2> QED BY <1>1, <2>1, <2>2
<1>10. ASSUME NEW k \in 1..a, k <= b, p[k] < q[k], Agree(p, q, k - 1), b < c, Agree(q, r, b)
       PROVE  Before(p, r)
  <2>1. k \in 1..b /\ k <= c
    BY <1>1, <1>10
  <2>2. q[k] = r[k]
    BY <1>10, <2>1, Zenon DEF Agree
  <2>3. Agree(p, r, k - 1)
    <3>1. k - 1 \in Nat /\ k - 1 <= b
      BY <1>1, <1>10
    <3> QED BY <1>1, <1>7, <1>10, <3>1
  <2> QED BY <1>3, <1>10, <2>1, <2>2, <2>3
<1>11. ASSUME NEW k \in 1..a, k <= b, p[k] < q[k], Agree(p, q, k - 1),
              NEW m \in 1..b, m <= c, q[m] < r[m], Agree(q, r, m - 1)
       PROVE  Before(p, r)
  <2>1. /\ k \in Nat /\ k >= 1 /\ k <= a /\ k \in 1..b
        /\ m \in Nat /\ m >= 1 /\ m <= b /\ m <= c
    BY <1>1, <1>11
  <2>2. CASE k < m
    <3>1. k \in 1..(m - 1) /\ k <= c /\ k - 1 \in Nat /\ m - 1 \in Nat /\ k - 1 <= m - 1
      BY <1>1, <2>1, <2>2
    <3>2. q[k] = r[k]
      BY <1>11, <3>1 DEF Agree
    <3>3. Agree(p, r, k - 1)
      BY <1>7, <1>11, <3>1
    <3> QED BY <1>3, <1>11, <3>1, <3>2, <3>3
  <2>3. CASE k = m
    <3>1. p[k] \in Nat /\ q[k] \in Nat /\ r[k] \in Nat
      <4>1. k \in 1..c
        BY <1>1, <1>11, <2>1, <2>3
      <4> QED BY <1>2, <2>1, <4>1
    <3>2. p[k] < r[k] /\ k <= c /\ k - 1 \in Nat
      <4>1. p[k] < q[k] /\ q[k] < r[k]
        BY <1>11, <2>3
      <4>2. PICK x, y, z : x = p[k] /\ y = q[k] /\ z = r[k]
        OBVIOUS
      <4>3. x \in Nat /\ y \in Nat /\ z \in Nat /\ x < y /\ y < z
        BY <3>1, <4>1, <4>2, Zenon
      <4>4. x < z
        BY ONLY <4>3
      <4>5. p[k] < r[k]
        BY <4>2, <4>4, Zenon
      <4> QED BY <1>11, <2>1, <2>3, <4>5
    <3>3. Agree(p, r, k - 1)
      BY <1>7, <1>11, <2>3, <3>2
    <3> QED BY <1>3, <3>2, <3>3
  <2>4. CASE k > m
    <3>1. m \in 1..(k - 1) /\ m \in 1..a /\ k - 1 \in Nat /\ m - 1 \in Nat /\ m - 1 <= k - 1
      BY <1>1, <2>1, <2>4
    <3>2. p[m] = q[m]
      BY <1>11, <3>1 DEF Agree
    <3>3. Agree(p, r, m - 1)
      BY <1>7, <1>11, <3>1
    <3> QED BY <1>3, <1>11, <3>1, <3>2, <3>3
  <2> QED BY <2>1, <2>2, <2>3, <2>4
<1> QED BY <1>5, <1>6, <1>8, <1>9, <1>10, <1>11

\* No insertion changes the order of the nodes that were there.
LEMMA BeforeGrows ==
  ASSUME NEW ch, NEW pa, NEW pt, NEW n, NEW parent, NEW position, NEW np, NEW shift,
         NEW ch2, NEW pa2, NEW pt2, Forest(ch, pa, pt, n),
         Grows(ch, pa, pt, n, parent, position, np, shift, ch2, pa2, pt2),
         NEW i \in 1..n, NEW j \in 1..n, Before(pt[i], pt[j])
  PROVE  Before(pt2[i], pt2[j])
<1> DEFINE k == Len(np)
           a == Len(pt[i])
           b == Len(pt[j])
<1>1. k \in Nat /\ k >= 1 /\ np[k] \in Nat
  BY NewPathType
<1>2. PathsMove(pt, pt2, n, np, shift)
  BY DEF Grows
<1>3. /\ a \in Nat /\ \A d \in 1..a : pt[i][d] \in Nat
      /\ b \in Nat /\ \A d \in 1..b : pt[j][d] \in Nat
  BY DEF Forest, WellFormed
<1>4. Len(pt2[i]) = a /\ Len(pt2[j]) = b
  BY <1>2, OldPath
<1> HIDE DEF k, a, b
<1>5. ASSUME NEW d \in 1..a, d \in 1..b, Agree(pt[i], pt[j], d) PROVE pt2[i][d] = pt2[j][d]
  <2>1. pt[i][d] = pt[j][d]
    BY <1>5 DEF Agree
  <2>2. CASE d # k
    <3>1. pt2[i][d] = pt[i][d] /\ pt2[j][d] = pt[j][d]
      BY <1>2, <1>5, <2>2, OldPath DEF k, a, b
    <3> QED BY <2>1, <3>1
  <2>3. CASE d = k
    <3>1. a >= k /\ b >= k /\ Agree(pt[i], pt[j], k)
      BY <1>1, <1>3, <1>5, <2>3
    <3>2. Moved(pt, np, shift, i) <=> Moved(pt, np, shift, j)
      BY <1>1, <3>1, MovedAlike DEF k, a, b
    <3>3. /\ pt2[i][d] = IF Moved(pt, np, shift, i) /\ d = k THEN pt[i][d] + 1 ELSE pt[i][d]
          /\ pt2[j][d] = IF Moved(pt, np, shift, j) /\ d = k THEN pt[j][d] + 1 ELSE pt[j][d]
      BY <1>2, <1>5 DEF PathsMove, k, a, b
    <3> QED BY <2>1, <3>2, <3>3
  <2> QED BY <2>2, <2>3
<1>6. ASSUME NEW m \in Nat, m <= a, m <= b, Agree(pt[i], pt[j], m) PROVE Agree(pt2[i], pt2[j], m)
  <2>1. ASSUME NEW d \in 1..m PROVE pt2[i][d] = pt2[j][d]
    <3>1. d \in 1..a /\ d \in 1..b /\ Agree(pt[i], pt[j], d)
      BY <1>3, <1>6 DEF Agree
    <3> QED BY <1>5, <3>1
  <2> QED BY <2>1 DEF Agree
<1>7. CASE a < b /\ Agree(pt[i], pt[j], a)
  <2>1. Agree(pt2[i], pt2[j], a)
    BY <1>3, <1>6, <1>7
  <2> QED BY <1>4, <1>7, <2>1 DEF Before
<1>8. ASSUME NEW m \in 1..a, m <= b, pt[i][m] < pt[j][m], Agree(pt[i], pt[j], m - 1)
      PROVE  Before(pt2[i], pt2[j])
  <2>1. m \in 1..b /\ pt[i][m] \in Nat /\ pt[j][m] \in Nat
    BY <1>3, <1>8
  <2>2. Agree(pt2[i], pt2[j], m - 1)
    BY <1>3, <1>6, <1>8
  <2>3. m = k /\ Moved(pt, np, shift, i) => Moved(pt, np, shift, j)
    <3>1. SUFFICES ASSUME m = k, Moved(pt, np, shift, i) PROVE Moved(pt, np, shift, j)
      OBVIOUS
    <3>2. shift /\ Agree(pt[i], np, m - 1) /\ pt[i][m] >= np[m]
      BY <3>1 DEF Moved, AtOrAfter, k
    <3>3. Agree(pt[j], np, m - 1)
      BY <1>8, <3>2 DEF Agree
    <3>4. pt[j][m] >= np[m]
      <4>1. np[m] \in Nat
        BY <1>1, <3>1
      <4> QED BY <1>8, <2>1, <3>2, <4>1
    <3>5. Len(pt[j]) >= Len(np) /\ Agree(pt[j], np, Len(np) - 1) /\ pt[j][Len(np)] >= np[Len(np)]
      BY <1>8, <3>1, <3>3, <3>4 DEF k, b
    <3> QED BY <3>2, <3>5 DEF Moved, AtOrAfter
  <2>4. /\ pt2[i][m] = IF Moved(pt, np, shift, i) /\ m = k THEN pt[i][m] + 1 ELSE pt[i][m]
        /\ pt2[j][m] = IF Moved(pt, np, shift, j) /\ m = k THEN pt[j][m] + 1 ELSE pt[j][m]
    BY <1>2, <2>1 DEF PathsMove, k, a, b
  <2>5. pt2[i][m] < pt2[j][m]
    BY <1>8, <2>1, <2>3, <2>4
  <2>6. m \in 1..Lower(a, b)
    BY <1>3, <1>8 DEF Lower
  <2> QED BY <1>4, <2>2, <2>5, <2>6 DEF Before
<1>9. \/ a < b /\ Agree(pt[i], pt[j], a)
      \/ \E m \in 1..a : m <= b /\ pt[i][m] < pt[j][m] /\ Agree(pt[i], pt[j], m - 1)
  BY <1>3 DEF Before, Lower, a, b
<1> QED BY <1>7, <1>8, <1>9

\* Where the elements of a list go when one is put into it.
LEMMA InsertAtPlaces ==
  ASSUME NEW s \in Seq(Nat), NEW position \in 0..Len(s), NEW e \in Nat
  PROVE  LET t == InsertAt(s, position + 1, e) IN
         /\ t \in Seq(Nat) /\ Len(t) = Len(s) + 1
         /\ \A x \in 1..position : t[x] = s[x]
         /\ t[position + 1] = e
         /\ \A x \in (position + 2)..(Len(s) + 1) : t[x] = s[x - 1]
<1> DEFINE low == SubSeq(s, 1, position)
           high == SubSeq(s, position + 1, Len(s))
           mid == low \o <<e>>
<1>1. Len(s) \in Nat /\ position \in Nat /\ position <= Len(s) /\ \A x \in 1..Len(s) : s[x] \in Nat
  OBVIOUS
<1>2. /\ low \in Seq(Nat) /\ Len(low) = position
      /\ \A x \in 1..position : low[x] = s[x]
  <2>1. \A x \in 1..position : s[x] \in Nat
    BY <1>1
  <2>2. /\ low \in Seq(Nat) /\ Len(low) = IF 1 <= position THEN position - 1 + 1 ELSE 0
        /\ \A x \in 1..(position - 1 + 1) : low[x] = s[1 + x - 1]
    BY <1>1, <2>1, SubSeqProperties
  <2> HIDE DEF low
  <2>3. \A x \in 1..position : x \in 1..(position - 1 + 1) /\ 1 + x - 1 = x
    BY <1>1
  <2> QED BY <1>1, <2>2, <2>3
<1>3. /\ high \in Seq(Nat) /\ Len(high) = Len(s) - position
      /\ \A x \in 1..(Len(s) - position) : high[x] = s[position + x]
  <2>1. \A x \in (position + 1)..Len(s) : s[x] \in Nat
    BY <1>1
  <2>2. /\ high \in Seq(Nat)
        /\ Len(high) = IF position + 1 <= Len(s) THEN Len(s) - (position + 1) + 1 ELSE 0
        /\ \A x \in 1..(Len(s) - (position + 1) + 1) : high[x] = s[(position + 1) + x - 1]
    <3>1. position + 1 \in Int /\ Len(s) \in Int
      BY <1>1
    <3> QED BY <2>1, <3>1, SubSeqProperties, SMTT(30)
  <2> HIDE DEF high
  <2>3. \A x \in 1..(Len(s) - position) :
           x \in 1..(Len(s) - (position + 1) + 1) /\ (position + 1) + x - 1 = position + x
    BY <1>1
  <2>4. Len(high) = Len(s) - position
    BY <1>1, <2>2
  <2>5. ASSUME NEW x \in 1..(Len(s) - position) PROVE high[x] = s[position + x]
    <3>1. x \in 1..(Len(s) - (position + 1) + 1) /\ (position + 1) + x - 1 = position + x
      BY <2>3
    <3>2. high[x] = s[(position + 1) + x - 1]
      BY <2>2, <3>1, Zenon
    <3> QED BY <3>1, <3>2, Zenon
  <2> QED BY <2>2, <2>4, <2>5, Zenon
<1> HIDE DEF low, high
<1>4. /\ mid \in Seq(Nat) /\ Len(mid) = position + 1
      /\ \A x \in 1..position : mid[x] = s[x]
      /\ mid[position + 1] = e
  <2>1. <<e>> \in Seq(Nat) /\ Len(<<e>>) = 1 /\ <<e>>[1] = e
    OBVIOUS
  <2>2. /\ mid \in Seq(Nat) /\ Len(mid) = Len(low) + Len(<<e>>)
        /\ \A x \in 1..(Len(low) + Len(<<e>>)) :
             mid[x] = IF x <= Len(low) THEN low[x] ELSE <<e>>[x - Len(low)]
    BY <1>2, <2>1, ConcatProperties
  <2> HIDE DEF mid
  <2>3. Len(mid) = position + 1
    BY <1>1, <1>2, <2>1, <2>2
  <2>4. ASSUME NEW x \in 1..position PROVE mid[x] = s[x]
    <3>1. x \in 1..(Len(low) + Len(<<e>>)) /\ x <= Len(low)
      BY <1>1, <1>2, <2>1
    <3> QED BY <1>2, <2>2, <3>1
  <2>5. mid[position + 1] = e
    <3>1. position + 1 \in 1..(Len(low) + Len(<<e>>)) /\ ~(position + 1 <= Len(low))
          /\ position + 1 - Len(low) = 1
      BY <1>1, <1>2, <2>1
    <3> QED BY <2>1, <2>2, <3>1
  <2> QED BY <2>2, <2>3, <2>4, <2>5
<1> HIDE DEF mid
<1>5. PICK t : t = mid \o high
  OBVIOUS
<1>6. /\ t \in Seq(Nat) /\ Len(t) = Len(mid) + Len(high)
      /\ \A x \in 1..(Len(mid) + Len(high)) :
           t[x] = IF x <= Len(mid) THEN mid[x] ELSE high[x - Len(mid)]
  BY <1>3, <1>4, <1>5, ConcatProperties
<1>7. Len(mid) + Len(high) = Len(s) + 1
  BY <1>1, <1>3, <1>4
<1>8. ASSUME NEW x \in 1..(position + 1) PROVE t[x] = mid[x]
  <2>1. x \in 1..(Len(mid) + Len(high)) /\ x <= Len(mid)
    BY <1>1, <1>4, <1>7
  <2> QED BY <1>6, <2>1
<1>9. ASSUME NEW x \in (position + 2)..(Len(s) + 1) PROVE t[x] = s[x - 1]
  <2>1. /\ x \in 1..(Len(mid) + Len(high)) /\ ~(x <= Len(mid))
        /\ x - Len(mid) \in 1..(Len(s) - position) /\ position + (x - Len(mid)) = x - 1
    BY <1>1, <1>4, <1>7
  <2> QED BY <1>3, <1>6, <2>1
<1>10. InsertAt(s, position + 1, e) = t
  <2>1. (position + 1) - 1 = position
    BY <1>1
  <2> QED BY <1>5, <2>1 DEF InsertAt, low, mid, high
<1>11. \A x \in 1..position : x \in 1..(position + 1)
  BY <1>1
<1>12. position + 1 \in 1..(position + 1)
  BY <1>1
<1> QED BY <1>4, <1>6, <1>7, <1>8, <1>9, <1>10, <1>11, <1>12

(* The invariant of the grid, and what a row and an insertion do.            *)

GridType ==
  /\ parents \in Seq(Nat) /\ paths \in Seq(Seq(Nat)) /\ nodes \in Seq(Nat)
  /\ Len(paths) = Len(parents)
  /\ children \in [0..Len(parents) -> Seq(Nat)]
  /\ rowCount \in Nat /\ populated \in BOOLEAN

\* Before the end of the rows every node is one of them.
Counted == rowCount <= Len(parents) /\ (~populated => rowCount = Len(parents))

\* While rows come, prev_nodes are the last one and those above it.
Spine ==
  ~populated =>
    /\ \A d \in 1..Len(nodes) :
         /\ nodes[d] \in 1..Len(parents)
         /\ Len(paths[nodes[d]]) = d
         /\ Agree(paths[nodes[d]], paths[Len(parents)], d)
    /\ Len(parents) # 0 => Len(nodes) # 0 /\ nodes[Len(nodes)] = Len(parents)

\* What was printed are rows, and while rows come acc_map has the paths of them.
Remembered ==
  /\ DOMAIN under \subseteq 1..rowCount
  /\ ~populated =>
       /\ \A r \in DOMAIN under : paths[r] \in DOMAIN accMap /\ accMap[paths[r]] = r
       /\ \A p \in DOMAIN accMap : \E r \in DOMAIN under : p = paths[r]

GridIInv ==
  /\ GridType /\ Forest(children, parents, paths, Len(parents))
  /\ Counted /\ VisitIsRowOrder /\ Spine /\ Remembered /\ JsonPrintsEveryRow

LEMMA AttachGrows ==
  ASSUME NEW n \in Nat, children \in [0..n -> Seq(Nat)], NEW parent \in 0..n,
         NEW position \in 0..Len(children[parent])
  PROVE  /\ Attach(parent, position, n + 1) \in [0..(n + 1) -> Seq(Nat)]
         /\ ListGrows(children, Attach(parent, position, n + 1), n, parent, position)
<1>1. PICK t : t = InsertAt(children[parent], position + 1, n + 1)
  OBVIOUS
<1>2. children[parent] \in Seq(Nat) /\ n + 1 \in Nat
  OBVIOUS
<1>3. /\ t \in Seq(Nat) /\ Len(t) = Len(children[parent]) + 1
      /\ \A x \in 1..position : t[x] = children[parent][x]
      /\ t[position + 1] = n + 1
      /\ \A x \in (position + 2)..(Len(children[parent]) + 1) : t[x] = children[parent][x - 1]
  <2>1. LET u == InsertAt(children[parent], position + 1, n + 1) IN
        /\ u \in Seq(Nat) /\ Len(u) = Len(children[parent]) + 1
        /\ \A x \in 1..position : u[x] = children[parent][x]
        /\ u[position + 1] = n + 1
        /\ \A x \in (position + 2)..(Len(children[parent]) + 1) : u[x] = children[parent][x - 1]
    BY <1>2, InsertAtPlaces
  <2> QED BY <1>1, <2>1
<1>4. PICK c : c = Attach(parent, position, n + 1)
  OBVIOUS
<1>5. c = [node \in 0..(n + 1) |->
             CASE node = n + 1 -> <<>> [] node = parent -> t [] OTHER -> children[node]]
  BY <1>1, <1>4 DEF Attach
<1>6. parent # n + 1 /\ parent \in 0..(n + 1) /\ n + 1 \in 0..(n + 1)
  OBVIOUS
<1>7. c[n + 1] = <<>> /\ c[parent] = t
  BY <1>5, <1>6
<1>8. ASSUME NEW p \in 0..n, p # parent PROVE c[p] = children[p]
  <2>1. p \in 0..(n + 1) /\ p # n + 1
    OBVIOUS
  <2> QED BY <1>5, <1>8, <2>1
<1>9. c \in [0..(n + 1) -> Seq(Nat)]
  <2> DEFINE At(node) ==
        CASE node = n + 1 -> <<>> [] node = parent -> t [] OTHER -> children[node]
  <2>1. ASSUME NEW p \in 0..(n + 1) PROVE At(p) \in Seq(Nat)
    <3>1. CASE p = n + 1
      BY <3>1
    <3>2. CASE p = parent
      BY <3>2, <1>3, <1>6
    <3>3. CASE p # n + 1 /\ p # parent
      <4>1. children[p] \in Seq(Nat)
        BY <3>3
      <4> QED BY <3>3, <4>1
    <3> QED BY <3>1, <3>2, <3>3
  <2>2. c = [p \in 0..(n + 1) |-> At(p)]
    BY <1>5
  <2> HIDE DEF At
  <2> QED BY <2>1, <2>2
<1>10. ListGrows(children, c, n, parent, position)
  BY <1>3, <1>7, <1>8 DEF ListGrows
<1> QED BY <1>4, <1>9, <1>10

\* What a turn of populate computes first.
RowIs(level, index, parent, np, n) ==
  /\ index = Lower(Len(nodes), level)
  /\ parent = IF index > 0 THEN nodes[index] ELSE NoParent
  /\ np = Append(PathOf(parent), Len(children[parent]))
  /\ n = Len(parents)

\* The parent is the last node above the level, and the new path goes on from its.
LEMMA RowFacts ==
  ASSUME GridIInv, ~populated, NEW level \in Nat, NEW index, NEW parent, NEW np, NEW n,
         RowIs(level, index, parent, np, n)
  PROVE  /\ n \in Nat /\ index \in 0..Len(nodes) /\ parent \in 0..n
         /\ Len(children[parent]) \in Nat
         /\ np \in Seq(Nat) /\ Len(np) = index + 1
         /\ NewPathIs(paths, parent, Len(children[parent]), np)
         /\ index > 0 => n > 0 /\ Agree(np, paths[n], index)
<1>1. n \in Nat /\ Len(nodes) \in Nat
  BY DEF RowIs, GridIInv, GridType
<1>2. index \in 0..Len(nodes)
  BY <1>1 DEF RowIs, Lower
<1>3. PathOf(parent) = PathIn(paths, parent)
  BY DEF PathOf, PathIn
<1> DEFINE here == PathOf(parent)
<1>4. /\ parent \in 0..n /\ here \in Seq(Nat) /\ Len(here) = index
      /\ index > 0 => n > 0 /\ Agree(here, paths[n], index)
  <2>1. CASE index = 0
    <3>1. parent = 0
      BY <2>1 DEF RowIs, NoParent
    <3>2. here = <<>>
      BY <3>1 DEF PathOf, NoParent
    <3>3. here \in Seq(Nat) /\ Len(here) = 0
      BY <3>2
    <3>4. parent \in 0..n /\ ~(index > 0)
      BY <1>1, <2>1, <3>1
    <3> QED BY <2>1, <3>3, <3>4
  <2>2. CASE index # 0
    <3>1. index \in 1..Len(nodes) /\ parent = nodes[index]
      BY <1>1, <1>2, <2>2 DEF RowIs
    <3>2. /\ parent \in 1..n /\ Len(paths[parent]) = index
          /\ Agree(paths[parent], paths[n], index)
      BY <3>1 DEF GridIInv, Spine, RowIs
    <3>3. here = paths[parent]
      BY <3>2 DEF PathOf, NoParent
    <3>4. paths[parent] \in Seq(Nat)
      BY <3>2 DEF GridIInv, GridType, RowIs
    <3>5. parent \in 0..n /\ n > 0
      BY <1>1, <3>2
    <3> QED BY <3>2, <3>3, <3>4, <3>5
  <2> QED BY <2>1, <2>2
<1>5. children[parent] \in Seq(Nat)
  BY <1>4 DEF GridIInv, GridType, RowIs
<1>6. Len(children[parent]) \in Nat
  BY <1>5
<1>7. np = Append(here, Len(children[parent]))
  BY DEF RowIs
<1> HIDE DEF here
<1>8. /\ np \in Seq(Nat) /\ Len(np) = index + 1
      /\ \A d \in 1..index : np[d] = here[d]
      /\ np[index + 1] = Len(children[parent])
  BY <1>4, <1>6, <1>7, AppendProperties
<1>9. (index + 1) - 1 = index
  BY <1>1, <1>2
<1>10. NewPathIs(paths, parent, Len(children[parent]), np)
  BY <1>3, <1>4, <1>8, <1>9 DEF NewPathIs, Agree, here
<1>11. ASSUME index > 0 PROVE n > 0 /\ Agree(np, paths[n], index)
  BY <1>4, <1>8, <1>11 DEF Agree
<1> QED BY <1>1, <1>2, <1>4, <1>6, <1>8, <1>10, <1>11

\* The state after it.
RowDoes(parent, np, n) ==
  /\ GridType' /\ n = Len(parents) /\ Len(parents') = n + 1
  /\ parents' = Append(parents, parent) /\ paths' = Append(paths, np)
  /\ \A r \in 1..n : paths'[r] = paths[r] /\ parents'[r] = parents[r]
  /\ paths'[n + 1] = np /\ parents'[n + 1] = parent
  /\ Grows(children, parents, paths, n, parent, Len(children[parent]), np, FALSE,
            children', parents', paths')

\* A row lets the grid grow at the end of its parent's children, with no path moved.
LEMMA RowGrows ==
  ASSUME GridIInv, NEW level \in Nat, NEW hidden, Row(level, hidden),
         NEW index, NEW parent, NEW np, NEW n, RowIs(level, index, parent, np, n)
  PROVE  RowDoes(parent, np, n)
<1>1. ~populated /\ n = Len(parents) /\ n = Len(paths) /\ parents \in Seq(Nat)
      /\ paths \in Seq(Seq(Nat)) /\ nodes \in Seq(Nat) /\ children \in [0..n -> Seq(Nat)]
      /\ rowCount \in Nat /\ populated \in BOOLEAN
  BY DEF Row, RowIs, GridIInv, GridType
<1>2. /\ n \in Nat /\ index \in 0..Len(nodes) /\ parent \in 0..n
      /\ Len(children[parent]) \in Nat
      /\ np \in Seq(Nat) /\ NewPathIs(paths, parent, Len(children[parent]), np)
  BY <1>1, RowFacts
<1>3. /\ children' = Attach(parent, Len(children[parent]), n + 1)
      /\ parents' = Append(parents, parent) /\ paths' = Append(paths, np)
      /\ nodes' = SubSeq(nodes, 1, index) \o <<n + 1>>
      /\ rowCount' = rowCount + 1 /\ populated' = populated
  BY DEF Row, RowIs, NextPrevious
<1>4. /\ parents' \in Seq(Nat) /\ Len(parents') = n + 1
      /\ \A r \in 1..n : parents'[r] = parents[r]
      /\ parents'[n + 1] = parent
  <2>1. parent \in Nat /\ parents \in Seq(Nat)
    BY <1>1, <1>2
  <2>2. /\ Append(parents, parent) \in Seq(Nat)
        /\ Len(Append(parents, parent)) = Len(parents) + 1
        /\ \A r \in 1..Len(parents) : Append(parents, parent)[r] = parents[r]
        /\ Append(parents, parent)[Len(parents) + 1] = parent
    BY <2>1, AppendProperties
  <2> QED BY <1>1, <1>3, <2>2, Zenon
<1>5. /\ paths' \in Seq(Seq(Nat)) /\ Len(paths') = n + 1
      /\ \A r \in 1..n : paths'[r] = paths[r]
      /\ paths'[n + 1] = np
  BY <1>1, <1>2, <1>3, AppendProperties
<1>6. /\ children' \in [0..(n + 1) -> Seq(Nat)]
      /\ ListGrows(children, children', n, parent, Len(children[parent]))
  <2>1. Len(children[parent]) \in 0..Len(children[parent])
    BY <1>2
  <2> QED BY <1>1, <1>2, <1>3, <2>1, AttachGrows
<1>7. nodes' \in Seq(Nat)
  <2>1. \A d \in 1..index : nodes[d] \in Nat
    BY <1>1, <1>2
  <2>2. SubSeq(nodes, 1, index) \in Seq(Nat)
    BY <1>2, <2>1, SubSeqProperties
  <2>3. <<n + 1>> \in Seq(Nat)
    BY <1>2
  <2> QED BY <1>3, <2>2, <2>3, ConcatProperties
<1>8. GridType'
  BY <1>1, <1>3, <1>4, <1>5, <1>6, <1>7 DEF GridType
<1>9. PathsMove(paths, paths', n, np, FALSE)
  BY <1>5 DEF PathsMove, Moved
<1>10. Len(children[parent]) \in 0..Len(children[parent])
  BY <1>2
<1>11. Grows(children, parents, paths, n, parent, Len(children[parent]), np, FALSE,
             children', parents', paths')
  BY <1>2, <1>4, <1>5, <1>6, <1>9, <1>10 DEF Grows
<1> QED BY <1>1, <1>3, <1>4, <1>5, <1>8, <1>11 DEF RowDoes

\* A new row comes after the last one.
LEMMA NewRowIsLast ==
  ASSUME GridIInv, ~populated, NEW level \in Nat, NEW index, NEW parent, NEW np, NEW n,
         RowIs(level, index, parent, np, n), n # 0
  PROVE  Before(paths[n], np)
<1>1. /\ n \in Nat /\ index \in 0..Len(nodes) /\ parent \in 0..n
      /\ np \in Seq(Nat) /\ Len(np) = index + 1
      /\ NewPathIs(paths, parent, Len(children[parent]), np)
      /\ index > 0 => Agree(np, paths[n], index)
  BY RowFacts
<1>2. Forest(children, parents, paths, n) /\ Len(nodes) \in Nat /\ n = Len(parents)
  BY DEF GridIInv, GridType, RowIs
<1>3. Len(nodes) \in 1..Len(nodes) /\ nodes[Len(nodes)] = n
  BY <1>2 DEF GridIInv, Spine
<1>4. Len(paths[n]) = Len(nodes) /\ n \in 1..n
  BY <1>1, <1>2, <1>3 DEF GridIInv, Spine
<1>5. Agree(paths[n], np, index)
  BY <1>1 DEF Agree
<1>6. CASE index = Len(nodes)
  <2>1. Len(paths[n]) < Len(np) /\ Agree(paths[n], np, Len(paths[n]))
    BY <1>1, <1>2, <1>4, <1>5, <1>6
  <2> QED BY <2>1 DEF Before
<1>7. CASE index # Len(nodes)
  <2> DEFINE k == index + 1
  <2>1. k \in 1..Len(nodes) /\ k - 1 = index /\ k \in Nat /\ k >= 1
    BY <1>1, <1>2, <1>7
  <2>2. PICK m : m = nodes[k]
    OBVIOUS
  <2>3. m \in 1..n /\ Len(paths[m]) = k /\ Agree(paths[m], paths[n], k)
    BY <1>2, <2>1, <2>2 DEF GridIInv, Spine
  <2> HIDE DEF k
  <2>4. Agree(paths[m], np, k - 1)
    <3>1. ASSUME NEW d \in 1..(k - 1) PROVE paths[m][d] = np[d]
      <4>1. d \in 1..k /\ d \in 1..index
        BY <2>1
      <4> QED BY <1>5, <2>3, <4>1 DEF Agree
    <3> QED BY <3>1 DEF Agree
  <2>5. Len(np) = k
    BY <1>1 DEF k
  <2>6. parents[m] = parent
    BY <1>1, <1>2, <2>3, <2>4, <2>5, OtherPlaceKept
  <2>7. paths[m][k] + 1 <= Len(children[parent])
    BY <1>2, <2>3, <2>6 DEF Forest, Resolves
  <2>8. np[k] = Len(children[parent])
    BY <1>1, <2>5 DEF NewPathIs
  <2>9. k \in 1..k /\ paths[n][k] = paths[m][k]
    BY <2>1, <2>3 DEF Agree
  <2>10. paths[m][k] \in Nat /\ Len(children[parent]) \in Nat
    BY <1>1, <1>2, <2>3, <2>9 DEF Forest, WellFormed
  <2>11. paths[n][k] < np[k]
    BY <2>7, <2>8, <2>9, <2>10
  <2>12. k \in 1..Lower(Len(paths[n]), Len(np))
    BY <1>2, <1>4, <2>1, <2>5 DEF Lower
  <2>13. Agree(paths[n], np, k - 1)
    BY <1>5, <2>1
  <2> QED BY <2>11, <2>12, <2>13 DEF Before
<1> QED BY <1>6, <1>7

\* The rows stay in order.
LEMMA RowKeepsOrder ==
  ASSUME GridIInv, NEW level \in Nat, NEW hidden, Row(level, hidden),
         NEW index, NEW parent, NEW np, NEW n, RowIs(level, index, parent, np, n)
  PROVE  VisitIsRowOrder'
<1>1. /\ n \in Nat /\ np \in Seq(Nat)
  <2>1. ~populated
    BY DEF Row
  <2> QED BY <2>1, RowFacts
<1>2. /\ \A r \in 1..n : paths'[r] = paths[r] /\ parents'[r] = parents[r]
      /\ paths'[n + 1] = np
  <2>1. RowDoes(parent, np, n)
    BY RowGrows
  <2> QED BY <2>1 DEF RowDoes
<1>3. rowCount = n /\ rowCount' = n + 1 /\ ~populated
  BY DEF GridIInv, Counted, Row, RowIs
<1>4. \A r \in 1..n : paths[r] \in Seq(Nat)
  BY DEF GridIInv, GridType, RowIs
<1>5. ASSUME NEW i \in 1..(n + 1), NEW j \in 1..(n + 1), i < j
      PROVE  Before(paths'[i], paths'[j])
  <2>1. i \in 1..n /\ (j \in 1..n \/ j = n + 1)
    BY <1>1, <1>5
  <2>2. CASE j \in 1..n
    <3>1. Before(paths[i], paths[j])
      BY <1>3, <1>5, <2>1, <2>2 DEF GridIInv, VisitIsRowOrder
    <3> QED BY <1>2, <2>1, <2>2, <3>1
  <2>3. CASE j = n + 1
    <3>1. n \in 1..n /\ n # 0
      BY <1>1, <2>1
    <3>2. Before(paths[n], np)
      BY <1>3, <3>1, NewRowIsLast
    <3>3. Before(paths[i], np)
      <4>1. CASE i = n
        BY <3>2, <4>1
      <4>2. CASE i # n
        <5>1. i < n
          BY <1>1, <2>1, <4>2
        <5>2. Before(paths[i], paths[n])
          BY <1>3, <2>1, <3>1, <5>1 DEF GridIInv, VisitIsRowOrder
        <5> QED BY <1>1, <1>4, <2>1, <3>1, <3>2, <5>2, BeforeTransitive
      <4> QED BY <4>1, <4>2
    <3> QED BY <1>2, <2>1, <2>3, <3>3
  <2> QED BY <2>1, <2>2, <2>3
<1> QED BY <1>3, <1>5 DEF VisitIsRowOrder

\* prev_nodes are again the last row and those above it.
LEMMA RowKeepsSpine ==
  ASSUME GridIInv, NEW level \in Nat, NEW hidden, Row(level, hidden),
         NEW index, NEW parent, NEW np, NEW n, RowIs(level, index, parent, np, n)
  PROVE  Spine'
<1>1. /\ n \in Nat /\ index \in 0..Len(nodes) /\ Len(np) = index + 1
      /\ index > 0 => Agree(np, paths[n], index)
  <2>1. ~populated
    BY DEF Row
  <2> QED BY <2>1, RowFacts
<1>2. /\ n = Len(parents) /\ Len(parents') = n + 1
      /\ \A r \in 1..n : paths'[r] = paths[r] /\ parents'[r] = parents[r]
      /\ paths'[n + 1] = np
  <2>1. RowDoes(parent, np, n)
    BY RowGrows
  <2> QED BY <2>1 DEF RowDoes
<1>3. nodes \in Seq(Nat) /\ ~populated /\ Len(nodes) \in Nat
  BY DEF GridIInv, GridType, Row
<1>4. nodes' = SubSeq(nodes, 1, index) \o <<n + 1>>
  BY DEF Row, RowIs, NextPrevious
<1>5. /\ Len(nodes') = index + 1
      /\ \A d \in 1..index : nodes'[d] = nodes[d]
      /\ nodes'[index + 1] = n + 1
  <2> DEFINE low == SubSeq(nodes, 1, index)
  <2>1. \A d \in 1..index : nodes[d] \in Nat
    BY <1>1, <1>3
  <2>2. /\ low \in Seq(Nat) /\ Len(low) = IF 1 <= index THEN index - 1 + 1 ELSE 0
        /\ \A d \in 1..(index - 1 + 1) : low[d] = nodes[1 + d - 1]
    BY <1>1, <2>1, SubSeqProperties
  <2> HIDE DEF low
  <2>3. Len(low) = index /\ \A d \in 1..index : low[d] = nodes[d]
    BY <1>1, <2>2
  <2>4. <<n + 1>> \in Seq(Nat) /\ Len(<<n + 1>>) = 1 /\ <<n + 1>>[1] = n + 1
    BY <1>1
  <2>5. /\ Len(low \o <<n + 1>>) = Len(low) + Len(<<n + 1>>)
        /\ \A d \in 1..(Len(low) + Len(<<n + 1>>)) :
             (low \o <<n + 1>>)[d] = IF d <= Len(low) THEN low[d] ELSE <<n + 1>>[d - Len(low)]
    BY <2>2, <2>4, ConcatProperties
  <2>6. nodes' = low \o <<n + 1>>
    BY <1>4 DEF low
  <2>7. Len(nodes') = index + 1
    BY <2>3, <2>4, <2>5, <2>6
  <2>8. ASSUME NEW d \in 1..index PROVE nodes'[d] = nodes[d]
    <3>1. d \in 1..(Len(low) + Len(<<n + 1>>)) /\ d <= Len(low)
      BY <1>1, <2>3, <2>4
    <3> QED BY <2>3, <2>5, <2>6, <3>1
  <2>9. nodes'[index + 1] = n + 1
    <3>1. index + 1 \in 1..(Len(low) + Len(<<n + 1>>)) /\ ~(index + 1 <= Len(low))
          /\ (index + 1) - Len(low) = 1
      BY <1>1, <2>3, <2>4
    <3> QED BY <2>4, <2>5, <2>6, <3>1
  <2> QED BY <2>7, <2>8, <2>9
<1>6. ASSUME NEW d \in 1..(index + 1)
      PROVE  /\ nodes'[d] \in 1..(n + 1) /\ Len(paths'[nodes'[d]]) = d
             /\ Agree(paths'[nodes'[d]], np, d)
  <2>1. d \in 1..index \/ d = index + 1
    BY <1>1
  <2>2. CASE d \in 1..index
    <3>1. nodes'[d] = nodes[d] /\ d \in 1..Len(nodes) /\ d \in Nat /\ index > 0 /\ d <= index
      BY <1>1, <1>3, <1>5, <2>2
    <3>2. nodes[d] \in 1..n /\ Len(paths[nodes[d]]) = d /\ Agree(paths[nodes[d]], paths[n], d)
      BY <1>2, <1>3, <3>1 DEF GridIInv, Spine
    <3>3. paths'[nodes[d]] = paths[nodes[d]] /\ nodes[d] \in 1..(n + 1)
      BY <1>1, <1>2, <3>2
    <3>4. Agree(np, paths[n], index)
      BY <1>1, <3>1
    <3>5. Agree(paths[nodes[d]], np, d)
      <4>1. ASSUME NEW e \in 1..d PROVE paths[nodes[d]][e] = np[e]
        <5>1. e \in 1..index
          BY <1>1, <3>1
        <5> QED BY <3>2, <3>4, <5>1 DEF Agree
      <4> QED BY <4>1 DEF Agree
    <3> QED BY <3>1, <3>2, <3>3, <3>5
  <2>3. CASE d = index + 1
    <3>1. nodes'[d] = n + 1 /\ n + 1 \in 1..(n + 1)
      BY <1>1, <1>5, <2>3
    <3>2. paths'[n + 1] = np /\ Len(np) = d
      BY <1>1, <1>2, <2>3
    <3>3. Agree(np, np, d)
      BY DEF Agree
    <3> QED BY <3>1, <3>2, <3>3
  <2> QED BY <2>1, <2>2, <2>3
<1>7. index + 1 # 0
  BY <1>1
<1> QED BY <1>2, <1>5, <1>6, <1>7 DEF Spine

\* acc_map is right about the rows that were printed.
LEMMA RowKeepsRemembered ==
  ASSUME GridIInv, NEW level \in Nat, NEW hidden \in BOOLEAN, Row(level, hidden),
         NEW index, NEW parent, NEW np, NEW n, RowIs(level, index, parent, np, n)
  PROVE  Remembered' /\ JsonPrintsEveryRow'
<1>1. /\ n \in Nat /\ parent \in 0..n /\ ~populated
      /\ DOMAIN under \subseteq 1..n /\ rowCount' = n + 1
      /\ \A r \in DOMAIN under : paths[r] \in DOMAIN accMap /\ accMap[paths[r]] = r
      /\ \A p \in DOMAIN accMap : \E r \in DOMAIN under : p = paths[r]
  <2>1. ~populated
    BY DEF Row
  <2>2. n \in Nat /\ parent \in 0..n
    BY <2>1, RowFacts
  <2>3. rowCount = n /\ rowCount' = n + 1
    BY <2>1 DEF Row, RowIs, GridIInv, Counted
  <2> QED BY <2>1, <2>2, <2>3 DEF GridIInv, Remembered
<1>2. /\ \A r \in 1..n : paths'[r] = paths[r] /\ parents'[r] = parents[r]
      /\ paths'[n + 1] = np /\ parents'[n + 1] = parent
  <2>1. RowDoes(parent, np, n)
    BY RowGrows
  <2> QED BY <2>1 DEF RowDoes
<1>3. Distinct(paths', n + 1)
  <2>1. RowDoes(parent, np, n)
    BY RowGrows
  <2>2. Forest(children, parents, paths, n)
    BY DEF GridIInv, RowIs
  <2>3. Grows(children, parents, paths, n, parent, Len(children[parent]), np, FALSE,
              children', parents', paths')
    BY <2>1 DEF RowDoes
  <2> QED BY <2>2, <2>3, DistinctGrows
<1>4. \A r \in DOMAIN under : parents[r] \in 1..n \/ parents[r] = 0
  <2>1. Forest(children, parents, paths, n)
    BY DEF GridIInv, RowIs
  <2>2. \A r \in 1..n : parents[r] \in Nat /\ parents[r] < r
    BY <2>1, Zenon DEF Forest, WellFormed
  <2>3. TAKE r \in DOMAIN under
  <2>4. r \in 1..n
    BY <1>1
  <2> DEFINE parentOf == parents[r]
  <2>5. parentOf \in Nat /\ parentOf < r
    BY <2>2, <2>4
  <2> HIDE DEF parentOf
  <2>6. parentOf \in 1..n \/ parentOf = 0
    BY <1>1, <2>4, <2>5
  <2> QED BY <2>6 DEF parentOf
<1>5. \A r \in DOMAIN under : /\ under[r] = IF parents[r] \in DOMAIN under THEN parents[r] ELSE NoParent
                              /\ under[r] < r
  BY DEF GridIInv, JsonPrintsEveryRow
<1>6. n + 1 \notin DOMAIN under /\ 0 \notin DOMAIN under /\ NoParent = 0
  BY <1>1 DEF NoParent
<1>7. CASE hidden
  <2>1. under' = under /\ accMap' = accMap
    BY <1>7 DEF Row, Printed
  <2>2. Remembered'
    BY <1>1, <1>2, <2>1 DEF Remembered
  <2>3. JsonPrintsEveryRow'
    BY <1>1, <1>2, <1>5, <2>1 DEF JsonPrintsEveryRow
  <2> QED BY <2>2, <2>3
<1>8. CASE ~hidden
  <2>1. /\ under' = [r \in DOMAIN under \cup {n + 1} |-> IF r = n + 1 THEN PlaceOf(parent) ELSE under[r]]
        /\ accMap' = [p \in DOMAIN accMap \cup {np} |-> IF p = np THEN n + 1 ELSE accMap[p]]
    BY <1>8 DEF Row, RowIs, Printed
  <2>2. ASSUME NEW r \in DOMAIN under PROVE paths[r] # np
    <3>1. r \in 1..(n + 1) /\ n + 1 \in 1..(n + 1) /\ r # n + 1 /\ r \in 1..n
      BY <1>1
    <3>2. SUFFICES ASSUME paths[r] = np PROVE FALSE
      OBVIOUS
    <3>3. paths'[r] = paths'[n + 1]
      BY <1>2, <3>1, <3>2
    <3> QED BY <1>3, <3>1, <3>3 DEF Distinct, Agree
  <2>3. PlaceOf(parent) = IF parent \in DOMAIN under THEN parent ELSE NoParent
    <3>1. CASE parent = 0
      BY <1>6, <3>1 DEF PlaceOf
    <3>2. CASE parent # 0 /\ parent \in DOMAIN under
      BY <1>1, <1>6, <3>2 DEF PlaceOf
    <3>3. CASE parent # 0 /\ parent \notin DOMAIN under
      <4>1. paths[parent] \notin DOMAIN accMap
        <5>1. SUFFICES ASSUME paths[parent] \in DOMAIN accMap PROVE FALSE
          OBVIOUS
        <5>2. PICK r \in DOMAIN under : paths[parent] = paths[r]
          BY <1>1, <5>1
        <5>3. parent \in 1..n /\ r \in 1..n
          BY <1>1, <3>3
        <5>4. parent = r
          BY <5>2, <5>3 DEF GridIInv, Forest, Distinct, Agree, RowIs
        <5> QED BY <3>3, <5>4
      <4> QED BY <3>3, <4>1 DEF PlaceOf
    <3> QED BY <3>1, <3>2, <3>3
  <2>4. DOMAIN under' = DOMAIN under \cup {n + 1} /\ DOMAIN accMap' = DOMAIN accMap \cup {np}
    BY <2>1
  <2>5. under'[n + 1] = PlaceOf(parent) /\ \A r \in DOMAIN under : under'[r] = under[r]
    BY <1>6, <2>1
  <2>6. accMap'[np] = n + 1 /\ \A p \in DOMAIN accMap : p # np => accMap'[p] = accMap[p]
    BY <2>1
  <2>7. Remembered'
    <3>1. DOMAIN under' \subseteq 1..(n + 1)
      BY <1>1, <2>4
    <3>2. ASSUME NEW r \in DOMAIN under'
          PROVE  paths'[r] \in DOMAIN accMap' /\ accMap'[paths'[r]] = r
      <4>1. CASE r = n + 1
        BY <1>2, <2>4, <2>6, <4>1
      <4>2. CASE r \in DOMAIN under
        <5>1. r \in 1..n
          BY <1>1, <4>2
        <5> QED BY <1>1, <1>2, <2>2, <2>4, <2>6, <4>2, <5>1
      <4> QED BY <2>4, <4>1, <4>2
    <3>3. ASSUME NEW p \in DOMAIN accMap' PROVE \E r \in DOMAIN under' : p = paths'[r]
      <4>1. CASE p = np
        BY <1>2, <2>4, <4>1
      <4>2. CASE p \in DOMAIN accMap
        <5>1. PICK r \in DOMAIN under : p = paths[r]
          BY <1>1, <4>2
        <5> QED BY <1>1, <1>2, <2>4, <5>1
      <4> QED BY <2>4, <4>1, <4>2
    <3> QED BY <1>1, <3>1, <3>2, <3>3 DEF Remembered
  <2>8. ASSUME NEW r \in DOMAIN under'
        PROVE  /\ under'[r] = IF parents'[r] \in DOMAIN under' THEN parents'[r] ELSE NoParent
               /\ under'[r] < r
    <3>1. CASE r = n + 1
      <4>1. parents'[r] = parent /\ under'[r] = PlaceOf(parent)
        BY <1>2, <2>5, <3>1
      <4>2. parent \in DOMAIN under' <=> parent \in DOMAIN under
        BY <1>1, <2>4
      <4>3. parent < n + 1 /\ 0 < n + 1
        BY <1>1
      <4> QED BY <1>6, <2>3, <3>1, <4>1, <4>2, <4>3
    <3>2. CASE r \in DOMAIN under
      <4>1. r \in 1..n /\ parents'[r] = parents[r] /\ under'[r] = under[r]
        BY <1>1, <1>2, <2>5, <3>2
      <4>2. parents[r] \in DOMAIN under' <=> parents[r] \in DOMAIN under
        BY <1>1, <1>4, <2>4, <3>2
      <4> QED BY <1>5, <3>2, <4>1, <4>2
    <3> QED BY <2>4, <3>1, <3>2
  <2>9. JsonPrintsEveryRow'
    BY <2>8 DEF JsonPrintsEveryRow
  <2> QED BY <2>7, <2>9
<1> QED BY <1>7, <1>8

LEMMA RowKeeps ==
  ASSUME GridIInv, NEW level \in Nat, NEW hidden \in BOOLEAN, Row(level, hidden)
  PROVE  GridIInv'
<1>1. PICK index, n : index = Lower(Len(nodes), level) /\ n = Len(parents)
  OBVIOUS
<1>2. PICK parent : parent = IF index > 0 THEN nodes[index] ELSE NoParent
  OBVIOUS
<1>3. PICK np : np = Append(PathOf(parent), Len(children[parent]))
  OBVIOUS
<1>4. RowIs(level, index, parent, np, n)
  BY <1>1, <1>2, <1>3 DEF RowIs
<1>5. /\ GridType' /\ n = Len(parents) /\ Len(parents') = n + 1
      /\ Grows(children, parents, paths, n, parent, Len(children[parent]), np, FALSE,
               children', parents', paths')
  <2>1. RowDoes(parent, np, n)
    BY <1>4, RowGrows
  <2> QED BY <2>1 DEF RowDoes
<1>6. Forest(children, parents, paths, n)
  BY <1>5 DEF GridIInv
<1>7. Forest(children', parents', paths', n + 1)
  BY <1>5, <1>6, ForestGrows
<1>8. Counted'
  <2>1. rowCount = n /\ rowCount' = rowCount + 1 /\ populated' = populated /\ n \in Nat
    BY <1>5 DEF Row, GridIInv, Counted, GridType
  <2> QED BY <1>5, <2>1 DEF Counted
<1>9. VisitIsRowOrder'
  BY <1>4, RowKeepsOrder
<1>10. Spine'
  BY <1>4, RowKeepsSpine
<1>11. Remembered' /\ JsonPrintsEveryRow'
  BY <1>4, RowKeepsRemembered
<1> QED BY <1>5, <1>7, <1>8, <1>9, <1>10, <1>11 DEF GridIInv

LEMMA ExceptPath ==
  ASSUME NEW p \in Seq(Nat), NEW k \in 1..Len(p), NEW v \in Nat
  PROVE  /\ [p EXCEPT ![k] = v] \in Seq(Nat)
         /\ Len([p EXCEPT ![k] = v]) = Len(p)
         /\ \A d \in 1..Len(p) : [p EXCEPT ![k] = v][d] = IF d = k THEN v ELSE p[d]
BY ExceptSeq

LEMMA FunctionIsSeq ==
  ASSUME NEW S, NEW n \in Nat, NEW f \in [1..n -> S]
  PROVE  f \in Seq(S) /\ Len(f) = n
OBVIOUS

\* The state after an insertion.
InsertDoes(parent, position, np, n) ==
  /\ GridType' /\ Len(parents') = n + 1
  /\ \A r \in 1..n : parents'[r] = parents[r]
  /\ Grows(children, parents, paths, n, parent, position, np, TRUE, children', parents', paths')

\* An insertion lets the grid grow too, and moves the paths from its own on.
LEMMA InsertGrows ==
  ASSUME GridIInv, NEW n, n = Len(parents), NEW parent \in 0..n,
         NEW position \in 0..Len(children[parent]), Insert(parent, position),
         NEW np, np = Append(PathOf(parent), position)
  PROVE  InsertDoes(parent, position, np, n)
<1>1. n \in Nat /\ n = Len(paths) /\ parents \in Seq(Nat) /\ nodes \in Seq(Nat)
      /\ paths \in Seq(Seq(Nat)) /\ children \in [0..n -> Seq(Nat)]
      /\ rowCount \in Nat /\ populated \in BOOLEAN
  BY DEF GridIInv, GridType
<1>2. children[parent] \in Seq(Nat)
  BY <1>1
<1>3. position \in Nat /\ parent \in Nat
  BY <1>2
<1>4. \A r \in 1..n : paths[r] \in Seq(Nat)
  BY <1>1
<1> DEFINE here == PathOf(parent)
<1>5. here \in Seq(Nat) /\ here = PathIn(paths, parent)
  <2>1. CASE parent = 0
    BY <2>1 DEF PathOf, PathIn, NoParent
  <2>2. CASE parent # 0
    <3>1. parent \in 1..n
      BY <1>1, <2>2
    <3> QED BY <1>4, <2>2, <3>1 DEF PathOf, PathIn, NoParent
  <2> QED BY <2>1, <2>2
<1> HIDE DEF here
<1>6. /\ np \in Seq(Nat) /\ Len(np) = Len(here) + 1
      /\ \A d \in 1..Len(here) : np[d] = here[d]
      /\ np[Len(here) + 1] = position
  <2>1. np = Append(here, position)
    BY DEF here
  <2> QED BY <1>3, <1>5, <2>1, AppendProperties
<1>7. Len(here) \in Nat /\ Len(np) - 1 = Len(here) /\ Len(np) \in Nat /\ Len(np) >= 1
  BY <1>5, <1>6
<1>8. NewPathIs(paths, parent, position, np)
  BY <1>5, <1>6, <1>7 DEF NewPathIs, Agree
<1> DEFINE At(r) == IF Visits(paths[r], np) THEN PathChanged(paths[r], np) ELSE paths[r]
           moved == [r \in 1..Len(paths) |-> At(r)]
<1>9. /\ children' = Attach(parent, position, n + 1)
      /\ parents' = Append(parents, parent)
      /\ paths' = Append(moved, np)
      /\ nodes' = nodes /\ rowCount' = rowCount /\ populated' = populated
  BY DEF Insert
<1>10. ASSUME NEW r \in 1..n
       PROVE  /\ At(r) \in Seq(Nat) /\ Len(At(r)) = Len(paths[r])
              /\ \A d \in 1..Len(paths[r]) :
                   At(r)[d] = IF Moved(paths, np, TRUE, r) /\ d = Len(np) THEN paths[r][d] + 1
                              ELSE paths[r][d]
  <2>1. PICK p : p = paths[r]
    OBVIOUS
  <2>2. p \in Seq(Nat) /\ Len(p) \in Nat
    BY <1>4, <2>1
  <2>3. CASE AtOrAfter(p, np)
    <3>1. Len(np) \in 1..Len(p) /\ p[Len(np)] >= np[Len(np)]
      BY <1>7, <2>2, <2>3 DEF AtOrAfter
    <3>2. At(r) = [p EXCEPT ![Len(np)] = p[Len(np)] + 1]
      BY <2>1, <2>3, <3>1 DEF Visits, PathChanged
    <3>3. p[Len(np)] \in Nat /\ p[Len(np)] + 1 \in Nat
      <4>1. p[Len(np)] \in Nat
        BY <2>2, <3>1
      <4> QED BY <4>1
    <3>4. /\ At(r) \in Seq(Nat) /\ Len(At(r)) = Len(p)
          /\ \A d \in 1..Len(p) : At(r)[d] = IF d = Len(np) THEN p[Len(np)] + 1 ELSE p[d]
      <4>1. PICK k, v : k = Len(np) /\ v = p[Len(np)] + 1
        OBVIOUS
      <4>2. k \in 1..Len(p) /\ v \in Nat /\ At(r) = [p EXCEPT ![k] = v]
        BY <3>1, <3>2, <3>3, <4>1
      <4>3. /\ [p EXCEPT ![k] = v] \in Seq(Nat)
            /\ Len([p EXCEPT ![k] = v]) = Len(p)
            /\ \A d \in 1..Len(p) : [p EXCEPT ![k] = v][d] = IF d = k THEN v ELSE p[d]
        BY ONLY <2>2, <4>2, ExceptPath
      <4> QED BY <4>1, <4>2, <4>3, Zenon
    <3>5. \A d \in 1..Len(p) : At(r)[d] = IF d = Len(np) THEN p[d] + 1 ELSE p[d]
      BY <3>4
    <3>6. Moved(paths, np, TRUE, r)
      BY <2>1, <2>3 DEF Moved
    <3> QED BY <2>1, <3>4, <3>5, <3>6
  <2>4. CASE ~AtOrAfter(p, np)
    <3>1. At(r) = p
      BY <2>1, <2>4 DEF Visits
    <3>2. ~Moved(paths, np, TRUE, r)
      BY <2>1, <2>4 DEF Moved
    <3> QED BY <2>1, <2>2, <3>1, <3>2
  <2> QED BY <2>3, <2>4
<1> HIDE DEF At
<1>11. moved \in Seq(Seq(Nat)) /\ Len(moved) = n /\ \A r \in 1..n : moved[r] = At(r)
  <2>1. moved = [r \in 1..n |-> At(r)]
    BY <1>1
  <2>2. moved \in [1..n -> Seq(Nat)]
    BY <1>10, <2>1
  <2> HIDE DEF moved
  <2>3. \A r \in 1..n : moved[r] = At(r)
    BY <2>1
  <2>4. moved \in Seq(Seq(Nat)) /\ Len(moved) = n
    BY <1>1, <2>2, FunctionIsSeq
  <2> QED BY <2>3, <2>4
<1> HIDE DEF moved
<1>12. /\ paths' \in Seq(Seq(Nat)) /\ Len(paths') = n + 1
       /\ \A r \in 1..n : paths'[r] = At(r)
       /\ paths'[n + 1] = np
  <2>1. /\ Append(moved, np) \in Seq(Seq(Nat))
        /\ Len(Append(moved, np)) = Len(moved) + 1
        /\ \A r \in 1..Len(moved) : Append(moved, np)[r] = moved[r]
        /\ Append(moved, np)[Len(moved) + 1] = np
    BY <1>6, <1>11, AppendProperties
  <2> QED BY <1>9, <1>11, <2>1
<1>13. /\ parents' \in Seq(Nat) /\ Len(parents') = n + 1
       /\ \A r \in 1..n : parents'[r] = parents[r]
       /\ parents'[n + 1] = parent
  <2>1. /\ Append(parents, parent) \in Seq(Nat)
        /\ Len(Append(parents, parent)) = Len(parents) + 1
        /\ \A r \in 1..Len(parents) : Append(parents, parent)[r] = parents[r]
        /\ Append(parents, parent)[Len(parents) + 1] = parent
    <3>1. parent \in Nat /\ parents \in Seq(Nat)
      BY <1>1, <1>3
    <3> QED BY <3>1, AppendProperties
  <2> QED BY <1>9, <2>1, Zenon
<1>14. /\ children' \in [0..(n + 1) -> Seq(Nat)]
       /\ ListGrows(children, children', n, parent, position)
  BY <1>1, <1>9, AttachGrows
<1>15. GridType'
  BY <1>1, <1>9, <1>12, <1>13, <1>14 DEF GridType
<1>16. PathsMove(paths, paths', n, np, TRUE)
  <2> SUFFICES ASSUME NEW r \in 1..n
               PROVE  /\ Len(paths'[r]) = Len(paths[r])
                      /\ \A d \in 1..Len(paths[r]) :
                           paths'[r][d] = IF Moved(paths, np, TRUE, r) /\ d = Len(np)
                                          THEN paths[r][d] + 1 ELSE paths[r][d]
    BY DEF PathsMove
  <2>1. paths'[r] = At(r)
    BY <1>12
  <2> QED BY <1>10, <2>1, ZenonT(40)
<1>17. Grows(children, parents, paths, n, parent, position, np, TRUE, children', parents', paths')
  BY <1>8, <1>12, <1>13, <1>14, <1>16 DEF Grows
<1> QED BY <1>13, <1>15, <1>17 DEF InsertDoes

LEMMA InsertKeeps ==
  ASSUME GridIInv, NEW parent \in 0..Len(parents), NEW position \in 0..Len(children[parent]),
         Insert(parent, position)
  PROVE  GridIInv'
<1>1. PICK n : n = Len(parents)
  OBVIOUS
<1>2. PICK np : np = Append(PathOf(parent), position)
  OBVIOUS
<1>3. InsertDoes(parent, position, np, n)
  BY <1>1, <1>2, InsertGrows
<1>4. GridType' /\ Len(parents') = n + 1 /\ \A r \in 1..n : parents'[r] = parents[r]
  BY <1>3 DEF InsertDoes
<1>5. Grows(children, parents, paths, n, parent, position, np, TRUE, children', parents', paths')
  BY <1>3 DEF InsertDoes
<1>6. Forest(children, parents, paths, n)
  BY <1>1 DEF GridIInv
<1>7. Forest(children', parents', paths', n + 1)
  BY <1>5, <1>6, ForestGrows
<1>8. /\ rowCount <= n /\ rowCount' = rowCount /\ rowCount \in Nat /\ n \in Nat
      /\ populated' /\ under' = under
  BY <1>1 DEF Insert, GridIInv, Counted, GridType
<1>9. Counted' /\ Spine'
  BY <1>4, <1>8 DEF Counted, Spine
<1>10. VisitIsRowOrder'
  <2>1. ASSUME NEW i \in 1..rowCount, NEW j \in 1..rowCount, i < j
        PROVE  Before(paths'[i], paths'[j])
    <3>1. i \in 1..n /\ j \in 1..n
      BY <1>8
    <3>2. Before(paths[i], paths[j])
      BY <2>1 DEF GridIInv, VisitIsRowOrder
    <3> QED BY <1>5, <1>6, <3>1, <3>2, BeforeGrows
  <2> QED BY <1>8, <2>1 DEF VisitIsRowOrder
<1>11. Remembered'
  BY <1>8 DEF Remembered, GridIInv
<1>12. JsonPrintsEveryRow'
  <2>1. \A r \in DOMAIN under : r \in 1..n
    BY <1>8 DEF GridIInv, Remembered
  <2> QED BY <1>4, <1>8, <2>1 DEF GridIInv, JsonPrintsEveryRow
<1> QED BY <1>4, <1>7, <1>9, <1>10, <1>11, <1>12 DEF GridIInv

LEMMA PopulatedKeeps ==
  ASSUME GridIInv, Populated
  PROVE  GridIInv'
<1>1. /\ children' = children /\ parents' = parents /\ paths' = paths /\ nodes' = nodes
      /\ rowCount' = rowCount /\ accMap' = accMap /\ under' = under /\ populated'
      /\ populated' = TRUE
  BY DEF Populated
<1>2. GridType' /\ Forest(children, parents, paths, Len(parents))'
  BY <1>1 DEF GridIInv, GridType
<1>3. Counted' /\ Spine' /\ Remembered'
  BY <1>1 DEF GridIInv, Counted, Spine, Remembered
<1>4. VisitIsRowOrder' /\ JsonPrintsEveryRow'
  BY <1>1 DEF GridIInv, VisitIsRowOrder, JsonPrintsEveryRow
<1> QED BY <1>2, <1>3, <1>4 DEF GridIInv

LEMMA GridInitIInv == GridInit => GridIInv
<1> SUFFICES ASSUME GridInit PROVE GridIInv
  OBVIOUS
<1>1. /\ children = [node \in {NoParent} |-> <<>>] /\ parents = <<>> /\ paths = <<>>
      /\ nodes = <<>> /\ rowCount = 0 /\ populated = FALSE
      /\ accMap = [path \in {} |-> NoParent] /\ under = [r \in {} |-> NoParent]
  BY DEF GridInit
<1>2. Len(parents) = 0 /\ Len(nodes) = 0 /\ Len(paths) = 0
  BY <1>1
<1>3. children \in [0..0 -> Seq(Nat)] /\ children[0] = <<>>
  BY <1>1 DEF NoParent
<1>4. GridType
  BY <1>1, <1>2, <1>3 DEF GridType
<1>5. WellFormed(children, parents, paths, 0)
  BY <1>3 DEF WellFormed
<1>6. Resolves(children, parents, paths, 0) /\ Distinct(paths, 0)
  BY DEF Resolves, Distinct
<1>7. Listed(children, parents, paths, 0)
  BY <1>3 DEF Listed
<1>8. Forest(children, parents, paths, Len(parents))
  BY <1>2, <1>5, <1>6, <1>7 DEF Forest
<1>9. Counted /\ VisitIsRowOrder /\ Spine
  BY <1>1, <1>2 DEF Counted, VisitIsRowOrder, Spine
<1>10. DOMAIN under = {} /\ DOMAIN accMap = {}
  BY <1>1
<1>11. Remembered /\ JsonPrintsEveryRow
  BY <1>10 DEF Remembered, JsonPrintsEveryRow
<1> QED BY <1>4, <1>8, <1>9, <1>11 DEF GridIInv

LEMMA GridNextKeeps ==
  ASSUME GridIInv, [GridNext]_gridVars
  PROVE  GridIInv'
<1>1. CASE \E level \in 0..MaxLevel, hidden \in BOOLEAN : Row(level, hidden)
  <2>1. PICK level \in 0..MaxLevel, hidden \in BOOLEAN : Row(level, hidden)
    BY <1>1
  <2>2. level \in Nat
    BY GridAssumption
  <2> QED BY <2>1, <2>2, RowKeeps
<1>2. CASE Populated
  BY <1>2, PopulatedKeeps
<1>3. CASE \E parent \in 0..Len(parents) : \E position \in 0..Len(children[parent]) :
              Insert(parent, position)
  BY <1>3, InsertKeeps
<1>4. CASE UNCHANGED gridVars
  BY <1>4 DEF gridVars, GridIInv, GridType, Counted, VisitIsRowOrder, Spine, Remembered,
              JsonPrintsEveryRow
<1> QED BY <1>1, <1>2, <1>3, <1>4 DEF GridNext

\* Nothing of the forest is lost: every path resolves.
LEMMA IInvResolves == GridIInv => PathsResolve
<1> SUFFICES ASSUME GridIInv, NEW r \in 1..Len(parents)
             PROVE  LET above == PathOf(parents[r])
                        place == paths[r][Len(paths[r])]
                    IN  /\ Len(paths[r]) = Len(above) + 1
                        /\ Agree(above, paths[r], Len(above))
                        /\ place + 1 \in 1..Len(children[parents[r]])
                        /\ children[parents[r]][place + 1] = r
  BY DEF PathsResolve
<1>1. PICK n : n = Len(parents)
  OBVIOUS
<1>2. Forest(children, parents, paths, n)
  BY <1>1 DEF GridIInv
<1> DEFINE place == paths[r][Len(paths[r])]
<1>3. PathOf(parents[r]) = PathIn(paths, parents[r])
  BY DEF PathOf, PathIn
<1>4. /\ Len(paths[r]) = Len(PathIn(paths, parents[r])) + 1
      /\ Agree(PathIn(paths, parents[r]), paths[r], Len(PathIn(paths, parents[r])))
      /\ place + 1 <= Len(children[parents[r]])
      /\ children[parents[r]][place + 1] = r
  BY <1>1, <1>2 DEF Forest, Resolves
<1>5. Len(paths[r]) \in Nat /\ Len(paths[r]) >= 1
  BY <1>1, <1>2 DEF Forest, WellFormed
<1>6. Len(paths[r]) \in 1..Len(paths[r])
  BY <1>5
<1>7. place \in Nat
  BY <1>1, <1>2, <1>6 DEF Forest, WellFormed
<1>8. parents[r] \in 0..n
  BY <1>1, <1>2 DEF Forest, WellFormed
<1>9. Len(children[parents[r]]) \in Nat
  BY <1>2, <1>8 DEF Forest, WellFormed
<1> HIDE DEF place
<1>10. place + 1 \in 1..Len(children[parents[r]])
  BY <1>4, <1>7, <1>9
<1> QED BY <1>3, <1>4, <1>10 DEF place

\* However many rows a generator yields and with whatever levels, whichever of them
\* the filter hides and wherever rows are inserted later, every path leads to its row,
\* the rows come out in the order they went in, and the printed ones below their
\* parents (renderers/__init__.py:292-412, cli/text_renderer.py:569-617).
THEOREM GridAlwaysKeepsRows == GridSpec => []GridKeepsRows
<1>1. GridIInv => GridKeepsRows
  BY IInvResolves DEF GridIInv, GridKeepsRows
<1>2. GridIInv /\ [GridNext]_gridVars => GridIInv'
  BY GridNextKeeps
<1> QED BY <1>1, <1>2, GridInitIInv, PTL DEF GridSpec
-----------------------------------------------------------------------------
(* The files that runs share.                                               *)

USE BlocksAssumption, NoneAssumption, KillsAssumption
-----------------------------------------------------------------------------
(* Type correctness.                                                        *)

\* The variables have their types when the cache directory is empty.
LEMMA InitTypeOK == Init => TypeOK
<1> SUFFICES ASSUME Init PROVE TypeOK
  OBVIOUS
<1> USE DEF Init
<1>1. pc \in [Runs -> Places] /\ new \in [Runs -> BOOLEAN]
  BY DEF Places
<1>2. data \in [Inodes -> SUBSET Whole] /\ got \in [Runs -> 0..Blocks]
  OBVIOUS
<1>3. kills \in 0..MaxKills
  BY SMT
<1>5. row \in BOOLEAN /\ overlap \in BOOLEAN /\ crossed \in BOOLEAN
  BY Zenon
<1>4. /\ fd \in [Runs -> Inodes \cup {None}]
      /\ ifd \in [Runs -> {"none", "linked", "orphan"}]
  OBVIOUS
<1> QED
  BY <1>1, <1>2, <1>3, <1>4, <1>5 DEF TypeOK

\* The steps of the resource cache keep the types.
LEMMA CacheTypeOK ==
  ASSUME TypeOK, NEW r \in Runs,
         \/ Unreachable(r) \/ OpenCached(r) \/ FindAbsent(r) \/ Create(r)
         \/ Fetch(r) \/ FetchEnds(r) \/ FetchLosesName(r) \/ FetchFails(r)
         \/ FetchAborts(r)
  PROVE  TypeOK'
<1> USE DEF TypeOK, Places, Goto, pdbVars, isfVars, dbVars, history
<1>1. CASE Unreachable(r)
  BY <1>1 DEF Unreachable
<1>2. CASE OpenCached(r)
  BY <1>2 DEF OpenCached
<1>3. CASE FindAbsent(r)
  BY <1>3 DEF FindAbsent
<1>4. CASE Create(r)
  <2>1. pdb' \in Inodes
    BY <1>4 DEF Create, Unused
  <2>2. data' \in [Inodes -> SUBSET Whole]
    BY <1>4 DEF Create
  <2>3. pc' \in [Runs -> Places]
    BY <1>4 DEF Create
  <2>4. fd' \in [Runs -> Inodes \cup {None}] /\ got' \in [Runs -> 0..Blocks]
    BY <1>4, <2>1 DEF Create
  <2>5. crossed' \in BOOLEAN
    BY <1>4 DEF Create
  <2> QED
    BY <1>4, <2>1, <2>2, <2>3, <2>4, <2>5 DEF Create
<1>5. CASE Fetch(r)
  <2>1. got[r] + 1 \in Whole /\ got' \in [Runs -> 0..Blocks]
    BY <1>5 DEF Fetch, Whole
  <2>2. data' \in [Inodes -> SUBSET Whole]
    BY <1>5, <2>1 DEF Fetch
  <2> QED
    BY <1>5, <2>1, <2>2 DEF Fetch
<1>6. CASE FetchEnds(r)
  BY <1>6 DEF FetchEnds
<1>7. CASE FetchLosesName(r)
  BY <1>7 DEF FetchLosesName
<1>8. CASE FetchFails(r)
  BY <1>8 DEF FetchFails
<1>9. CASE FetchAborts(r)
  BY <1>9 DEF FetchAborts
<1> QED
  BY <1>1, <1>2, <1>3, <1>4, <1>5, <1>6, <1>7, <1>8, <1>9

\* The steps on the table and the database keep the types, and so does a kill.
LEMMA TableTypeOK ==
  ASSUME TypeOK, NEW r \in Runs,
         \/ Start(r) \/ Index(r) \/ FindLocation(r) \/ OpenTable(r)
         \/ Convert(r) \/ CleanUp(r) \/ Search(r) \/ Load(r) \/ Kill(r)
  PROVE  TypeOK'
<1> USE DEF TypeOK, Places, Goto, pdbVars, isfVars, dbVars, history
<1>1. CASE Start(r)
  BY <1>1 DEF Start
<1>2. CASE Index(r)
  BY <1>2 DEF Index
<1>3. CASE FindLocation(r)
  BY <1>3 DEF FindLocation
<1>4. CASE OpenTable(r)
  BY <1>4 DEF OpenTable
<1>5. CASE Convert(r)
  BY <1>5 DEF Convert
<1>6. CASE CleanUp(r)
  BY <1>6 DEF CleanUp, DropTable
<1>7. CASE Search(r)
  BY <1>7 DEF Search
<1>8. CASE Load(r)
  BY <1>8 DEF Load
<1>9. CASE Kill(r)
  BY <1>9 DEF Kill
<1> QED
  BY <1>1, <1>2, <1>3, <1>4, <1>5, <1>6, <1>7, <1>8, <1>9

\* Every step keeps the types.
LEMMA NextTypeOK == TypeOK /\ [Next]_vars => TypeOK'
<1>1. CASE UNCHANGED vars
  BY <1>1 DEF TypeOK, vars
<1>2. CASE Next
  BY <1>2, CacheTypeOK, TableTypeOK DEF Next, Step
<1> QED
  BY <1>1, <1>2

\* THEOREM: the variables of the shared files keep their types.
THEOREM TypeCorrect == Spec => []TypeOK
  BY InitTypeOK, NextTypeOK, PTL DEF Spec
-----------------------------------------------------------------------------
(* The database and the table, while runs do not overlap.                   *)

\* A run is at one of these places between finding no row and searching the
\* file it has converted.
Converting == {"convert", "retrieve", "create1", "fetch1", "reopen", "create2",
               "fetch2", "read", "missing", "failed", "search"}

\* Without overlap one run is under way at most, a run that converts found no
\* row, and a row's file is whole.
RowInv ==
  ~ overlap =>
    /\ \A p, q \in Runs : p # q => pc[p] = "idle" \/ pc[q] = "idle"
    /\ \A r \in Runs : pc[r] \in Converting => ~ row
    /\ row => isf = "whole"

\* The steps of the resource cache move one run among the places of a
\* conversion, and leave the table and the database alone.
LEMMA CacheRowInv ==
  ASSUME TypeOK, RowInv, NEW r \in Runs,
         \/ Unreachable(r) \/ OpenCached(r) \/ FindAbsent(r) \/ Create(r)
         \/ Fetch(r) \/ FetchEnds(r) \/ FetchLosesName(r) \/ FetchFails(r)
         \/ FetchAborts(r)
  PROVE  RowInv'
<1>1. /\ UNCHANGED <<isf, row, overlap>>
      /\ pc[r] \in Converting
      /\ \E p \in Converting : pc' = [pc EXCEPT ![r] = p]
  <2> USE DEF Goto, isfVars, dbVars, history, Converting, Fetching
  <2>1. CASE Unreachable(r)
    BY <2>1 DEF Unreachable
  <2>2. CASE OpenCached(r)
    BY <2>2 DEF OpenCached
  <2>3. CASE FindAbsent(r)
    BY <2>3 DEF FindAbsent
  <2>4. CASE Create(r)
    BY <2>4 DEF Create
  <2>5. CASE Fetch(r)
    <3>1. pc' = [pc EXCEPT ![r] = pc[r]]
      BY <2>5 DEF Fetch, TypeOK
    <3> QED
      BY <2>5, <3>1 DEF Fetch
  <2>6. CASE FetchEnds(r)
    BY <2>6 DEF FetchEnds
  <2>7. CASE FetchLosesName(r)
    BY <2>7 DEF FetchLosesName
  <2>8. CASE FetchFails(r)
    BY <2>8 DEF FetchFails
  <2>9. CASE FetchAborts(r)
    BY <2>9 DEF FetchAborts
  <2> QED
    BY <2>1, <2>2, <2>3, <2>4, <2>5, <2>6, <2>7, <2>8, <2>9
<1>2. PICK p \in Converting : pc' = [pc EXCEPT ![r] = p]
  BY <1>1
<1>3. /\ pc'[r] = p
      /\ \A q \in Runs : q # r => pc'[q] = pc[q]
  BY <1>2 DEF TypeOK
<1> QED
  BY <1>1, <1>3 DEF RowInv, Converting

\* The steps on the table and the database: only a run that found no row
\* truncates or removes the file, and only a whole file is entered.
LEMMA TableRowInv ==
  ASSUME TypeOK, RowInv, NEW r \in Runs,
         \/ Start(r) \/ Index(r) \/ FindLocation(r) \/ OpenTable(r)
         \/ Convert(r) \/ CleanUp(r) \/ Search(r) \/ Load(r) \/ Kill(r)
  PROVE  RowInv'
<1> USE DEF TypeOK, RowInv, Converting, Goto, pdbVars, isfVars, dbVars, history
<1>1. CASE Start(r)
  <2>1. ~ overlap' => \A q \in Runs : pc[q] = "idle"
    BY <1>1 DEF Start, Running
  <2> QED
    BY <1>1, <2>1 DEF Start
<1>2. CASE Index(r)
  BY <1>2 DEF Index, Indexes
<1>3. CASE FindLocation(r)
  BY <1>3 DEF FindLocation
<1>4. CASE OpenTable(r)
  BY <1>4 DEF OpenTable
<1>5. CASE Convert(r)
  BY <1>5 DEF Convert
<1>6. CASE CleanUp(r)
  BY <1>6 DEF CleanUp, DropTable
<1>7. CASE Search(r)
  BY <1>7 DEF Search
<1>8. CASE Load(r)
  BY <1>8 DEF Load
<1>9. CASE Kill(r)
  BY <1>9 DEF Kill
<1> QED
  BY <1>1, <1>2, <1>3, <1>4, <1>5, <1>6, <1>7, <1>8, <1>9

\* THEOREM: while runs do not overlap, the database only knows a table whose
\* file is whole, whatever fails and however many runs are killed.
THEOREM RowIsAlwaysWhole == Spec => []RowIsWhole
<1>1. Init => RowInv
  BY DEF Init, RowInv, Converting
<1>2. TypeOK /\ RowInv /\ [Next]_vars => RowInv'
  <2>1. ASSUME TypeOK, RowInv, UNCHANGED vars PROVE RowInv'
    BY <2>1 DEF RowInv, vars
  <2>2. ASSUME TypeOK, RowInv, Next PROVE RowInv'
    BY <2>2, CacheRowInv, TableRowInv DEF Next, Step
  <2> QED
    BY <2>1, <2>2
<1>3. RowInv => RowIsWhole
  BY DEF RowInv, RowIsWhole
<1> QED
  BY <1>1, <1>2, <1>3, TypeCorrect, PTL DEF Spec
-----------------------------------------------------------------------------
(* The cached PDB, while two downloads do not cross.                        *)

\* A run that found the file absent goes on to create it while it is absent;
\* one that downloads holds the named inode, alone, and has written the blocks
\* it read; and otherwise a cached file is whole if no run was killed and the
\* length is known.
Absent == \A q \in Runs : pc[q] \in ToFetch => pdb = None

FetchesAlone ==
  \A q \in Runs : pc[q] \in Fetching =>
    /\ pdb # None /\ fd[q] = pdb
    /\ data[pdb] = 1..got[q]
    /\ \A p \in Runs \ {q} : pc[p] \notin Fetching

WholeAtRest ==
  /\ hasLength
  /\ kills = 0
  /\ pdb # None
  /\ \A q \in Runs : pc[q] \notin Fetching
  => data[pdb] = Whole

PdbInv == ~ crossed => Absent /\ FetchesAlone /\ WholeAtRest

\* A file written from its start without holes is as long as what was written.
LEMMA SizeOfPrefix ==
  ASSUME NEW i \in Inodes, NEW n \in 0..Blocks, data[i] = 1..n
  PROVE  Size(i) = n
<1> DEFINE Top(m) == (m = 0 \/ m \in data[i]) /\ \A b \in data[i] : b <= m
<1>1. Top(n)
  OBVIOUS
<1>2. \A m \in 0..Blocks : Top(m) => m = n
  OBVIOUS
<1>3. Size(i) = CHOOSE m \in 0..Blocks : Top(m)
  BY DEF Size
<1> HIDE DEF Top
<1> QED
  BY <1>1, <1>2, <1>3

\* A run that moves between places outside the download, and changes neither
\* the PDB nor the number of kills downwards, keeps the invariant.
LEMMA OutsideKeepsPdbInv ==
  ASSUME TypeOK, PdbInv, NEW r \in Runs, NEW p \in Places,
         p \notin Fetching \cup ToFetch,
         pc[r] \notin Fetching,
         pc' = [pc EXCEPT ![r] = p],
         kills' = 0 => kills = 0,
         \A q \in Runs \ {r} : fd'[q] = fd[q],
         UNCHANGED <<hasLength, pdb, data, got, crossed>>
  PROVE  PdbInv'
<1>1. /\ pc'[r] = p
      /\ \A q \in Runs \ {r} : pc'[q] = pc[q]
  BY DEF TypeOK
<1> USE <1>1 DEF PdbInv
<1>2. Absent /\ ~ crossed => Absent'
  BY DEF Absent
<1>3. FetchesAlone /\ ~ crossed => FetchesAlone'
  BY DEF FetchesAlone
<1>4. WholeAtRest /\ ~ crossed => WholeAtRest'
  BY DEF WholeAtRest
<1> QED
  BY <1>2, <1>3, <1>4

\* A download starts on an absent file, unless another is about to.
LEMMA CreatePdbInv ==
  ASSUME TypeOK, PdbInv, NEW r \in Runs, Create(r)
  PROVE  PdbInv'
<1> SUFFICES ASSUME ~ crossed'
             PROVE  Absent' /\ FetchesAlone' /\ WholeAtRest'
  BY DEF PdbInv
<1> USE DEF TypeOK, Goto, Fetching, ToFetch
<1>1. /\ ~ crossed
      /\ \A q \in Runs \ {r} : pc[q] \notin Fetching \cup ToFetch
  BY DEF Create
<1>2. /\ pc'[r] \in Fetching
      /\ \A q \in Runs \ {r} : pc'[q] = pc[q]
  BY DEF Create
<1>3. /\ pdb' \in Inodes
      /\ fd'[r] = pdb'
      /\ got'[r] = 0
      /\ data'[pdb'] = {}
  BY DEF Create, Unused
<1>4. Absent'
  BY <1>1, <1>2 DEF Absent
<1>5. FetchesAlone'
  BY <1>1, <1>2, <1>3 DEF FetchesAlone
<1>6. WholeAtRest'
  BY <1>2 DEF WholeAtRest
<1> QED
  BY <1>4, <1>5, <1>6

\* The other steps of the resource cache: a download that ends without an
\* error and knows the length has written the whole file.
LEMMA CachePdbInv ==
  ASSUME TypeOK, PdbInv, NEW r \in Runs,
         \/ Unreachable(r) \/ OpenCached(r) \/ FindAbsent(r)
         \/ Fetch(r) \/ FetchEnds(r) \/ FetchLosesName(r) \/ FetchFails(r)
         \/ FetchAborts(r)
  PROVE  PdbInv'
<1> USE DEF TypeOK, Goto, pdbVars, isfVars, dbVars, history
<1>1. CASE Unreachable(r)
  <2>1. \E p \in {"missing", "failed"} : pc' = [pc EXCEPT ![r] = p]
    BY <1>1 DEF Unreachable
  <2>2. pc[r] \notin Fetching /\ \A q \in Runs \ {r} : fd'[q] = fd[q]
    BY <1>1 DEF Unreachable, Fetching
  <2> QED
    BY <1>1, <2>1, <2>2, OutsideKeepsPdbInv
    DEF Unreachable, Fetching, ToFetch, Places
<1>2. CASE OpenCached(r)
  <2>1. \E p \in {"reopen", "read"} : pc' = [pc EXCEPT ![r] = p]
    BY <1>2 DEF OpenCached
  <2>2. pc[r] \notin Fetching /\ \A q \in Runs \ {r} : fd'[q] = fd[q]
    BY <1>2 DEF OpenCached, Fetching
  <2> QED
    BY <1>2, <2>1, <2>2, OutsideKeepsPdbInv
    DEF OpenCached, Fetching, ToFetch, Places
<1>3. CASE FindAbsent(r)
  <2>1. /\ pdb = None
        /\ UNCHANGED <<hasLength, kills, pdb, data, fd, got, crossed>>
        /\ pc'[r] \in ToFetch
        /\ \A q \in Runs \ {r} : pc'[q] = pc[q]
    BY <1>3 DEF FindAbsent, MustFetch, ToFetch
  <2>2. pc'[r] \notin Fetching
    BY <2>1 DEF ToFetch, Fetching
  <2> QED
    BY <2>1, <2>2 DEF PdbInv, Absent, FetchesAlone, WholeAtRest
<1>4. CASE Fetch(r)
  <2> SUFFICES ASSUME ~ crossed
               PROVE  Absent' /\ FetchesAlone' /\ WholeAtRest'
    BY <1>4 DEF PdbInv, Fetch
  <2>1. /\ UNCHANGED <<pc, pdb, fd>>
        /\ pc[r] \in Fetching
        /\ fd[r] = pdb /\ pdb \in Inodes
        /\ data[pdb] = 1..got[r]
        /\ \A q \in Runs \ {r} : pc[q] \notin Fetching
    BY <1>4 DEF Fetch, PdbInv, FetchesAlone
  <2>2. /\ got'[r] = got[r] + 1
        /\ data'[pdb] = data[pdb] \cup {got[r] + 1}
    BY <1>4, <2>1 DEF Fetch
  <2>3. 1..(got[r] + 1) = (1..got[r]) \cup {got[r] + 1}
    OBVIOUS
  <2>4. Absent'
    BY <2>1 DEF Absent, PdbInv
  <2>5. data'[pdb'] = 1..got'[r]
    BY <2>1, <2>2, <2>3
  <2>6. FetchesAlone'
    BY <2>1, <2>5 DEF FetchesAlone
  <2>7. WholeAtRest'
    BY <2>1 DEF WholeAtRest
  <2> QED
    BY <2>4, <2>6, <2>7
<1>5. CASE FetchEnds(r)
  <2> SUFFICES ASSUME ~ crossed
               PROVE  Absent' /\ FetchesAlone' /\ WholeAtRest'
    BY <1>5 DEF PdbInv, FetchEnds
  <2>1. /\ pc[r] \in Fetching
        /\ fd[r] = pdb /\ pdb \in Inodes
        /\ data[pdb] = 1..got[r]
        /\ \A q \in Runs \ {r} : pc[q] \notin Fetching
        /\ UNCHANGED <<hasLength, kills, pdb, data>>
    BY <1>5 DEF FetchEnds, PdbInv, FetchesAlone
  <2>2. Size(pdb) = got[r]
    BY <2>1, SizeOfPrefix
  <2>3. hasLength => data[pdb] = Whole
    BY <1>5, <2>1, <2>2 DEF FetchEnds, Short, Whole
  <2>4. /\ pc'[r] \notin Fetching \cup ToFetch
        /\ \A q \in Runs \ {r} : pc'[q] = pc[q]
    BY <1>5 DEF FetchEnds, Fetching, ToFetch
  <2>5. Absent'
    BY <2>1, <2>4 DEF Absent, PdbInv
  <2>6. FetchesAlone'
    BY <2>1, <2>4 DEF FetchesAlone
  <2>7. WholeAtRest'
    BY <2>1, <2>3 DEF WholeAtRest
  <2> QED
    BY <2>5, <2>6, <2>7
<1>6. CASE FetchLosesName(r)
  <2>1. ~ (~ crossed)
    BY <1>6 DEF FetchLosesName, PdbInv, FetchesAlone
  <2> QED
    BY <1>6, <2>1 DEF FetchLosesName, PdbInv
<1>7. CASE FetchFails(r)
  <2> SUFFICES ASSUME ~ crossed
               PROVE  Absent' /\ FetchesAlone' /\ WholeAtRest'
    BY <1>7 DEF PdbInv, FetchFails
  <2>1. /\ pc'[r] \notin Fetching
        /\ \A q \in Runs \ {r} : pc'[q] = pc[q] /\ pc[q] \notin Fetching
        /\ pdb' = None
    BY <1>7 DEF FetchFails, PdbInv, FetchesAlone, Fetching
  <2> QED
    BY <2>1 DEF Absent, FetchesAlone, WholeAtRest
<1>8. CASE FetchAborts(r)
  <2> SUFFICES ASSUME ~ crossed
               PROVE  Absent' /\ FetchesAlone' /\ WholeAtRest'
    BY <1>8 DEF PdbInv, FetchAborts
  <2>1. /\ pc'[r] \notin Fetching \cup ToFetch
        /\ \A q \in Runs \ {r} : pc'[q] = pc[q] /\ pc[q] \notin Fetching
        /\ ~ hasLength'
        /\ pdb' = pdb
    BY <1>8 DEF FetchAborts, PdbInv, FetchesAlone, Fetching, ToFetch
  <2> QED
    BY <2>1 DEF Absent, FetchesAlone, WholeAtRest, PdbInv
<1> QED
  BY <1>1, <1>2, <1>3, <1>4, <1>5, <1>6, <1>7, <1>8

\* A kill may leave any run's download half way, and is counted.
LEMMA KillPdbInv ==
  ASSUME TypeOK, PdbInv, NEW r \in Runs, Kill(r)
  PROVE  PdbInv'
<1> USE DEF TypeOK, Goto
<1>1. /\ pc'[r] = "idle"
      /\ \A q \in Runs \ {r} : pc'[q] = pc[q] /\ fd'[q] = fd[q]
      /\ kills' # 0
      /\ UNCHANGED <<pdb, data, got, crossed>>
  BY DEF Kill
<1> QED
  BY <1>1 DEF PdbInv, Absent, FetchesAlone, WholeAtRest, Fetching, ToFetch

\* The steps on the table and the database leave the cached PDB alone.
LEMMA TablePdbInv ==
  ASSUME TypeOK, PdbInv, NEW r \in Runs,
         \/ Start(r) \/ Index(r) \/ FindLocation(r) \/ OpenTable(r)
         \/ Convert(r) \/ CleanUp(r) \/ Search(r) \/ Load(r)
  PROVE  PdbInv'
<1> DEFINE Others == Places \ (Fetching \cup ToFetch)
<1>1. /\ pc[r] \notin Fetching
      /\ \E p \in Others : pc' = [pc EXCEPT ![r] = p]
      /\ \A q \in Runs \ {r} : fd'[q] = fd[q]
      /\ UNCHANGED <<hasLength, kills, pdb, data, got, crossed>>
  <2> USE DEF Goto, pdbVars, isfVars, dbVars, history, Places, Fetching, ToFetch
  <2>1. CASE Start(r)
    BY <2>1 DEF Start
  <2>2. CASE Index(r)
    BY <2>2 DEF Index
  <2>3. CASE FindLocation(r)
    BY <2>3 DEF FindLocation
  <2>4. CASE OpenTable(r)
    BY <2>4 DEF OpenTable
  <2>5. CASE Convert(r)
    BY <2>5 DEF Convert, TypeOK
  <2>6. CASE CleanUp(r)
    BY <2>6 DEF CleanUp
  <2>7. CASE Search(r)
    BY <2>7 DEF Search
  <2>8. CASE Load(r)
    BY <2>8 DEF Load
  <2> QED
    BY <2>1, <2>2, <2>3, <2>4, <2>5, <2>6, <2>7, <2>8
<1> QED
  BY <1>1, OutsideKeepsPdbInv

\* Every step keeps the invariant of the cached PDB.
LEMMA NextPdbInv == TypeOK /\ PdbInv /\ [Next]_vars => PdbInv'
<1>1. ASSUME TypeOK, PdbInv, UNCHANGED vars PROVE PdbInv'
  BY <1>1 DEF PdbInv, Absent, FetchesAlone, WholeAtRest, vars
<1>2. ASSUME TypeOK, PdbInv, Next PROVE PdbInv'
  BY <1>2, CreatePdbInv, CachePdbInv, KillPdbInv, TablePdbInv DEF Next, Step
<1> QED
  BY <1>1, <1>2

\* THEOREM: a cached PDB that nobody downloads is whole, unless its length was
\* not known, a run was killed or two downloads crossed.
THEOREM SettledPdbIsAlwaysWhole == Spec => []SettledPdbIsWhole
<1>1. Init => PdbInv
  BY DEF Init, PdbInv, Absent, FetchesAlone, WholeAtRest, Fetching, ToFetch
<1>2. TypeOK /\ PdbInv => SettledPdbIsWhole
  <2> SUFFICES ASSUME TypeOK, PdbInv, pdb # None, Downloading = {}, hasLength,
                      kills = 0, ~ crossed
               PROVE  data[pdb] = Whole
    BY DEF SettledPdbIsWhole, TypeOK
  <2>1. \A q \in Runs : pc[q] \notin Fetching
    BY DEF PdbInv, FetchesAlone, Downloading
  <2> QED
    BY <2>1 DEF PdbInv, WholeAtRest
<1> QED
  BY <1>1, <1>2, NextPdbInv, TypeCorrect, PTL DEF Spec

\* THEOREM: once no run is past its check for the cached PDB, no step fetches,
\* removes or truncates it again, whether or not it is whole.
THEOREM SettledPdbAlwaysStays == Spec => SettledPdbStays
<1>1. TypeOK /\ [Next]_vars /\ Settled => Settled' /\ UNCHANGED <<pdb, data>>
  <2> SUFFICES ASSUME TypeOK, [Next]_vars, Settled
               PROVE  Settled' /\ UNCHANGED <<pdb, data>>
    OBVIOUS
  <2>1. CASE UNCHANGED vars
    BY <2>1 DEF Settled, vars
  <2>2. CASE Next
    <3>1. PICK r \in Runs : Step(r) \/ Kill(r)
      BY <2>2 DEF Next
    <3> USE DEF Settled, Goto, pdbVars, Fetching, ToFetch
    <3>2. /\ UNCHANGED <<pdb, data>>
          /\ \A q \in Runs \ {r} : pc'[q] = pc[q]
          /\ pc'[r] \notin Fetching \cup ToFetch
      <4> USE DEF TypeOK
      <4>1. CASE Start(r) \/ Index(r) \/ FindLocation(r) \/ OpenTable(r)
        BY <4>1 DEF Start, Index, FindLocation, OpenTable
      <4>2. CASE Unreachable(r) \/ OpenCached(r) \/ FindAbsent(r) \/ Create(r)
        BY <4>2 DEF Unreachable, OpenCached, FindAbsent, MustFetch, Create
      <4>3. CASE \/ Fetch(r) \/ FetchEnds(r) \/ FetchLosesName(r)
                 \/ FetchFails(r) \/ FetchAborts(r)
        BY <4>3 DEF Fetch, FetchEnds, FetchLosesName, FetchFails, FetchAborts
      <4>4. CASE Convert(r) \/ CleanUp(r) \/ Search(r) \/ Load(r)
        BY <4>4 DEF Convert, CleanUp, Search, Load
      <4>5. CASE Kill(r)
        BY <4>5 DEF Kill
      <4> QED
        BY <3>1, <4>1, <4>2, <4>3, <4>4, <4>5 DEF Step
    <3> QED
      BY <3>2
  <2> QED
    BY <2>1, <2>2
<1> QED
  BY <1>1, TypeCorrect, PTL DEF Spec, SettledPdbStays
=============================================================================
