----------------------------- MODULE LayerStack -----------------------------
(***************************************************************************)
(* The layers of a context: LayerContainer, which holds them by name, and  *)
(* LayerStacker, which builds a stack of them on the evidence file before  *)
(* a plugin runs.                                                          *)
(*                                                                         *)
(* External: what a stacker finds in the layer it is shown.  It returns    *)
(* nothing or raises, or returns a layer on top of the one it was shown,   *)
(* under a name that free_layer_name gave it; VmwareStacker first adds the *)
(* layer of a metadata file, and keeps it even when it returns nothing.    *)
(* After the stacking, plugins and the shell add and remove layers.        *)
(***************************************************************************)
EXTENDS Naturals, SequencesExt

CONSTANTS
    Names,       \* names of layers
    Stackers,    \* the stackers, in their stack_order
    File,        \* the layer of the evidence file
    Nobody       \* made by no stacker

ASSUME FileAssumption == File \in Names
ASSUME StackersAssumption ==
    /\ Stackers \in Seq(Range(Stackers) \ {Nobody})
    /\ IsInjective(Stackers)

VARIABLES
    layers,      \* the layers by name: the names each depends on, its stacker
    stackSet,    \* the stackers that have not stacked a layer yet
    at,          \* the stacker the for loop is at
    stacked,     \* the names of the stack, highest first
    phase        \* "stacking", or "plugins"

layerVars == <<layers, stackSet, at, stacked, phase>>

Layer == [dependencies : SUBSET Names, by : Range(Stackers) \cup {Nobody}]
Present == DOMAIN layers

LayersTypeOK ==
    /\ Present \subseteq Names
    /\ \A n \in Present : layers[n] \in Layer
    /\ stackSet \in Seq(Range(Stackers))
    /\ at \in Nat \ {0}
    /\ stacked \in Seq(Names) \ {<<>>}
    /\ phase \in {"stacking", "plugins"}

LayersInit ==
    /\ layers = [n \in {File} |-> [dependencies |-> {}, by |-> Nobody]]
    /\ stackSet = Stackers
    /\ at = 1
    /\ stacked = <<File>>
    /\ phase = "stacking"
-----------------------------------------------------------------------------
(* LayerContainer.                                                          *)

\* add_layer raises otherwise.
CanAdd(held, n, dependencies) ==
    /\ n \notin DOMAIN held
    /\ dependencies \subseteq DOMAIN held

With(held, n, dependencies, by) ==
    [m \in DOMAIN held \cup {n} |->
        IF m = n THEN [dependencies |-> dependencies, by |-> by] ELSE held[m]]

\* Mutant: a layer is removed from under the others.
DelsAny(n) == TRUE

\* del_layer raises when a layer depends on this one.
CanDel(n) == \A m \in Present : n \notin layers[m].dependencies

AddLayer(n, dependencies) ==
    /\ phase = "plugins"
    /\ CanAdd(layers, n, dependencies)
    /\ layers' = With(layers, n, dependencies, Nobody)
    /\ UNCHANGED <<stackSet, at, stacked, phase>>

DelLayer(n) ==
    /\ phase = "plugins"
    /\ n \in Present
    /\ CanDel(n)
    /\ layers' = [m \in Present \ {n} |-> layers[m]]
    /\ UNCHANGED <<stackSet, at, stacked, phase>>
-----------------------------------------------------------------------------
(* LayerStacker.stack_layer.                                                *)

\* What the context holds when a stacker has made its side layer, or none.
Sides ==
    {layers} \cup
    {With(layers, n, {}, Nobody) : n \in {m \in Names : CanAdd(layers, m, {})}}

\* Mutant: the layer shown is not the one stacked last.
OnTheFile(side) == {Last(stacked)} \cup (DOMAIN side \ Present)

\* The layer the stacker is shown, and its side layer when there is one.
Base(side) == {Head(stacked)} \cup (DOMAIN side \ Present)

\* The stacker at hand returns nothing or raises, and the loop goes on.
Decline ==
    /\ phase = "stacking"
    /\ at <= Len(stackSet)
    /\ layers' \in Sides
    /\ at' = at + 1
    /\ UNCHANGED <<stackSet, stacked, phase>>

\* Mutant: the stacker stays in the list after it stacked a layer.
Keeping(list, i) == list

\* stack_set.remove(stacker_cls).
Removing(list, i) == RemoveAt(list, i)

\* It returns a layer, which is added and becomes the one the next round of
\* stackers is shown.
Stack(n) ==
    /\ phase = "stacking"
    /\ at <= Len(stackSet)
    /\ \E side \in Sides :
         /\ CanAdd(side, n, Base(side))
         /\ layers' = With(side, n, Base(side), stackSet[at])
    /\ stacked' = <<n>> \o stacked
    /\ stackSet' = Removing(stackSet, at)
    /\ at' = 1
    /\ UNCHANGED phase

\* No stacker of the round stacked anything: the list is returned.
Finish ==
    /\ phase = "stacking"
    /\ at > Len(stackSet)
    /\ phase' = "plugins"
    /\ UNCHANGED <<layers, stackSet, at, stacked>>

LayersNext ==
    \/ Decline \/ Finish
    \/ \E n \in Names : Stack(n) \/ DelLayer(n)
    \/ \E n \in Names, dependencies \in SUBSET Names : AddLayer(n, dependencies)

LayersSpec == LayersInit /\ [][LayersNext]_layerVars
-----------------------------------------------------------------------------
(* Every layer that a layer depends on is in the context, however stackers  *)
(* fail and plugins add and remove layers (interfaces/layers.py:645, 670).  *)
DependenciesPresent == \A n \in Present : layers[n].dependencies \subseteq Present

(* While the stack is built, each of its layers is in the context and       *)
(* depends on the next: the list names "layers that exist in the provided   *)
(* context, stacked in order" (stacker.py:192).                             *)
StackedIsAChain ==
    phase = "stacking" =>
        /\ \A i \in 1..Len(stacked) : stacked[i] \in Present
        /\ \A i \in 1..(Len(stacked) - 1) :
              stacked[i + 1] \in layers[stacked[i]].dependencies

(* A stacker has stacked a layer or is still to be tried, not both: a layer *)
(* that a stacker recognises in its own output is not stacked for ever.     *)
EachStackerOnce ==
    phase = "stacking" =>
        \A n \in Present : layers[n].by = Nobody \/ layers[n].by \notin Range(stackSet)

(* What every later read relies on: no layer hangs in the air, the stack is  *)
(* a chain down to the file, and it was built in finitely many steps         *)
(* (stacker.py:183-260, interfaces/layers.py:620-720).                       *)
StackIsSound == DependenciesPresent /\ StackedIsAChain /\ EachStackerOnce
=============================================================================
