---------------------------- MODULE MCFramework ----------------------------
(***************************************************************************)
(* The parts of a context for TLC: the layers, the symbol tables and the   *)
(* table of results.  They do not share state, so a behaviour is one of    *)
(* the first, of the second or of the third.                               *)
(***************************************************************************)
EXTENDS LayerStack, SymbolSpace, TreeGrid, TLC

VARIABLE part    \* the part this behaviour is of

vars == <<layerVars, spaceVars, gridVars, part>>

MCStackers == <<"vmware", "lime", "intel">>

MCTables == {"nt", "pe"}
MCTypes == {"s", "t"}

B(types, symbol, bare) == [types |-> types, symbol |-> symbol, bare |-> bare]

\* Types that refer to themselves, to each other, to the other table and to
\* a type nobody has; symbols that point to a structure or are one, which there is
\* or is not.
MCBodies ==
    {B("s" :> {<<"nt", "s">>, <<"nt", "t">>} @@ "t" :> {<<"pe", "s">>}, <<"nt", "s">>, FALSE),
     B("s" :> {<<"nt", "t">>}, <<"pe", "t">>, FALSE),
     B("t" :> {}, <<"nt", "t">>, FALSE),
     B("t" :> {<<"nt", "s">>}, <<"pe", "t">>, TRUE),
     B("s" :> {} @@ "t" :> {<<"pe", "s">>}, <<"pe", "t">>, FALSE)}

MCInit == LayersInit /\ SpaceInit /\ GridInit /\ part \in {"layers", "symbols", "grid"}

MCNext ==
    /\ UNCHANGED part
    /\ \/ part = "layers" /\ LayersNext /\ UNCHANGED <<spaceVars, gridVars>>
       \/ part = "symbols" /\ SpaceNext /\ UNCHANGED <<layerVars, gridVars>>
       \/ part = "grid" /\ GridNext /\ UNCHANGED <<layerVars, spaceVars>>
       \/ part = "grid" /\ populated /\ Len(paths) = MaxRows /\ UNCHANGED vars

MCSpec == MCInit /\ [][MCNext]_vars
=============================================================================
