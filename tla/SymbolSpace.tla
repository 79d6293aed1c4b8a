---------------------------- MODULE SymbolSpace ----------------------------
(***************************************************************************)
(* The symbol tables of a context and the caches SymbolSpace keeps of what *)
(* it resolved in them.  A type's name is a table and a type of it, and a  *)
(* type refers to others by name, in its own table or another: get_type    *)
(* resolves all that it reaches at once, and keeps a placeholder for a     *)
(* name no table has.  The type of a symbol is a reference to a structure  *)
(* itself, or has a child that is one, as a pointer or an array has.  A    *)
(* symbol of a type that refers to nothing is left out: there is nothing   *)
(* to resolve, and no cache of types changes.                              *)
(*                                                                         *)
(* A table is told from a later one of the same name by a serial number,   *)
(* which stands for the identity of the object.                            *)
(***************************************************************************)
EXTENDS Naturals

CONSTANTS
    Tables,      \* names of tables
    Types,       \* names of types in a table
    Bodies,      \* what a table may hold: types and what each refers to, and
                 \* the name the type of its symbol refers to, being a bare
                 \* reference or not
    MaxAppends   \* bound: how many tables are ever appended

Name == Tables \X Types

ASSUME AppendsAssumption == MaxAppends \in Nat
ASSUME BodiesAssumption ==
    \A b \in Bodies :
        /\ DOMAIN b.types \subseteq Types
        /\ \A x \in DOMAIN b.types : b.types[x] \subseteq Name
        /\ b.symbol \in Name
        /\ b.bare \in BOOLEAN

VARIABLES
    dict,        \* the tables by name: body and serial
    resolved,    \* _resolved: a serial, or 0 for an UnresolvedTemplate
    symbols,     \* the symbol each table has cached: its type is "raw" or "full"
    subresolved, \* the tables whose symbol is in _resolved_symbols
    serial,      \* tables appended so far
    cleared      \* tables replaced, removed or cleared after their symbol was
                 \* resolved

spaceVars == <<dict, resolved, symbols, subresolved, serial, cleared>>

Held == DOMAIN dict

SpaceTypeOK ==
    /\ Held \subseteq Tables
    /\ \A t \in Held : dict[t].body \in Bodies /\ dict[t].serial \in 1..serial
    /\ DOMAIN resolved \subseteq Name
    /\ \A n \in DOMAIN resolved : resolved[n] \in 0..serial
    /\ symbols \in [Tables -> {"none", "raw", "full"}]
    /\ subresolved \subseteq Tables
    /\ serial \in 0..MaxAppends
    /\ cleared \subseteq Tables

SpaceInit ==
    /\ dict = [t \in {} |-> 0]
    /\ resolved = [n \in {} |-> 0]
    /\ symbols = [t \in Tables |-> "none"]
    /\ subresolved = {}
    /\ serial = 0
    /\ cleared = {}
-----------------------------------------------------------------------------
(* Tables come and go.                                                      *)

\* Mutant: what was resolved is kept when a table goes.
KeptResolutions == resolved

\* remove forgets all that was resolved, in any table.
NoResolutions == [n \in {} |-> 0]

\* Mutant: every append forgets what was resolved.
AlwaysForgets(t) == NoResolutions

\* Only removing the table of that name forgets.
AfterAppend(t) == IF t \in Held THEN NoResolutions ELSE resolved

\* append removes a table of the same name first; a new name forgets nothing.
AppendTable(t, body) ==
    /\ serial < MaxAppends
    /\ serial' = serial + 1
    /\ dict' = [u \in Held \cup {t} |->
                   IF u = t THEN [body |-> body, serial |-> serial + 1] ELSE dict[u]]
    /\ resolved' = AfterAppend(t)
    /\ symbols' = [symbols EXCEPT ![t] = "none"]
    /\ cleared' = cleared \cup ({t} \cap subresolved)
    /\ UNCHANGED subresolved

RemoveTable(t) ==
    /\ t \in Held
    /\ dict' = [u \in Held \ {t} |-> dict[u]]
    /\ resolved' = NoResolutions
    /\ symbols' = [symbols EXCEPT ![t] = "none"]
    /\ cleared' = cleared \cup ({t} \cap subresolved)
    /\ UNCHANGED <<subresolved, serial>>

ClearSymbolCache(t) ==
    /\ t \in Held
    /\ symbols' = [symbols EXCEPT ![t] = "none"]
    /\ cleared' = cleared \cup ({t} \cap subresolved)
    /\ UNCHANGED <<dict, resolved, subresolved, serial>>
-----------------------------------------------------------------------------
(* Resolution.                                                              *)

\* _weak_resolve finds the name in its table.
Found(n) == n[1] \in Held /\ n[2] \in DOMAIN dict[n[1]].body.types

Children(n) == dict[n[1]].body.types[n[2]]

\* Mutant: the children of what is found are not looked at.
OnlyItself(n, reached) == TRUE

\* Every name that what is found refers to is resolved already, or reached.
Traversed(n, reached) ==
    \A m \in reached : Found(m) => Children(m) \subseteq DOMAIN resolved \cup reached

\* What _iterative_resolve visits from n, a name not resolved yet: the
\* smallest set it can stop at.
IsVisit(n, reached) ==
    /\ n \in reached
    /\ reached \cap DOMAIN resolved = {}
    /\ Traversed(n, reached)
    /\ \A less \in SUBSET reached :
          n \in less /\ Traversed(n, less) => less = reached

\* The caches that get_type(n) can leave: it raises at once, and keeps
\* nothing, when n itself is not found.
AfterGetType(n) ==
    IF n \in DOMAIN resolved \/ ~ Found(n) THEN {resolved}
    ELSE {[m \in DOMAIN resolved \cup reached |->
              IF m \in DOMAIN resolved THEN resolved[m]
              ELSE IF Found(m) THEN dict[m[1]].serial ELSE 0] :
              reached \in {r \in SUBSET Name : IsVisit(n, r)}}

\* get_type returns a type, and does not raise, with this cache.
Answers(n, cache) == n \in DOMAIN cache /\ cache[n] # 0

GetType(n) ==
    /\ resolved' \in AfterGetType(n)
    /\ UNCHANGED <<dict, symbols, subresolved, serial, cleared>>

\* Mutant: a type is taken to be without references when its name is resolved.
UntouchedIfKnown(t) ==
    t \in subresolved \/ dict[t].body.bare \/ dict[t].body.symbol \in DOMAIN resolved

\* _subresolve is not called for a name that is recorded, and does nothing for a
\* bare reference, which has no children.
Untouched(t) == t \in subresolved \/ dict[t].body.bare

\* Mutant: the symbol is recorded before its type is resolved.
RecordsFirst(t, after) == TRUE

\* _subresolve raises before the assignment to _resolved_symbols.
Records(t, after) == Answers(dict[t].body.symbol, after)

\* get_symbol: the table makes the symbol if it has none cached; its type is
\* resolved only if this name was never recorded before.
GetSymbol(t) ==
    /\ t \in Held
    /\ IF Untouched(t)
       THEN /\ symbols' = [symbols EXCEPT ![t] = IF @ = "none" THEN "raw" ELSE @]
            /\ subresolved' = subresolved \cup {t}
            /\ UNCHANGED resolved
       ELSE /\ resolved' \in AfterGetType(dict[t].body.symbol)
            /\ symbols' = [symbols EXCEPT ![t] =
                              IF Answers(dict[t].body.symbol, resolved')
                              THEN "full" ELSE "raw"]
            /\ subresolved' =
                 IF Records(t, resolved') THEN subresolved \cup {t} ELSE subresolved
    /\ UNCHANGED <<dict, serial, cleared>>

SpaceNext ==
    \/ \E t \in Tables : RemoveTable(t) \/ ClearSymbolCache(t) \/ GetSymbol(t)
    \/ \E t \in Tables, body \in Bodies : AppendTable(t, body)
    \/ \E n \in Name : GetType(n)

SpaceSpec == SpaceInit /\ [][SpaceNext]_spaceVars
-----------------------------------------------------------------------------
(* A type in the cache was resolved in the table that has its name now: a   *)
(* table that replaced another answers with its own types                   *)
(* (symbols/__init__.py:113-125).                                           *)
ResolvedIsCurrent ==
    \A n \in DOMAIN resolved :
        resolved[n] # 0 => n[1] \in Held /\ resolved[n] = dict[n[1]].serial

(* All that a cached type refers to is cached with it, as a type or as a    *)
(* placeholder: no reference is left to be resolved later                   *)
(* (symbols/__init__.py:207-244).                                           *)
ClosedUnderChildren ==
    \A n \in DOMAIN resolved :
        resolved[n] # 0 => Children(n) \subseteq DOMAIN resolved

(* An answer stays until a table is removed or replaced.  So does a failure *)
(* of a name that another type referred to: appending the table that has it *)
(* does not help (symbols/__init__.py:228-240).                             *)
AnswersStay ==
    [][ \/ \A n \in DOMAIN resolved : n \in DOMAIN resolved' /\ resolved'[n] = resolved[n]
        \/ \E t \in Held : t \notin DOMAIN dict' \/ dict'[t] # dict[t] ]_spaceVars

(* A symbol whose type is not resolved is one whose resolution failed, and  *)
(* will be tried again, one that its table made anew after it was replaced  *)
(* or cleared, or one whose type is a bare reference.  That is recorded and *)
(* stays as it is, whether there is such a structure or not; no other       *)
(* symbol counts as resolved before its type was                            *)
(* (symbols/__init__.py:56-65, 266-291; intermed.py:503-514;                *)
(* objects/templates.py:108-110).                                           *)
RawSymbolIsRetried ==
    \A t \in Held :
        /\ symbols[t] = "raw" =>
             t \notin subresolved \/ t \in cleared \/ dict[t].body.bare
        /\ symbols[t] = "full" => t \in subresolved /\ ~ dict[t].body.bare

(* What the caches of the space say is true of the tables there are now, and *)
(* complete; a symbol left without its type is tried again, but for a bare   *)
(* reference and what was made anew (symbols/__init__.py:56-291).            *)
ResolutionIsSound == ResolvedIsCurrent /\ ClosedUnderChildren /\ RawSymbolIsRetried
=============================================================================
