--------------------------- MODULE FunctionTable ---------------------------
(***************************************************************************)
(* Shell functions (execute.c, parser.c): the definitions in the syntax    *)
(* trees, the table of those in force, and the references that decide when *)
(* one is freed.  A definition belongs to the list it was parsed with, or  *)
(* to the definition in whose body it stands.  The operators take the      *)
(* definitions in memory and the table, and return what they become.       *)
(***************************************************************************)
EXTENDS Integers, FiniteSets

CONSTANTS
  Definitions,    \* The places in memory of function definitions.
  FunctionNames,
  NameOf,         \* The name of each definition.
  Lists,          \* The complete commands that a definition can be part of.
  None            \* No owner, or no function.

ASSUME FunctionsAssumption ==
  /\ IsFiniteSet(Definitions)
  /\ NameOf \in [Definitions -> FunctionNames]
  /\ None \notin Definitions \cup Lists
  /\ Lists \cap Definitions = {}

Memories ==
  [refcount : [Definitions -> Nat],
   owner : [Definitions -> Definitions \cup Lists \cup {None}],
   functions : [FunctionNames -> Definitions \cup {None}]]

\* The references that a definition loses when each of dropped loses one and
\* those of freed are freed, with what is defined in their bodies.
Lost(m, dropped, freed, d) ==
  (IF d \in dropped THEN 1 ELSE 0) + (IF m.owner[d] \in freed THEN 1 ELSE 0)

\* Those of which the last reference goes: the least set that is closed.
Freed(m, dropped) ==
  LET closed == {F \in SUBSET Definitions :
                   \A d \in Definitions :
                     m.refcount[d] \in 1..Lost(m, dropped, F, d) => d \in F}
  IN  {d \in Definitions : \A F \in closed : d \in F}

\* freeFunction, for each definition of a set.
Drop(m, dropped) ==
  LET freed == Freed(m, dropped)
  IN  [m EXCEPT
         !.refcount = [d \in Definitions |-> @[d] - Lost(m, dropped, freed, d)],
         !.owner = [d \in Definitions |->
                      IF d \in freed \/ @[d] \in freed THEN None ELSE @[d]]]

\* freeCompleteCommand: the lists are freed, and what they define.
FreeLists(m, lists) ==
  LET defined == {d \in Definitions : m.owner[d] \in lists}
      n == Drop(m, defined)
  IN  [n EXCEPT !.owner = [d \in Definitions |->
                             IF d \in defined THEN None ELSE @[d]]]

\* parseFunctionDefinition, for all the definitions of a list.
Parsed(m, ownerOf) ==
  [m EXCEPT !.refcount = [d \in Definitions |->
                            IF d \in DOMAIN ownerOf THEN 1 ELSE @[d]],
            !.owner = [d \in Definitions |->
                         IF d \in DOMAIN ownerOf THEN ownerOf[d] ELSE @[d]]]

\* Deviation: a call does not count.
DoNotRefer(m, d) == m

Refer(m, d) == [m EXCEPT !.refcount[d] = @ + 1]

AddFunction(m, d) ==
  LET name == NameOf[d]
      old == m.functions[name]
      referred == [Refer(m, d) EXCEPT !.functions[name] = d]
  IN  IF old = None THEN referred ELSE Drop(referred, {old})

UnsetFunction(m, name) ==
  IF m.functions[name] = None THEN m
  ELSE [Drop(m, {m.functions[name]}) EXCEPT !.functions[name] = None]

UnsetFunctions(m) ==
  [Drop(m, {m.functions[name] : name \in FunctionNames} \ {None})
     EXCEPT !.functions = [name \in FunctionNames |-> None]]

=============================================================================
