----------------------------- MODULE Variables -----------------------------
(***************************************************************************)
(* Shell variables (variables.c).  A variable is an entry of the table; an *)
(* exported one has no value there (a NULL pointer in C), but in the       *)
(* environment of the process if it has one at all.  The assignments in    *)
(* front of a function or of a builtin that is not special are pushed      *)
(* above the table instead.  The operators take a store and return what it *)
(* becomes.  The order of the table, which only printing shows, and the    *)
(* special parameters are left out.                                        *)
(***************************************************************************)
EXTENDS Integers, Sequences

CONSTANTS
  Names,        \* The names of variables.
  Values,       \* What they are assigned.
  IFS,          \* The one that the shell sets when it starts, and to what.
  DefaultIFS,
  Absent,       \* No entry, or no value: in C a NULL pointer that is passed.
  Null          \* The entry of an exported variable.

ASSUME VariablesAssumption ==
  /\ IFS \in Names
  /\ DefaultIFS \in Values
  /\ Absent \notin Values
  /\ Null \notin Values \cup {Absent}

Stores ==
  [table : [Names -> Values \cup {Null, Absent}],
   environ : [Names -> Values \cup {Absent}],
   pushed : Seq([name : Names, value : Values])]

Setenv(s, n, v) == [s EXCEPT !.environ[n] = v]

\* Deviation: a NULL pointer is put into the environment.
ExportUnchecked(s, n, u) == [Setenv(s, n, u) EXCEPT !.table[n] = Null]

\* The entry is given up; a value goes into the environment.
Export(s, n, u) ==
  [(IF u \in Values THEN Setenv(s, n, u) ELSE s) EXCEPT !.table[n] = Null]

\* setVariable; v is Absent if there is no value, of "export x".
SetVariable(s, n, v, export) ==
  IF export \/ s.table[n] = Null
  THEN Export(s, n, IF v = Absent THEN s.table[n] ELSE v)
  ELSE [s EXCEPT !.table[n] = v]

\* Deviation: the value stays in the environment.
UnsetEntry(s, n) == [s EXCEPT !.table[n] = Absent]

UnsetVariable(s, n) ==
  [s EXCEPT !.table[n] = Absent,
            !.environ[n] = IF s.table[n] = Null THEN Absent ELSE @]

PushVariable(s, n, v) ==
  [s EXCEPT !.pushed = Append(@, [name |-> n, value |-> v])]

\* Deviation: they stay.
KeepPushed(s) == s

\* All that are pushed are dropped.
PopVariables(s) == [s EXCEPT !.pushed = <<>>]

\* The first one that is pushed hides the others.
GetVariable(s, n) ==
  LET pushed == SelectSeq(s.pushed, LAMBDA p : p.name = n)
  IN  IF pushed # <<>> THEN Head(pushed).value
      ELSE IF s.table[n] = Null THEN s.environ[n]
      ELSE s.table[n]

\* initializeVariables: from the environment.
InitializeVariables(s) ==
  LET fresh == [n \in Names |-> IF s.environ[n] = Absent THEN Absent ELSE Null]
  IN  SetVariable(PopVariables([s EXCEPT !.table = fresh]), IFS, DefaultIFS, FALSE)

\* The stores with which the shell starts.
InitialStores ==
  {InitializeVariables([table |-> [n \in Names |-> Absent], environ |-> e,
                        pushed |-> <<>>])
     : e \in [Names -> Values \cup {Absent}]}

=============================================================================
