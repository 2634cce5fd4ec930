--------------------------- MODULE ShellVariables ---------------------------
(***************************************************************************)
(* What the variables of a shell promise: each has a value or none, and is *)
(* exported or not.  Assigning to an exported one keeps it exported, and   *)
(* the environment of the utilities is what is exported and has a value.   *)
(* Assignments in front of a function or of a builtin that is not special  *)
(* do not reach the variables at all.                                      *)
(***************************************************************************)
CONSTANTS Names, Values, Absent, IFS, DefaultIFS

VARIABLES
  value,         \* Of each name, Absent if it is not set.
  exported,      \* The exported names.
  environment    \* What utilities get.

vars == << value, exported, environment >>

EnvironmentOf(values, names) ==
  [n \in Names |-> IF n \in names THEN values[n] ELSE Absent]

\* All three change together.
Becomes(values, names) ==
  /\ value' = values
  /\ exported' = names
  /\ environment' = EnvironmentOf(values, names)

\* The shell starts with the variables of its environment, but for IFS.
StartsWith(values) ==
  LET given == {n \in Names : values[n] # Absent}
  IN  << [values EXCEPT ![IFS] = DefaultIFS], given >>

Init ==
  \E values \in [Names -> Values \cup {Absent}] :
    /\ value = StartsWith(values)[1]
    /\ exported = StartsWith(values)[2]
    /\ environment = EnvironmentOf(value, exported)

Assign(n, v) == Becomes([value EXCEPT ![n] = v], exported)
Export(n) == Becomes(value, exported \cup {n})
ExportValue(n, v) == Becomes([value EXCEPT ![n] = v], exported \cup {n})
Unset(n) == Becomes([value EXCEPT ![n] = Absent], exported \ {n})

\* A script that the shell becomes gets the environment, with the assignments
\* of the command that names it.
Script ==
  \E values \in [Names -> Values \cup {Absent}] :
    /\ \A n \in Names : environment[n] = Absent \/ values[n] # Absent
    /\ Becomes(StartsWith(values)[1], StartsWith(values)[2])

Next ==
  \/ \E n \in Names : Export(n) \/ Unset(n)
  \/ \E n \in Names, v \in Values : Assign(n, v) \/ ExportValue(n, v)
  \/ Script

Spec == Init /\ [][Next]_vars

=============================================================================
