---------------------------- MODULE Definitions ----------------------------
(***************************************************************************)
(* The commands that change variables and functions, nested in each other  *)
(* (execute.c, the builtins): a list is read and executed, its commands    *)
(* call functions whose bodies have commands, eval reads another list.     *)
(* What a list or a body has is chosen as it is executed; but it can       *)
(* define only the functions that were parsed with it.                     *)
(*                                                                         *)
(* A command is expanded before its assignments are made, which is one     *)
(* iteration of a loop each; then its body is executed, and all that is    *)
(* pushed is dropped when it ends.                                         *)
(***************************************************************************)
EXTENDS Variables, FunctionTable

CONSTANTS
  MaxDepth,         \* Bound: the lists and commands executed within each other.
  MaxAssignments    \* Bound: the assignments in front of a command.

ASSUME DefinitionsAssumption ==
  /\ Lists = 1..MaxDepth
  /\ MaxDepth \in Nat
  /\ MaxAssignments \in Nat

VARIABLES
  store,       \* The variables, see Variables.
  memory,      \* The function definitions, see FunctionTable.
  running,     \* The lists and the commands that are executed, innermost last.
  abandoned    \* For each definition, the calls that a script has cut off.

vars == << store, memory, running, abandoned >>

Assignment == [name : Names, value : Values]
Kinds == {"list", "function", "special", "regular", "utility"}
Frames ==
  [kind : Kinds,
   function : Definitions \cup {None},
   made : Nat,                 \* The assignments that it has made.
   started : BOOLEAN,          \* Is its body executed?
   done : BOOLEAN]             \* Can it only end?

Depth == Len(running)
Top == running[Depth]
Outer == SubSeq(running, 1, Depth - 1)

Frame(kind, function) ==
  [kind |-> kind, function |-> function, made |-> 0,
   started |-> kind = "list", done |-> FALSE]

\* Is the innermost one a command of that kind whose assignments are made?
Starts(kind) == Depth > 0 /\ Top.kind = kind /\ ~Top.started

Executes == Depth > 0 /\ Top.kind \in {"list", "function"} /\ Top.started

Enter(frame) == Depth < MaxDepth /\ running' = Append(running, frame)

\* What builtins do in one step.
Finished == [Top EXCEPT !.started = TRUE, !.done = TRUE]
Finish == running' = Append(Outer, Finished)

TypeOK ==
  /\ store \in Stores
  /\ memory \in Memories
  /\ running \in Seq(Frames)
  /\ abandoned \in [Definitions -> Nat]

Init ==
  /\ store \in InitialStores
  /\ memory = [refcount |-> [d \in Definitions |-> 0],
               owner |-> [d \in Definitions |-> None],
               functions |-> [name \in FunctionNames |-> None]]
  /\ running = <<>>
  /\ abandoned = [d \in Definitions |-> 0]

-----------------------------------------------------------------------------

\* parse: a list with any definitions that the memory has room for, each in
\* the list or in the body of another one.
Parse(list) ==
  LET room == {d \in Definitions : memory.refcount[d] = 0}
  IN  \E ds \in SUBSET room :
        \E ownerOf \in [ds -> ds \cup {list}] :
          /\ \A S \in SUBSET ds : S # {} => \E d \in S : ownerOf[d] \notin S
          /\ memory' = Parsed(memory, ownerOf)

\* The main loop reads a list.
ReadList ==
  /\ Depth = 0
  /\ Parse(1)
  /\ Enter(Frame("list", None))
  /\ UNCHANGED << store, abandoned >>

\* eval, and the dot builtin.
Eval ==
  /\ Starts("special")
  /\ Depth < MaxDepth
  /\ Parse(Depth + 1)
  /\ running' = Outer \o << Finished, Frame("list", None) >>
  /\ UNCHANGED << store, abandoned >>

\* freeCompleteCommand, when the list has been executed.
EndList ==
  /\ Executes /\ Top.kind = "list"
  /\ memory' = FreeLists(memory, {Depth})
  /\ running' = Outer
  /\ UNCHANGED << store, abandoned >>

\* A function definition of the list or of the body that is executed.
DefineFunction ==
  /\ Executes
  /\ \E d \in Definitions :
       /\ memory.owner[d] = IF Top.kind = "list" THEN Depth ELSE Top.function
       /\ memory' = AddFunction(memory, d)
  /\ UNCHANGED << store, running, abandoned >>

\* executeExpandedCommand: the command is looked up.
BeginCommand ==
  /\ Executes
  /\ \/ \E name \in FunctionNames :
          /\ memory.functions[name] # None
          /\ Enter(Frame("function", memory.functions[name]))
     \/ \E kind \in {"special", "regular", "utility"} : Enter(Frame(kind, None))
  /\ UNCHANGED << store, memory, abandoned >>

\* One of its assignments, which the operand of the builtin command has not. A
\* utility gets them in its own process.
Assign ==
  /\ Depth > 1 /\ ~Top.started /\ Top.made < MaxAssignments
  /\ running[Depth - 1].kind # "regular"
  /\ \E a \in Assignment :
       store' = CASE Top.kind = "special" ->
                       SetVariable(store, a.name, a.value, FALSE)
                  [] Top.kind = "utility" -> store
                  [] OTHER -> PushVariable(store, a.name, a.value)
  /\ running' = [running EXCEPT ![Depth].made = @ + 1]
  /\ UNCHANGED << memory, abandoned >>

\* executeFunction. (The arguments are those of Control.)
CallFunction ==
  /\ Starts("function")
  /\ memory' = Refer(memory, Top.function)
  /\ running' = [running EXCEPT ![Depth].started = TRUE]
  /\ UNCHANGED << store, abandoned >>

\* The return from executeFunction, and the end of its command.
EndFunction ==
  /\ Executes /\ Top.kind = "function"
  /\ memory' = Drop(memory, {Top.function})
  /\ store' = PopVariables(store)
  /\ running' = Outer
  /\ UNCHANGED abandoned

\* The builtin command, with a builtin; functions are not looked for.
CommandBuiltin ==
  /\ Starts("regular")
  /\ Depth < MaxDepth
  /\ \E kind \in {"special", "regular", "utility"} :
       running' = Outer \o << Finished, Frame(kind, None) >>
  /\ UNCHANGED << store, memory, abandoned >>

\* read.
ReadVariable ==
  /\ Starts("regular")
  /\ \E a \in Assignment : store' = SetVariable(store, a.name, a.value, FALSE)
  /\ Finish
  /\ UNCHANGED << memory, abandoned >>

ExportVariable ==
  /\ Starts("special")
  /\ \E n \in Names, v \in Values \cup {Absent} :
       store' = SetVariable(store, n, v, TRUE)
  /\ Finish
  /\ UNCHANGED << memory, abandoned >>

\* unset: one operand, with either option or both.
Unset ==
  /\ Starts("special")
  /\ \/ \E n \in Names : store' = UnsetVariable(store, n) /\ UNCHANGED memory
     \/ \E name \in FunctionNames :
          memory' = UnsetFunction(memory, name) /\ UNCHANGED store
  /\ Finish
  /\ UNCHANGED abandoned

\* The end of executeExpandedCommand, also when a redirection has failed
\* before the body was executed. (Then a function exits the shell.)
EndCommand ==
  /\ Depth > 0 /\ Top.kind \notin {"list", "function"}
  /\ store' = PopVariables(store)
  /\ running' = Outer
  /\ UNCHANGED << memory, abandoned >>

\* An assignment while a word is expanded (${x=y}) or by a for command.
AssignInPassing ==
  /\ Executes
  /\ \E a \in Assignment : store' = SetVariable(store, a.name, a.value, FALSE)
  /\ UNCHANGED << memory, running, abandoned >>

\* executeScript, in the shell's own process (exec) or in that of a utility:
\* its assignments are in the environment.
ExecuteScript ==
  /\ Depth > 0 /\ Top.kind \in {"special", "utility"} /\ ~Top.done
  /\ LET calls(d) == {i \in 1..Depth :
                        running[i].function = d /\ running[i].started}
         given == {store} \cup
                  {Setenv(store, a.name, a.value) :
                     a \in IF Top.kind = "utility" THEN Assignment ELSE {}}
     IN  /\ \E s \in given : store' = InitializeVariables(s)
         /\ memory' = UnsetFunctions(FreeLists(memory, Lists))
         /\ abandoned' = [d \in Definitions |->
                            abandoned[d] + Cardinality(calls(d))]
  /\ running' = <<>>

Next ==
  \/ ReadList \/ Eval \/ EndList \/ DefineFunction
  \/ BeginCommand \/ Assign \/ CallFunction \/ EndFunction
  \/ CommandBuiltin \/ ReadVariable \/ ExportVariable \/ Unset
  \/ EndCommand \/ AssignInPassing \/ ExecuteScript

Spec == Init /\ [][Next]_vars

-----------------------------------------------------------------------------

(* popVariables drops too much (a command of a function's body ends those of
   the call), but never too little: what is pushed belongs to commands that
   are executed and have made as many assignments. *)
Made ==
  {m \in (1..Depth) \X (1..MaxAssignments) :
     /\ running[m[1]].kind \in {"function", "regular"}
     /\ m[2] <= running[m[1]].made}

TemporariesBelongToCommands == Len(store.pushed) <= Cardinality(Made)

(* freeFunction, addFunction, executeFunction: the count of a definition is
   the number of its references, from the list or the body it was parsed with,
   from the table and from the calls that execute it; so it is freed when
   nobody can execute it any more, and not before. *)
ReferencesAreCounted ==
  \A d \in Definitions :
    LET calls == {i \in 1..Depth : running[i].function = d /\ running[i].started}
    IN  memory.refcount[d] =
          (IF memory.owner[d] # None THEN 1 ELSE 0)
            + (IF memory.functions[NameOf[d]] = d THEN 1 ELSE 0)
            + Cardinality(calls) + abandoned[d]

\* The variables that a store stands for.
Value(s) ==
  [n \in Names |-> IF s.table[n] = Null THEN s.environ[n] ELSE s.table[n]]
Exported(s) == {n \in Names : s.table[n] = Null}

Persistent ==
  INSTANCE ShellVariables WITH
    value <- Value(store),
    exported <- Exported(store),
    environment <- store.environ

(* setVariable, unsetVariable, initializeVariables: the table and the process's
   environment together are the variables of a shell, whose value is kept in
   one of them; the environment has those that are exported and no other. *)
VariablesAreKept == Persistent!Spec

=============================================================================
