---------------------------- MODULE TrapsProofs ----------------------------
(***************************************************************************)
(* Proofs about Traps, for any number of signals.                          *)
(*                                                                         *)
(* TInv, the types, is inductive; IgnoredStayIgnored and, with TableInv     *)
(* and DueInv, ActionsAreDue follow for every shell.  For shells that      *)
(* execute no scripts by executeScript, HandlersMatch is inductive, and    *)
(* NestInv gives ExitTrapIsLast; the other invariants give the other       *)
(* theorems if in addition the terminal does not fail, as in the run       *)
(* Traps: which signals are blocked where, and what is caught and owed at  *)
(* each control point.  IInv is their conjunction.                         *)
(***************************************************************************)
EXTENDS Traps, TLAPS

\* In a window nothing is blocked, so that nothing can be pending.  An action
\* executes no traps, so that blockTraps is where it was when it returns.
ActionInv ==
  level = "action" =>
    pc \in {"ready", "command", "utility"} \cup Ends /\ executingTrap
      /\ next <= LastSignal

TInv ==
  /\ TypeOK
  /\ pc \in Windows => mask = {}
  /\ ActionInv

\* Trap actions nest neither in each other nor in windows.  executingTrap is set
\* while an action or the EXIT trap runs, and in a child that one has forked;
\* executingExitTrap is set once the EXIT trap has started, there too.
NestInv ==
  /\ executingTrap /\ ~Ended =>
       /\ pc \in {"ready", "command", "utility"}
       /\ level = "list" => process # "main"
  /\ level = "exit" /\ ~Ended => executingTrap /\ executingExitTrap
  /\ executingExitTrap /\ ~Ended => executingTrap
  /\ executingExitTrap => level # "action"

\* The signals whose handler is the shell's; in children sigintHandler does
\* not count, see HandlersAreBlocked.
Handled ==
  {s \in Signals : \/ handlers[s] = "signalHandler"
                   \/ handlers[s] = "sigintHandler" /\ process = "main"}

\* In a window the caller of unblockTraps has the mask to be restored.
BlockedInv ==
  ~Ended => Handled \subseteq (IF pc \in Windows THEN savedMask ELSE mask)

\* Only a trapped signal has a handler, and only trapped conditions have
\* commands, except that those ignored from the start may have some, too.
TableInv ==
  /\ \A s \in Signals : handlers[s] = "signalHandler" => trapStates[s] = "TRAPPED"
  /\ \A c \in Conditions :
       traps[c] = "commands" => trapStates[c] \in {"TRAPPED", "ALWAYS_IGNORED"}

\* What is caught and owed in the windows, while blockTraps looks for the next
\* action, in the commands of an action and of the EXIT trap, and elsewhere.
InWindow ==
  /\ owed = caughtSignals
  /\ owed # {} => trapsPending
  /\ next = 1

InServe ==
  /\ ~trapsPending
  /\ owed = {s \in caughtSignals : next <= s}

InAction ==
  /\ ~trapsPending
  /\ owed = {s \in caughtSignals : next < s}

InExitTrap ==
  /\ ~trapsPending
  /\ \A s \in owed : next <= s

InList ==
  /\ owed = {} /\ ~trapsPending
  /\ ~executingTrap => caughtSignals = {}
  /\ next = 1

CaughtInv ==
  /\ owed \subseteq caughtSignals
  /\ ~Ended =>
       /\ pc \in Windows => InWindow
       /\ pc = "serve" => InServe
       /\ level = "action" => InAction
       /\ level = "exit" => InExitTrap
       /\ level = "list" /\ pc \notin Windows \cup {"serve"} => InList

IInv == TInv /\ NestInv /\ BlockedInv /\ TableInv /\ CaughtInv

(***************************************************************************)
(* Types.                                                                  *)
(***************************************************************************)
WhereOK == {"main", "again", "line", "command"}

LEMMA PointsAfterType ==
  ASSUME NEW where \in WhereOK
  PROVE  PointsAfter(where) \subseteq {"main", "again", "ready", "command"}
BY DEF WhereOK, PointsAfter

LEMMA HandlerOfType ==
  ASSUME NEW s \in Signals, NEW state \in States
  PROVE  HandlerOf(s, state) \in Handlers
BY DEF HandlerOf, DefaultHandler, States, Handlers

LEMMA StateOfType ==
  ASSUME NEW text \in Texts
  PROVE  StateOf(text) \in States \ {"ALWAYS_IGNORED"}
BY DEF StateOf, Texts, States

LEMMA RangeType ==
  /\ LastSignal \in Nat \ {0}
  /\ Signals \subseteq 1..LastSignal
  /\ Signals \subseteq Conditions
  /\ 0 \in Conditions
  /\ \A c \in Conditions : c # 0 => c \in Signals
BY TrapsAssumption DEF Signals, Conditions

LEMMA TypeInit == Init => TInv
<1> SUFFICES ASSUME Init PROVE TInv
  OBVIOUS
<1>1. trapStates \in [Conditions -> States]
  BY DEF Init, States
<1>2. handlers \in [Signals -> Handlers]
  BY DEF Init, Handlers, DefaultHandler
<1>3. mask \subseteq Signals
  BY TrapsAssumption DEF Init, Signals
<1>4. traps \in [Conditions -> Texts]
  BY DEF Init, Texts
<1>5. reader \in {"file", "terminal", "string", "consumed"}
      /\ interactive \in BOOLEAN
  BY DEF Init
<1>6. next \in 1..LastSignal + 1
  BY TrapsAssumption DEF Init
<1> QED
  BY <1>1, <1>2, <1>3, <1>4, <1>5, <1>6
  DEF Init, TInv, ActionInv, TypeOK, Points, Windows

\* The steps that only move the control point or the input.
LEMMA TypeInput ==
  ASSUME TInv
  PROVE  /\ BeginRead => TInv'
         /\ CheckTraps => TInv'
         /\ ReadByte => TInv'
         /\ ReadLine => TInv'
         /\ ReadEndOfFile => TInv'
         /\ Interrupted => TInv'
         /\ TerminalFailure => TInv'
         /\ ReadString => TInv'
         /\ ExecuteCommand => TInv'
         /\ ExecuteTraps => TInv'
<1> USE DEF TInv, ActionInv, Points, Ends, Windows
<1>1. ASSUME pc \in Windows, NEW where \in WhereOK, BlockTraps(where),
             UNCHANGED << table, executing, interactive, reader, running >>,
             endOfFileReached' \in BOOLEAN
      PROVE  TInv'
  <2>1. pc' \in {"serve", "main", "again", "ready", "command"}
        /\ site' \in WhereOK
    BY <1>1, PointsAfterType DEF BlockTraps, TypeOK, WhereOK
  <2>2. level # "action" /\ level' = level
    BY <1>1 DEF running
  <2>3. pending' = {} /\ mask' \subseteq Signals /\ savedMask' = {}
    BY <1>1 DEF BlockTraps, TypeOK
  <2>4. trapsPending' \in BOOLEAN
    BY <1>1 DEF BlockTraps, TypeOK
  <2>5. UNCHANGED << caughtSignals, owed, handlers, next >>
    BY <1>1 DEF BlockTraps
  <2> QED
    BY <1>1, <2>1, <2>2, <2>3, <2>4, <2>5
    DEF TypeOK, WhereOK, table, executing, running
<1>2. ASSUME NEW point \in {"check", "reading", "window"}, UnblockTraps(point),
             level # "action",
             UNCHANGED << table, executing, input, site, next, running >>
      PROVE  TInv'
  BY <1>2 DEF UnblockTraps, Catch, Remembered, TypeOK, table, executing, input,
              running
<1>3. BeginRead => TInv'
  BY <1>2 DEF BeginRead
<1>4. CheckTraps => TInv'
  <2>1. ASSUME CheckTraps, ~trapsPending PROVE TInv'
    BY <2>1 DEF CheckTraps, TypeOK, table, executing, input, running, caught,
                kernel, serving
  <2>2. ASSUME CheckTraps, trapsPending PROVE TInv'
    BY <1>1, <2>2 DEF CheckTraps, TypeOK, input, WhereOK
  <2> QED
    BY <2>1, <2>2
<1>5. ReadByte => TInv'
  <2>1. ASSUME ReadByte, reader # "terminal" PROVE TInv'
    BY <2>1 DEF ReadByte, TypeOK, table, executing, input, running, caught,
                kernel, serving
  <2>2. ASSUME ReadByte, reader = "terminal" PROVE TInv'
    BY <1>1, <2>2 DEF ReadByte, TypeOK, input, WhereOK
  <2> QED
    BY <2>1, <2>2
<1>6. ReadLine => TInv'
  BY <1>1 DEF ReadLine, TypeOK, input, WhereOK
<1>7. ReadEndOfFile => TInv'
  BY <1>1 DEF ReadEndOfFile, TypeOK, WhereOK
<1>8. Interrupted => TInv'
  BY <1>1 DEF Interrupted, TypeOK, input, WhereOK
<1>9. TerminalFailure => TInv'
  BY DEF TerminalFailure, TypeOK, table, caught, executing, input, kernel,
         serving, running
<1>10. ReadString => TInv'
  BY DEF ReadString, PointsAfter, TypeOK, table, caught, executing, input,
         kernel, serving, running
<1>11. ExecuteCommand => TInv'
  <2>1. ASSUME ExecuteCommand, executingTrap PROVE TInv'
    BY <2>1 DEF ExecuteCommand, TypeOK, table, executing, input, running,
                caught, kernel
  <2>2. ASSUME ExecuteCommand, ~executingTrap PROVE TInv'
    BY <1>2, <2>2 DEF ExecuteCommand
  <2> QED
    BY <2>1, <2>2
<1>12. ExecuteTraps => TInv'
  BY <1>1 DEF ExecuteTraps, TypeOK, input, WhereOK
<1> QED
  BY <1>3, <1>4, <1>5, <1>6, <1>7, <1>8, <1>9, <1>10, <1>11, <1>12

\* The loop of blockTraps, the ends of the lists, and signals.
LEMMA TypeServing ==
  ASSUME TInv
  PROVE  /\ StartAction => TInv'
         /\ SkipSignal => TInv'
         /\ ServeEnds => TInv'
         /\ EndOfFile => TInv'
         /\ EndOfAction => TInv'
         /\ EndOfExitTrap => TInv'
         /\ EndOfList => TInv'
         /\ Exit => TInv'
         /\ Send => TInv'
<1> USE DEF TInv, ActionInv, Points, Ends, Windows, TypeOK, table, caught, executing,
            input, kernel, serving, running
<1>1. StartAction => TInv'
  BY RangeType DEF StartAction, Served
<1>2. SkipSignal => TInv'
  BY RangeType DEF SkipSignal, Served
<1>3. ServeEnds => TInv'
  BY RangeType, PointsAfterType DEF ServeEnds, WhereOK
<1>4. EndOfFile => TInv'
  BY DEF EndOfFile, ExitShell
<1>5. EndOfAction => TInv'
  <2>1. ASSUME EndOfAction PROVE next' \in 1..LastSignal + 1
    BY <2>1, RangeType DEF EndOfAction
  <2> QED
    BY <2>1 DEF EndOfAction
<1>6. EndOfExitTrap => TInv'
  BY DEF EndOfExitTrap
<1>7. EndOfList => TInv'
  BY DEF EndOfList, ExitShell
<1>8. Exit => TInv'
  BY DEF Exit, ExitShell
<1>9. Send => TInv'
  <2>1. ASSUME NEW s \in Signals, Send, s \in mask,
               pending' = pending \cup {s}, UNCHANGED << caught, pc >>
        PROVE  TInv'
    BY <2>1 DEF Send
  <2>2. ASSUME NEW s \in Signals, Send, Catch({s}), UNCHANGED pending,
               pc' \in {pc, "killed", "failed", "interrupted"},
               pc' = "interrupted" => pc \in Windows
        PROVE  TInv'
    BY <2>2 DEF Send, Catch, Remembered
  <2>3. ASSUME Send
        PROVE  \E s \in Signals :
                 \/ s \in mask /\ pending' = pending \cup {s}
                      /\ UNCHANGED << caught, pc >>
                 \/ /\ Catch({s}) /\ UNCHANGED pending
                    /\ pc' \in {pc, "killed", "failed", "interrupted"}
                    /\ pc' = "interrupted" => pc \in Windows
    BY <2>3 DEF Send
  <2> QED
    BY <2>1, <2>2, <2>3
<1> QED
  BY <1>1, <1>2, <1>3, <1>4, <1>5, <1>6, <1>7, <1>8, <1>9

\* The commands, the children and the script.
LEMMA TypeCommands ==
  ASSUME TInv
  PROVE  /\ OrdinaryCommand => TInv'
         /\ Trap => TInv'
         /\ ForkSubshell => TInv'
         /\ ForkMember => TInv'
         /\ ForkUtility => TInv'
         /\ ExecBuiltin => TInv'
         /\ Execv => TInv'
         /\ ExecuteScript => TInv'
         /\ UNCHANGED vars => TInv'
<1> USE DEF TInv, ActionInv, Points, Ends, Windows, TypeOK, table, caught,
            executing, input, kernel, serving, running
<1>1. OrdinaryCommand => TInv'
  BY DEF OrdinaryCommand
<1>2. Trap => TInv'
  <2> SUFFICES ASSUME Trap PROVE TInv'
    OBVIOUS
  <2> DEFINE TheState(c, text) ==
        IF trapStates[c] = "ALWAYS_IGNORED" THEN "ALWAYS_IGNORED"
        ELSE StateOf(text)
  <2>1. PICK c \in Conditions, text \in Texts :
          /\ traps' = [traps EXCEPT ![c] = text]
          /\ trapStates' = [trapStates EXCEPT ![c] = TheState(c, text)]
          /\ IF c = 0 THEN pc' = "ready" /\ UNCHANGED kernel
             ELSE LET handler == HandlerOf(c, TheState(c, text)) IN
                  /\ handlers' = [handlers EXCEPT ![c] = handler]
                  /\ mask' = IF LeavesBlocked(handler)
                               THEN mask \cup {c} ELSE mask \ {c}
                  /\ pending' = IF LeavesBlocked(handler)
                                  THEN pending ELSE pending \ {c}
                  /\ pc' = IF handler = "SIG_DFL" /\ c \in pending
                             THEN "killed" ELSE "ready"
    BY DEF Trap
  <2>2. TheState(c, text) \in States
    BY StateOfType DEF States
  <2> HIDE DEF TheState
  <2>3. traps' \in [Conditions -> Texts] /\ trapStates' \in [Conditions -> States]
    BY <2>1, <2>2
  <2>4. ASSUME c # 0
        PROVE  /\ handlers' \in [Signals -> Handlers]
               /\ mask' \subseteq Signals
               /\ pending' \subseteq mask'
               /\ pc' \in {"ready", "killed"}
    <3>1. c \in Signals /\ HandlerOf(c, TheState(c, text)) \in Handlers
      BY <2>2, <2>4, RangeType, HandlerOfType
    <3> QED
      BY <2>1, <2>4, <3>1
  <2>5. ASSUME c = 0
        PROVE  UNCHANGED kernel /\ pc' = "ready"
    BY <2>1, <2>5
  <2>6. UNCHANGED << caught, executing, input, serving, running >> /\ pc = "command"
    BY DEF Trap
  <2>7. CASE c = 0
    BY <2>3, <2>5, <2>6, <2>7
  <2>8. CASE c # 0
    BY <2>3, <2>4, <2>6, <2>8
  <2> QED
    BY <2>7, <2>8
<1>3. ASSUME ResetTraps
      PROVE  traps' \in [Conditions -> Texts] /\ trapStates' \in [Conditions -> States]
  BY <1>3 DEF ResetTraps, Texts, States
<1>4. ASSUME NEW S, handlers' = [s \in Signals |->
                                   IF s \in S THEN "SIG_DFL" ELSE handlers[s]]
      PROVE  handlers' \in [Signals -> Handlers]
  BY <1>4 DEF Handlers
<1>5. ASSUME NEW as \in {"subshell", "substitution"}, Forked(as),
             traps' \in [Conditions -> Texts],
             trapStates' \in [Conditions -> States],
             handlers' \in [Signals -> Handlers],
             mask' \subseteq Signals, pc' \in {"ready", "utility"}
      PROVE  TInv'
  <2>1. /\ pending' = {} /\ owed' = {} /\ savedMask' = {}
        /\ level' = "list" /\ process' = as /\ site' = "command"
        /\ next' \in 1..LastSignal + 1
    BY <1>5, RangeType DEF Forked
  <2>2. UNCHANGED << caughtSignals, trapsPending, executing, input >>
    BY <1>5 DEF Forked
  <2> QED
    BY <1>5, <2>1, <2>2
<1>6. ForkSubshell => TInv'
  <2> SUFFICES ASSUME ForkSubshell PROVE TInv'
    OBVIOUS
  <2>1. PICK as \in {"subshell", "substitution"} : Forked(as)
    BY DEF ForkSubshell
  <2>2. handlers' \in [Signals -> Handlers]
    BY <1>4 DEF ForkSubshell
  <2> QED
    BY <1>3, <1>5, <2>1, <2>2 DEF ForkSubshell
<1>7. ForkMember => TInv'
  <2> SUFFICES ASSUME ForkMember PROVE TInv'
    OBVIOUS
  <2>1. handlers' \in [Signals -> Handlers]
    BY <1>4 DEF ForkMember
  <2> QED
    BY <1>3, <1>5, <2>1 DEF ForkMember
<1>8. ForkUtility => TInv'
  <2> SUFFICES ASSUME ForkUtility PROVE TInv'
    OBVIOUS
  <2>1. handlers' \in [Signals -> Handlers]
    BY <1>4 DEF ForkUtility
  <2> QED
    BY <1>5, <2>1 DEF ForkUtility
<1>9. ExecBuiltin => TInv'
  BY DEF ExecBuiltin
<1>10. Execv => TInv'
  BY DEF Execv
<1>11. ExecuteScript => TInv'
  BY DEF ExecuteScript, InitializedStates, States
<1>12. UNCHANGED vars => TInv'
  BY DEF vars
<1> QED
  BY <1>1, <1>2, <1>6, <1>7, <1>8, <1>9, <1>10, <1>11, <1>12

LEMMA TypeStep == TInv /\ [Next]_vars => TInv'
BY TypeInput, TypeServing, TypeCommands
DEF Next, Shell, Input, Serving, Lists, Commands, Terminated

\* The tables and the control state of the shell are well typed, whatever the
\* terminal, the scripts and the actions do: blockTraps stays within its array
\* of actions, also when an action has been executed for the last signal.
THEOREM TrapsTypeCorrect == Spec => []TypeOK
<1>1. Init => TInv
  BY TypeInit
<1>2. TInv /\ [Next]_vars => TInv'
  BY TypeStep
<1>3. TInv => TypeOK
  BY DEF TInv
<1> QED
  BY <1>1, <1>2, <1>3, PTL DEF Spec

(***************************************************************************)
(* Signals that were ignored at the start.                                 *)
(***************************************************************************)
\* Neither trap nor a child nor a script changes what is done with a signal
\* that was ignored when the shell was started, whatever else happens.
THEOREM TrapsIgnoredStayIgnored == Spec => IgnoredStayIgnored
<1> DEFINE Kept(s) ==
      trapStates[s] = "ALWAYS_IGNORED" =>
        /\ trapStates'[s] = "ALWAYS_IGNORED"
        /\ handlers[s] = "SIG_IGN" => handlers'[s] = "SIG_IGN"
<1>1. ASSUME TInv, Next, NEW s \in Signals PROVE Kept(s)
  <2>1. ASSUME UNCHANGED << trapStates, handlers >> PROVE Kept(s)
    BY <2>1
  <2>2. ASSUME Trap PROVE Kept(s)
    BY <1>1, <2>2, RangeType
    DEF Trap, TInv, TypeOK, HandlerOf, kernel
  <2>3. ASSUME ResetTraps, trapStates[s] = "ALWAYS_IGNORED"
        PROVE  trapStates'[s] = "ALWAYS_IGNORED"
    BY <1>1, <2>3, RangeType DEF ResetTraps, Trapped
  <2>4. ASSUME ForkSubshell PROVE Kept(s)
    BY <1>1, <2>3, <2>4 DEF ForkSubshell, Trapped
  <2>5. ASSUME ForkMember PROVE Kept(s)
    BY <1>1, <2>3, <2>5 DEF ForkMember, Unignored
  <2>6. ASSUME ForkUtility PROVE Kept(s)
    BY <1>1, <2>6 DEF ForkUtility, Unignored, table
  <2>7. ASSUME ExecuteScript PROVE Kept(s)
    BY <1>1, <2>7, RangeType DEF ExecuteScript, InitializedStates, kernel
  <2>8. ASSUME Input PROVE UNCHANGED << trapStates, handlers >>
    BY <2>8 DEF Input, BeginRead, CheckTraps, ReadByte, ReadLine,
      ReadEndOfFile, Interrupted, TerminalFailure, ReadString, UnblockTraps,
      BlockTraps, table, kernel
  <2>9. ASSUME Serving \/ Lists \/ Send \/ Terminated
        PROVE  UNCHANGED << trapStates, handlers >>
    BY <2>9 DEF Serving, StartAction, SkipSignal, ServeEnds, Lists, EndOfFile,
      EndOfAction, EndOfExitTrap, EndOfList, Send, Terminated, vars, table,
      kernel
  <2>10. ASSUME \/ ExecuteCommand \/ ExecuteTraps \/ OrdinaryCommand \/ Exit
                \/ ExecBuiltin \/ Execv
         PROVE  UNCHANGED << trapStates, handlers >>
    BY <2>10 DEF ExecuteCommand, UnblockTraps, ExecuteTraps, BlockTraps,
      OrdinaryCommand, Exit, ExecBuiltin, Execv, table, kernel
  <2> QED
    BY <1>1, <2>1, <2>2, <2>4, <2>5, <2>6, <2>7, <2>8, <2>9, <2>10
    DEF Next, Shell, Commands
<1>2. TInv /\ [Next]_vars => [\A s \in Signals : Kept(s)]_vars
  BY <1>1
<1>3. Init => TInv
  BY TypeInit
<1>4. TInv /\ [Next]_vars => TInv'
  BY TypeStep
<1> QED
  BY <1>2, <1>3, <1>4, PTL DEF Spec, IgnoredStayIgnored

(***************************************************************************)
(* Nesting.                                                                *)
(***************************************************************************)
LEMMA NestInit == Init => NestInv
BY DEF Init, NestInv

LEMMA NestStep ==
  ASSUME ~Scripts, TInv, NestInv, [Next]_vars
  PROVE  NestInv'
<1> USE DEF NestInv, TInv, ActionInv, Ended, Ends, Windows, caught, executing,
            input, serving, running
<1>1. ASSUME NEW where \in WhereOK, pc \in Windows, BlockTraps(where),
             UNCHANGED << executing, running >>
      PROVE  NestInv'
  <2>1. ~executingTrap
    BY <1>1
  <2>2. level # "exit" /\ level # "action"
    BY <1>1
  <2> QED
    BY <1>1, <2>1, <2>2
<1>2. ASSUME NEW point, UnblockTraps(point), ~executingTrap, ~Ended,
             UNCHANGED << executing, running >>
      PROVE  NestInv'
  BY <1>2
<1>3. ASSUME ExitShell, ~Ended, UNCHANGED process
      PROVE  NestInv'
  BY <1>3 DEF ExitShell
<1>4. ASSUME Input PROVE NestInv'
  <2>1. CASE BeginRead
    BY <1>2, <2>1 DEF BeginRead
  <2>2. CASE CheckTraps
    <3>1. CASE trapsPending
      BY <1>1, <2>2, <3>1 DEF CheckTraps, WhereOK
    <3>2. CASE ~trapsPending
      BY <2>2, <3>2 DEF CheckTraps
    <3> QED
      BY <3>1, <3>2
  <2>3. CASE ReadByte
    <3>1. CASE reader = "terminal"
      BY <1>1, <2>3, <3>1 DEF ReadByte, WhereOK
    <3>2. CASE reader # "terminal"
      BY <2>3, <3>2 DEF ReadByte
    <3> QED
      BY <3>1, <3>2
  <2>4. CASE ReadLine
    BY <1>1, <2>4 DEF ReadLine, WhereOK
  <2>5. CASE ReadEndOfFile
    BY <1>1, <2>5 DEF ReadEndOfFile, WhereOK
  <2>6. CASE Interrupted
    BY <1>1, <2>6 DEF Interrupted, WhereOK
  <2>7. CASE TerminalFailure
    BY <2>7 DEF TerminalFailure
  <2>8. CASE ReadString
    BY <2>8 DEF ReadString
  <2> QED
    BY <1>4, <2>1, <2>2, <2>3, <2>4, <2>5, <2>6, <2>7, <2>8 DEF Input
<1>5. ASSUME Serving PROVE NestInv'
  <2>1. CASE StartAction
    BY <2>1 DEF StartAction
  <2>2. CASE SkipSignal
    BY <2>2 DEF SkipSignal
  <2>3. CASE ServeEnds
    BY <2>3 DEF ServeEnds
  <2> QED
    BY <1>5, <2>1, <2>2, <2>3 DEF Serving
<1>6. ASSUME Lists PROVE NestInv'
  <2>1. CASE EndOfFile
    BY <1>3, <2>1 DEF EndOfFile
  <2>2. CASE EndOfAction
    BY <2>2 DEF EndOfAction
  <2>3. CASE EndOfExitTrap
    BY <2>3 DEF EndOfExitTrap
  <2>4. CASE EndOfList
    BY <1>3, <2>4 DEF EndOfList
  <2> QED
    BY <1>6, <2>1, <2>2, <2>3, <2>4 DEF Lists
<1>7. ASSUME Commands PROVE NestInv'
  <2>1. CASE ExecuteCommand
    <3>1. CASE executingTrap
      BY <2>1, <3>1 DEF ExecuteCommand
    <3>2. CASE ~executingTrap
      BY <1>2, <2>1, <3>2 DEF ExecuteCommand
    <3> QED
      BY <3>1, <3>2
  <2>2. CASE ExecuteTraps
    BY <1>1, <2>2 DEF ExecuteTraps, WhereOK
  <2>3. CASE Exit
    BY <1>3, <2>3 DEF Exit
  <2>4. ASSUME pc = "command", pc' \in {"ready", "utility", "killed"},
               UNCHANGED << executing, running >>
        PROVE  NestInv'
    BY <2>4
  <2>5. CASE OrdinaryCommand \/ ExecBuiltin
    BY <2>4, <2>5 DEF OrdinaryCommand, ExecBuiltin
  <2>6. CASE Trap
    <3>1. pc' \in {"ready", "killed"}
      BY <2>6 DEF Trap
    <3> QED
      BY <2>4, <2>6, <3>1 DEF Trap
  <2>7. ASSUME NEW as \in {"subshell", "substitution"}, pc = "command",
               Forked(as), pc' \in {"ready", "utility"}
        PROVE  NestInv'
    BY <2>7 DEF Forked
  <2>8. CASE ForkSubshell \/ ForkMember \/ ForkUtility
    BY <2>7, <2>8 DEF ForkSubshell, ForkMember, ForkUtility
  <2>9. CASE Execv
    BY <2>9 DEF Execv
  <2>10. CASE ExecuteScript
    BY <2>10 DEF ExecuteScript
  <2> QED
    BY <1>7, <2>1, <2>2, <2>3, <2>5, <2>6, <2>8, <2>9, <2>10 DEF Commands
<1>8. ASSUME Send PROVE NestInv'
  <2>1. pc' \in {pc, "killed", "failed", "interrupted"}
        /\ (pc' = "interrupted" => pc \in Windows)
    BY <1>8 DEF Send
  <2> QED
    BY <1>8, <2>1 DEF Send
<1>9. ASSUME UNCHANGED vars PROVE NestInv'
  BY <1>9 DEF vars
<1> QED
  BY <1>4, <1>5, <1>6, <1>7, <1>8, <1>9 DEF Next, Shell, Terminated

LEMMA OnlyStartAction ==
  ASSUME Next, level # "action", level' = "action"
  PROVE  StartAction
<1> USE DEF running
<1>1. ~Input
  BY DEF Input, BeginRead, CheckTraps, ReadByte, ReadLine, ReadEndOfFile,
    Interrupted, TerminalFailure, ReadString
<1>2. ~Lists
  BY DEF Lists, EndOfFile, EndOfAction, EndOfExitTrap, EndOfList, ExitShell
<1>3. ~Commands
  BY DEF Commands, ExecuteCommand, ExecuteTraps, OrdinaryCommand, Exit, Trap,
    ForkSubshell, ForkMember, ForkUtility, Forked, ExecBuiltin, Execv,
    ExecuteScript, ExitShell
<1>4. ~Send /\ ~Terminated /\ ~SkipSignal /\ ~ServeEnds
  BY DEF Send, Terminated, vars, SkipSignal, ServeEnds
<1> QED
  BY <1>1, <1>2, <1>3, <1>4 DEF Next, Shell, Serving

\* Once the EXIT trap runs no other action is started, in no child either.
THEOREM TrapsExitTrapIsLast ==
  ASSUME ~Scripts
  PROVE  Spec => ExitTrapIsLast
<1>1. Init => TInv /\ NestInv
  BY TypeInit, NestInit
<1>2. TInv /\ NestInv /\ [Next]_vars => (TInv /\ NestInv)'
  BY TypeStep, NestStep
<1>3. TInv /\ NestInv /\ [Next]_vars => [executingExitTrap => level' # "action"]_vars
  <2>1. ASSUME TInv, NestInv, Next, executingExitTrap, level' = "action"
        PROVE  FALSE
    <3>1. level # "action"
      BY <2>1 DEF NestInv
    <3>2. StartAction
      BY <2>1, <3>1, OnlyStartAction
    <3> QED
      BY <2>1, <3>2 DEF NestInv, StartAction, Ended, Ends
  <2> QED
    BY <2>1
<1> QED
  BY <1>1, <1>2, <1>3, PTL DEF Spec, ExitTrapIsLast

(***************************************************************************)
(* Handlers.                                                               *)
(***************************************************************************)
\* The steps that leave both the handlers and the table alone.
Quiet == Input \/ Serving \/ Lists \/ ExecuteCommand \/ ExecuteTraps
           \/ OrdinaryCommand \/ Exit \/ ExecBuiltin \/ Execv \/ Send

LEMMA QuietSteps ==
  ASSUME Quiet
  PROVE  UNCHANGED << trapStates, traps, handlers, process >>
<1> USE DEF table, kernel, running
<1>1. Input => UNCHANGED << trapStates, traps, handlers, process >>
  BY DEF Input, BeginRead, CheckTraps, ReadByte, ReadLine, ReadEndOfFile,
    Interrupted, TerminalFailure, ReadString, UnblockTraps, BlockTraps
<1>2. Serving => UNCHANGED << trapStates, traps, handlers, process >>
  BY DEF Serving, StartAction, SkipSignal, ServeEnds
<1>3. Lists => UNCHANGED << trapStates, traps, handlers, process >>
  BY DEF Lists, EndOfFile, EndOfAction, EndOfExitTrap, EndOfList
<1>4. Quiet => Input \/ Serving \/ Lists
                 \/ UNCHANGED << trapStates, traps, handlers, process >>
  BY DEF Quiet, ExecuteCommand, UnblockTraps, ExecuteTraps, BlockTraps,
    OrdinaryCommand, Exit, ExecBuiltin, Execv, Send
<1> QED
  BY <1>1, <1>2, <1>3, <1>4

LEMMA NextCases ==
  ASSUME [Next]_vars
  PROVE  Quiet \/ Trap \/ ForkSubshell \/ ForkMember \/ ForkUtility
           \/ ExecuteScript \/ UNCHANGED vars
BY DEF Next, Shell, Commands, Quiet, Terminated

\* What trap does for a signal.
LEMMA TrapStep ==
  ASSUME TInv, Trap
  PROVE  \E c \in Conditions, state \in States, text \in Texts :
           /\ state = "ALWAYS_IGNORED" <=> trapStates[c] = "ALWAYS_IGNORED"
           /\ text = "commands" => state \in {"TRAPPED", "ALWAYS_IGNORED"}
           /\ traps' = [traps EXCEPT ![c] = text]
           /\ trapStates' = [trapStates EXCEPT ![c] = state]
           /\ c = 0 => UNCHANGED << handlers, mask >>
           /\ c # 0 =>
                \E handler \in Handlers :
                  /\ handler = "signalHandler" => state = "TRAPPED"
                  /\ handlers' = [handlers EXCEPT ![c] = handler]
                  /\ mask' = IF handler \in {"signalHandler", "sigintHandler"}
                              THEN mask \cup {c} ELSE mask \ {c}
<1> DEFINE TheState(c, text) ==
      IF trapStates[c] = "ALWAYS_IGNORED" THEN "ALWAYS_IGNORED"
      ELSE StateOf(text)
<1>1. PICK c \in Conditions, text \in Texts :
        /\ traps' = [traps EXCEPT ![c] = text]
        /\ trapStates' = [trapStates EXCEPT ![c] = TheState(c, text)]
        /\ c = 0 => UNCHANGED kernel
        /\ c # 0 =>
             LET handler == HandlerOf(c, TheState(c, text)) IN
             /\ handlers' = [handlers EXCEPT ![c] = handler]
             /\ mask' = IF LeavesBlocked(handler)
                         THEN mask \cup {c} ELSE mask \ {c}
  BY DEF Trap
<1>2. TheState(c, text) \in States
  BY StateOfType DEF States
<1>3. TheState(c, text) = "ALWAYS_IGNORED" <=> trapStates[c] = "ALWAYS_IGNORED"
  BY StateOfType
<1>4. text = "commands" => TheState(c, text) \in {"TRAPPED", "ALWAYS_IGNORED"}
  BY DEF StateOf, Texts
<1> DEFINE state == TheState(c, text)
           handler == HandlerOf(c, state)
<1> HIDE DEF TheState
<1>5. ASSUME c # 0
      PROVE  /\ handler \in Handlers
             /\ handler = "signalHandler" => state = "TRAPPED"
             /\ LeavesBlocked(handler) <=>
                  handler \in {"signalHandler", "sigintHandler"}
  <2>1. c \in Signals /\ handler \in Handlers
    BY <1>2, <1>5, RangeType, HandlerOfType
  <2>2. handler = "signalHandler" => state = "TRAPPED"
    BY <1>2, <2>1 DEF HandlerOf, DefaultHandler, States
  <2> QED
    BY <2>1, <2>2 DEF LeavesBlocked, Handlers
<1>6. c = 0 => UNCHANGED << handlers, mask >>
  BY <1>1 DEF kernel
<1>7. c # 0 =>
        /\ handlers' = [handlers EXCEPT ![c] = handler]
        /\ mask' = IF handler \in {"signalHandler", "sigintHandler"}
                    THEN mask \cup {c} ELSE mask \ {c}
  BY <1>1, <1>5
<1> HIDE DEF handler
<1> QED
  BY <1>1, <1>2, <1>3, <1>4, <1>5, <1>6, <1>7

\* Which signals and conditions can become trapped in a child: none.
LEMMA ForkStep ==
  ASSUME TInv, TableInv, ForkSubshell \/ ForkMember \/ ForkUtility
  PROVE  /\ \A s \in Signals : handlers'[s] # "signalHandler"
         /\ process' # "main"
         /\ \A c \in Conditions :
              traps'[c] = "commands" => trapStates'[c] \in {"TRAPPED", "ALWAYS_IGNORED"}
         /\ pc = "command" /\ pc' \in {"ready", "utility"}
         /\ owed' = {}
         /\ level' = "list" /\ next' = 1
         /\ UNCHANGED << caughtSignals, trapsPending, executingTrap >>
<1> USE RangeType DEF TInv, TypeOK, TableInv, Trapped, Unignored, table
<1>1. ResetTraps =>
        \A c \in Conditions :
          traps'[c] = "commands" => trapStates'[c] \in {"TRAPPED", "ALWAYS_IGNORED"}
  BY DEF ResetTraps
<1>2. \A as \in {"subshell", "substitution"} : Forked(as) =>
        /\ process' # "main" /\ owed' = {} /\ level' = "list" /\ next' = 1
        /\ UNCHANGED << caughtSignals, trapsPending, executingTrap >>
  BY DEF Forked, executing
<1>3. CASE ForkSubshell
  BY <1>1, <1>2, <1>3 DEF ForkSubshell
<1>4. CASE ForkMember
  BY <1>1, <1>2, <1>4 DEF ForkMember
<1>5. CASE ForkUtility
  BY <1>2, <1>5 DEF ForkUtility
<1> QED
  BY <1>3, <1>4, <1>5

LEMMA TableStep ==
  ASSUME TInv, TableInv, [Next]_vars
  PROVE  TableInv'
<1>1. CASE Quiet
  BY <1>1, QuietSteps DEF TableInv
<1>2. CASE Trap
  BY <1>2, TrapStep, RangeType DEF TableInv, TInv, TypeOK
<1>3. CASE ForkSubshell \/ ForkMember \/ ForkUtility
  BY <1>3, ForkStep DEF TableInv
<1>4. CASE UNCHANGED vars
  BY <1>4 DEF vars, table, kernel, TableInv
<1>5. CASE ExecuteScript
  <2>1. /\ \A c \in Conditions :
             \/ c # 0 /\ handlers[c] = "SIG_IGN" /\ trapStates'[c] = "ALWAYS_IGNORED"
             \/ trapStates'[c] = trapStates[c]
        /\ UNCHANGED << traps, handlers >>
    BY <1>5 DEF ExecuteScript, InitializedStates, kernel
  <2> QED
    BY <2>1, RangeType DEF TableInv
<1> QED
  BY <1>1, <1>2, <1>3, <1>4, <1>5, NextCases

\* The ways in which the windows are opened, used and closed.
Opens ==
  /\ pc \in {"main", "again", "ready"} /\ level = "list" /\ ~executingTrap
  /\ \E point \in {"check", "reading", "window"} : UnblockTraps(point)
  /\ UNCHANGED << next, executing, running >>

Closes ==
  /\ pc \in Windows
  /\ \E where \in WhereOK : BlockTraps(where)
  /\ UNCHANGED << executing, running >>

StaysOpen ==
  /\ pc \in Windows /\ pc' \in Windows
  /\ UNCHANGED << caught, kernel, serving, executing, running >>

StaysClosed ==
  /\ pc \notin Windows \cup {"serve"} \cup Ends
  /\ pc' \notin Windows \cup {"serve"}
  /\ UNCHANGED << caught, kernel, serving, executing, running >>

LEMMA QuietCases ==
  ASSUME ~TerminalFails, TInv, NestInv, Quiet
  PROVE  \/ Opens \/ Closes \/ StaysOpen \/ StaysClosed
         \/ Serving \/ Lists \/ Exit \/ Send
<1> USE DEF TInv, ActionInv, NestInv, Ended, Ends, Windows, Points, WhereOK
<1>1. CASE BeginRead
  <2>1. level = "list" /\ ~executingTrap
    BY <1>1 DEF BeginRead, TypeOK
  <2> QED
    BY <1>1, <2>1 DEF BeginRead, Opens
<1>2. CASE CheckTraps
  BY <1>2 DEF CheckTraps, Closes, StaysOpen
<1>3. CASE ReadByte
  BY <1>3 DEF ReadByte, Closes, StaysOpen
<1>4. CASE ReadLine \/ ReadEndOfFile \/ Interrupted \/ ExecuteTraps
  BY <1>4 DEF ReadLine, ReadEndOfFile, Interrupted, ExecuteTraps, Closes
<1>5. CASE ReadString
  BY <1>5 DEF ReadString, PointsAfter, StaysClosed
<1>6. CASE ExecuteCommand
  <2>1. CASE executingTrap
    BY <1>6, <2>1 DEF ExecuteCommand, StaysClosed, serving
  <2>2. CASE ~executingTrap
    <3>1. level = "list"
      BY <1>6, <2>2 DEF ExecuteCommand, TypeOK
    <3> QED
      BY <1>6, <2>2, <3>1 DEF ExecuteCommand, Opens
  <2> QED
    BY <2>1, <2>2
<1>7. CASE OrdinaryCommand \/ ExecBuiltin \/ Execv
  BY <1>7 DEF OrdinaryCommand, ExecBuiltin, Execv, StaysClosed
<1> QED
  BY <1>1, <1>2, <1>3, <1>4, <1>5, <1>6, <1>7
  DEF Quiet, Input, TerminalFailure

LEMMA BlockedStep ==
  ASSUME ~Scripts, ~TerminalFails, TInv, NestInv, TableInv, BlockedInv, [Next]_vars
  PROVE  BlockedInv'
<1> USE DEF BlockedInv, Ended, Ends, Windows
<1>1. CASE Quiet
  <2>1. Handled' = Handled
    BY <1>1, QuietSteps DEF Handled
  <2>2. CASE Opens
    BY <2>1, <2>2 DEF Opens, UnblockTraps
  <2>3. CASE Closes
    <3>1. pc' \notin Windows /\ mask' = savedMask
      BY <2>3 DEF Closes, BlockTraps, PointsAfter, WhereOK
    <3> QED
      BY <2>1, <2>3, <3>1 DEF Closes
  <2>4. CASE StaysOpen \/ StaysClosed
    BY <2>1, <2>4 DEF StaysOpen, StaysClosed, kernel, serving
  <2>5. CASE Serving
    BY <2>1, <2>5 DEF Serving, StartAction, SkipSignal, ServeEnds, PointsAfter,
      TInv, TypeOK, kernel
  <2>6. CASE Lists \/ Exit
    BY <2>1, <2>6 DEF Lists, EndOfFile, EndOfAction, EndOfExitTrap, EndOfList,
      Exit, ExitShell, kernel
  <2>7. CASE Send
    <3>1. /\ UNCHANGED << mask, savedMask >>
          /\ pc' \in Windows => pc \in Windows
          /\ pc \in Windows => pc' \in Windows \cup Ends
      BY <2>7 DEF Send, serving
    <3> QED
      BY <2>1, <2>7, <3>1 DEF Send
  <2> QED
    BY <1>1, <2>2, <2>3, <2>4, <2>5, <2>6, <2>7, QuietCases
<1>2. CASE Trap
  <2>1. pc = "command" /\ pc' \in {"ready", "killed"} /\ process' = process
    BY <1>2 DEF Trap, running
  <2>2. PICK c \in Conditions :
          /\ c = 0 => UNCHANGED << handlers, mask >>
          /\ c # 0 =>
               \E handler \in Handlers :
                  /\ handlers' = [handlers EXCEPT ![c] = handler]
                  /\ mask' = IF handler \in {"signalHandler", "sigintHandler"}
                              THEN mask \cup {c} ELSE mask \ {c}
    BY <1>2, TrapStep
  <2>3. CASE c = 0
    BY <2>1, <2>2, <2>3 DEF Handled
  <2>4. CASE c # 0
    <3>1. PICK handler \in Handlers :
            /\ handlers' = [handlers EXCEPT ![c] = handler]
            /\ mask' = IF handler \in {"signalHandler", "sigintHandler"}
                        THEN mask \cup {c} ELSE mask \ {c}
      BY <2>2, <2>4
    <3>2. handlers \in [Signals -> Handlers]
      BY DEF TInv, TypeOK
    <3> QED
      BY <2>1, <3>1, <3>2 DEF Handled
  <2> QED
    BY <2>3, <2>4
<1>3. CASE ForkSubshell \/ ForkMember \/ ForkUtility
  BY <1>3, ForkStep DEF Handled
<1>4. CASE UNCHANGED vars
  BY <1>4 DEF vars, kernel, serving, running, Handled
<1> QED
  BY <1>1, <1>2, <1>3, <1>4, NextCases DEF ExecuteScript

(***************************************************************************)
(* What is caught and owed.                                                *)
(***************************************************************************)
LEMMA CaughtStep ==
  ASSUME ~Scripts, ~TerminalFails, IInv, [Next]_vars
  PROVE  CaughtInv'
<1> USE DEF IInv, CaughtInv, Ended, Ends, Windows
<1>1. CASE Opens
  <2>1. InList
    BY <1>1 DEF Opens
  <2>2. owed' = caughtSignals' /\ (owed' # {} => trapsPending') /\ next' = 1
    BY <1>1, <2>1 DEF Opens, UnblockTraps, Catch, InList
  <2> QED
    BY <1>1, <2>2 DEF Opens, UnblockTraps, InWindow, running
<1>2. CASE Closes
  <2>1. InWindow /\ level = "list" /\ level' = "list" /\ ~executingTrap
    BY <1>2 DEF Closes, TInv, TypeOK, ActionInv, NestInv, running
  <2>2. UNCHANGED << caughtSignals, owed, next >> /\ ~trapsPending'
    BY <1>2 DEF Closes, BlockTraps
  <2>3. CASE trapsPending
    <3>1. pc' = "serve"
      BY <1>2, <2>3 DEF Closes, BlockTraps
    <3>2. InServe'
      <4>1. \A s \in caughtSignals : 1 <= s
        BY DEF TInv, TypeOK, Signals
      <4> QED
        BY <2>1, <2>2, <4>1 DEF InServe, InWindow
    <3> QED
      BY <2>1, <2>2, <3>1, <3>2 DEF InWindow
  <2>4. CASE ~trapsPending
    <3>1. pc' \notin Windows \cup {"serve"}
      BY <1>2, <2>4 DEF Closes, BlockTraps, PointsAfter, WhereOK
    <3>2. InList'
      BY <1>2, <2>1, <2>2, <2>4 DEF InList, InWindow
    <3> QED
      BY <2>1, <2>2, <3>1, <3>2 DEF InWindow
  <2> QED
    BY <2>3, <2>4
<1>3. CASE StaysOpen
  <2>1. UNCHANGED << caughtSignals, trapsPending, owed, next, level >>
    BY <1>3 DEF StaysOpen, caught, serving, running
  <2>2. InWindow /\ level = "list"
    BY <1>3 DEF StaysOpen, TInv, TypeOK, ActionInv, NestInv
  <2> QED
    BY <1>3, <2>1, <2>2 DEF StaysOpen, InWindow
<1>4. ASSUME pc \notin Windows \cup {"serve"} \cup Ends,
             pc' \notin Windows \cup {"serve"},
             UNCHANGED << caughtSignals, trapsPending, owed, next, level,
                          executingTrap >>
      PROVE  CaughtInv'
  BY <1>4 DEF InAction, InExitTrap, InList
<1>5. CASE StaysClosed
  BY <1>4, <1>5 DEF StaysClosed, caught, serving, executing, running
<1>6. CASE Trap
  BY <1>4, <1>6 DEF Trap, caught, serving, executing, running
<1>7. CASE Send
  <2>1. UNCHANGED << next, level, executingTrap >> /\ ~Ended
    BY <1>7 DEF Send, serving, executing, running
  <2>2. CASE pc \in Windows
    <3>1. pc' \in Windows \cup Ends /\ level = "list"
      BY <1>7, <2>2 DEF Send, TInv, TypeOK, ActionInv, NestInv
    <3>2. PICK S \in SUBSET Signals :
            /\ caughtSignals' = caughtSignals \cup S
            /\ owed' = owed \cup S
            /\ trapsPending' = (trapsPending \/ S # {})
      <4>1. \/ UNCHANGED caught
            \/ \E s \in Signals : Catch({s})
        BY <1>7 DEF Send
      <4>2. CASE UNCHANGED caught
        <5>1. /\ caughtSignals' = caughtSignals \cup {}
              /\ owed' = owed \cup {}
              /\ trapsPending' = (trapsPending \/ {} # {})
          BY <4>2 DEF caught, TInv, TypeOK
        <5> QED
          BY <5>1
      <4>3. ASSUME NEW s \in Signals, Catch({s})
            PROVE  \E S \in SUBSET Signals :
                     /\ caughtSignals' = caughtSignals \cup S
                     /\ owed' = owed \cup S
                     /\ trapsPending' = (trapsPending \/ S # {})
        <5>1. Remembered({s}) \in SUBSET Signals
          BY DEF Remembered
        <5> WITNESS Remembered({s}) \in SUBSET Signals
        <5> QED
          BY <4>3 DEF Catch
      <4> QED
        BY <4>1, <4>2, <4>3
    <3>3. InWindow'
      BY <2>1, <2>2, <3>2 DEF InWindow
    <3> QED
      BY <2>1, <3>1, <3>2, <3>3
  <2>3. CASE pc \notin Windows
    <3>1. UNCHANGED << caughtSignals, trapsPending, owed >>
      <4>1. ASSUME NEW s \in Signals, s \notin mask
            PROVE  Remembered({s}) = {}
        BY <2>1, <2>3, <4>1 DEF Remembered, BlockedInv, Handled
      <4>2. \/ UNCHANGED caught
            \/ \E s \in Signals : s \notin mask /\ Catch({s})
        BY <1>7 DEF Send
      <4>3. ASSUME NEW s \in Signals, s \notin mask, Catch({s})
            PROVE  UNCHANGED << caughtSignals, trapsPending, owed >>
        BY <4>1, <4>3 DEF Catch, TInv, TypeOK
      <4> QED
        BY <4>2, <4>3 DEF caught
    <3>2. pc' = pc \/ pc' \in Ends
      BY <1>7, <2>3 DEF Send
    <3>3. CASE pc' \in Ends
      BY <3>1, <3>3
    <3>4. CASE pc' = pc
      <4>1. CASE pc = "serve"
        <5>1. InServe /\ level = "list" /\ level' = "list"
          BY <2>1, <4>1 DEF TInv, TypeOK, ActionInv, NestInv
        <5> QED
          BY <2>1, <3>1, <3>4, <4>1, <5>1 DEF InServe
      <4>2. CASE pc # "serve"
        BY <1>4, <2>1, <2>3, <3>1, <3>4, <4>2
      <4> QED
        BY <4>1, <4>2
    <3> QED
      BY <3>2, <3>3, <3>4
  <2> QED
    BY <2>2, <2>3
<1>8. CASE StartAction
  <2>1. InServe /\ next \in owed
    BY <1>8 DEF StartAction, Due, InServe, TInv, TypeOK
  <2>2. \A s \in caughtSignals : next <= s /\ s # next <=> next < s
    BY DEF TInv, TypeOK, Signals
  <2>3. owed' = owed \ {next} /\ UNCHANGED << caughtSignals, trapsPending, next >>
    BY <1>8 DEF StartAction, serving
  <2>4. InAction'
    BY <2>1, <2>2, <2>3 DEF InServe, InAction
  <2> QED
    BY <1>8, <2>1, <2>3, <2>4 DEF StartAction
<1>9. CASE SkipSignal
  <2>1. InServe /\ level = "list"
    BY <1>9 DEF SkipSignal, TInv, TypeOK, ActionInv, NestInv
  <2>2. \A s \in caughtSignals : next <= s /\ s # next <=> next + 1 <= s
    BY DEF TInv, TypeOK, Signals
  <2>3. /\ owed' = owed \ {next} /\ next' = next + 1
        /\ UNCHANGED << caughtSignals, trapsPending >>
    BY <1>9 DEF SkipSignal
  <2>4. InServe'
    BY <2>1, <2>2, <2>3 DEF InServe
  <2> QED
    BY <1>9, <2>1, <2>3, <2>4 DEF SkipSignal, running
<1>10. CASE ServeEnds
  <2>1. InServe /\ level = "list"
    BY <1>10 DEF ServeEnds, TInv, TypeOK, ActionInv, NestInv
  <2>2. owed = {}
    BY <1>10, <2>1, RangeType DEF ServeEnds, Served, InServe, TInv, TypeOK, Signals
  <2>3. pc' \notin Windows \cup {"serve"}
    BY <1>10 DEF ServeEnds, PointsAfter, TInv, TypeOK
  <2> QED
    BY <1>10, <2>1, <2>2, <2>3 DEF ServeEnds, InServe, InList, running
<1>11. CASE EndOfFile \/ Exit \/ EndOfList
  <2>1. /\ pc \notin Windows \cup {"serve"} \cup Ends
        /\ UNCHANGED << caughtSignals, trapsPending, owed, next >>
        /\ \/ pc' \in Ends
           \/ pc' = "main" /\ UNCHANGED << level, executingTrap >>
           \/ pc' = "ready" /\ level' = "exit" /\ executingTrap'
    BY <1>11 DEF EndOfFile, Exit, EndOfList, ExitShell, caught, executing, serving
  <2>2. ~trapsPending /\ \A s \in owed : next <= s
    BY <2>1 DEF InAction, InExitTrap, InList, TInv, TypeOK, Signals
  <2> QED
    BY <1>4, <2>1, <2>2 DEF InExitTrap
<1>12. CASE EndOfAction
  <2>1. InAction
    BY <1>12 DEF EndOfAction
  <2>2. \A s \in caughtSignals : next < s <=> next + 1 <= s
    BY DEF TInv, TypeOK, Signals
  <2>3. next' = next + 1 /\ UNCHANGED << caughtSignals, trapsPending, owed >>
    BY <1>12 DEF EndOfAction, caught
  <2>4. InServe'
    BY <2>1, <2>2, <2>3 DEF InAction, InServe
  <2> QED
    BY <1>12, <2>4 DEF EndOfAction, caught
<1>13. CASE EndOfExitTrap
  BY <1>13 DEF EndOfExitTrap, caught
<1>14. CASE ForkSubshell \/ ForkMember \/ ForkUtility
  <2>1. ~trapsPending /\ (~executingTrap => caughtSignals = {})
    BY <1>14, ForkStep DEF InList, NestInv, InAction, InExitTrap, TInv, TypeOK,
      ActionInv
  <2> QED
    BY <1>14, <2>1, ForkStep DEF InList
<1>15. CASE UNCHANGED vars
  BY <1>15 DEF vars, caught, executing, serving, running, InWindow, InServe,
    InAction, InExitTrap, InList
<1> QED
  BY <1>1, <1>2, <1>3, <1>5, <1>6, <1>7, <1>8, <1>9, <1>10, <1>11, <1>12,
     <1>13, <1>14, <1>15, NextCases, QuietCases
  DEF ExecuteScript, Serving, Lists

(***************************************************************************)
(* The invariant, and what follows from it.                                *)
(***************************************************************************)
LEMMA IInvInit == Init => IInv
<1> SUFFICES ASSUME Init PROVE IInv
  OBVIOUS
<1>1. TInv /\ NestInv
  BY TypeInit, NestInit
<1>2. \A s \in Signals : handlers[s] # "signalHandler"
  BY DEF Init, DefaultHandler
<1>3. BlockedInv
  <2>1. \A s \in Signals : handlers[s] = "sigintHandler" => s \in mask
    BY DEF Init, DefaultHandler
  <2> QED
    BY <1>2, <2>1 DEF BlockedInv, Handled, Init, Windows
<1>4. TableInv
  BY <1>2 DEF TableInv, Init
<1>5. CaughtInv
  BY DEF CaughtInv, InList, Init, Windows
<1> QED
  BY <1>1, <1>3, <1>4, <1>5 DEF IInv

LEMMA IInvStep ==
  ASSUME ~TerminalFails, ~Scripts
  PROVE  IInv /\ [Next]_vars => IInv'
BY TypeStep, NestStep, TableStep, BlockedStep, CaughtStep DEF IInv

\* A signal that has a handler is blocked but in the windows: neither a command
\* nor an action of such a shell is ever interrupted by one (trap.c).
THEOREM TrapsHandlersAreBlocked ==
  ASSUME ~TerminalFails, ~Scripts
  PROVE  Spec => []HandlersAreBlocked
<1>1. IInv => HandlersAreBlocked
  BY DEF IInv, BlockedInv, Handled, HandlersAreBlocked
<1> QED
  BY <1>1, IInvInit, IInvStep, PTL DEF Spec

\* The handler's bookkeeping loses no signal, wherever it arrives between
\* unblockTraps, the loop of blockTraps and the actions that this executes.
THEOREM TrapsNothingIsLost ==
  ASSUME ~TerminalFails, ~Scripts
  PROVE  Spec => []NothingIsLost
<1>1. ASSUME IInv PROVE NothingIsLost
  <2>1. \A s \in owed : next < s => next <= s
    BY <1>1 DEF IInv, TInv, TypeOK, Signals
  <2> QED
    BY <1>1, <2>1
    DEF IInv, TInv, TypeOK, CaughtInv, InWindow, InServe, InAction, InExitTrap,
        InList, NothingIsLost
<1> QED
  BY <1>1, IInvInit, IInvStep, PTL DEF Spec

\* When a command is executed, the actions of all signals that were caught
\* before have been (executeCommand, executeTraps).
THEOREM TrapsCommandsFollowTraps ==
  ASSUME ~TerminalFails, ~Scripts
  PROVE  Spec => []CommandsFollowTraps
<1>1. ASSUME IInv PROVE CommandsFollowTraps
  BY <1>1
  DEF IInv, TInv, TypeOK, ActionInv, NestInv, CaughtInv, InList, Ended, Ends,
      Windows, CommandsFollowTraps
<1> QED
  BY <1>1, IInvInit, IInvStep, PTL DEF Spec

(***************************************************************************)
(* The actions that are started, in every shell.  Where the terminal has   *)
(* failed a signal may be caught at any time, and a child may have caught  *)
(* signals that only its parent owes; but it has no traps until it has     *)
(* served these.                                                           *)
(***************************************************************************)
\* The signals from n on that were caught are owed.
Owing(n) == \A s \in caughtSignals : n <= s => s \in owed

\* In a child that has not executed a command yet.
Untrapped == \A s \in Signals : trapStates[s] # "TRAPPED"

\* A signal that was ignored from the start is never caught.
CaughtOK == \A s \in caughtSignals : trapStates[s] # "ALWAYS_IGNORED"

\* A child does not read, and serves no traps in an action.
ChildInv ==
  process # "main" /\ ~Ended =>
    /\ site = "command"
    /\ pc \in {"window", "serve", "ready", "command", "utility"}
    /\ executingTrap => pc \in {"ready", "command", "utility"}

\* Where traps may be served again, before anything else is executed instead.
MayServe ==
  /\ level = "list" /\ pc \notin {"serve", "utility"}
  /\ process = "main" \/ ~executingTrap

Serves ==
  /\ caughtSignals # {} => trapsPending
  /\ Owing(1) \/ (Untrapped /\ process # "main" /\ pc # "command")

DueInv ==
  /\ CaughtOK /\ ChildInv
  /\ ~Ended =>
       /\ level = "action" => Owing(next + 1)
       /\ level = "exit" => executingTrap /\ pc \in {"ready", "command", "utility"}
       /\ pc = "serve" => level = "list" /\ (Owing(next) \/ Untrapped)
       /\ MayServe => Serves

\* What is caught becomes owed, and only trapped signals are.
Adds(S) ==
  /\ S \subseteq Signals
  /\ \A s \in S : trapStates[s] = "TRAPPED"
  /\ caughtSignals' = caughtSignals \cup S
  /\ owed' = owed \cup S
  /\ S # {} => trapsPending'
  /\ trapsPending => trapsPending'

LEMMA CatchAdds ==
  ASSUME TableInv, NEW signals, signals \subseteq Signals, Catch(signals)
  PROVE  \E S : Adds(S)
<1> DEFINE S == Remembered(signals)
<1>1. S \subseteq Signals /\ \A s \in S : handlers[s] = "signalHandler"
  BY DEF Remembered
<1>2. Adds(S)
  BY <1>1 DEF Adds, Catch, TableInv
<1> QED
  BY <1>2

\* Then as many are owed as before.
LEMMA AddsOwing ==
  ASSUME NEW S, Adds(S), NEW n, Owing(n), UNCHANGED trapStates
  PROVE  Owing(n)'
<1>1. \A s \in caughtSignals' : s \in caughtSignals \/ s \in S
  BY DEF Adds
<1> QED
  BY <1>1 DEF Adds, Owing

LEMMA AddsOK ==
  ASSUME NEW S, Adds(S), UNCHANGED trapStates
  PROVE  /\ CaughtOK => CaughtOK'
         /\ Untrapped => Untrapped' /\ S = {}
BY DEF Adds, CaughtOK, Untrapped

\* Only the program's own list is executed where traps are served.
LEMMA ListIs ==
  ASSUME TInv, DueInv, ~Ended
  PROVE  /\ pc \notin {"ready", "command", "utility"} => level = "list"
         /\ ~executingTrap => level = "list"
BY DEF TInv, TypeOK, ActionInv, DueInv, Ended, Ends

LEMMA DueUnblock ==
  ASSUME TInv, TableInv, DueInv, NEW point \in {"check", "reading", "window"},
         UnblockTraps(point),
         \/ pc \in {"main", "again"}
         \/ pc = "ready" /\ ~executingTrap /\ point = "window",
         UNCHANGED << table, executing, running, site, next >>
  PROVE  DueInv'
<1>1. PICK S : Adds(S)
  BY CatchAdds DEF UnblockTraps, TInv, TypeOK
<1>2. ~Ended /\ level = "list"
  BY ListIs DEF Ended, Ends
<1>3. /\ UNCHANGED << trapStates, traps, executingTrap, executingExitTrap,
                      level, process, site, next >>
      /\ pc' \in {point, "killed"}
  BY DEF UnblockTraps, table, executing, running
<1>4. MayServe /\ Serves
  <2>1. pc \in {"main", "again"} => process = "main"
    BY <1>2 DEF DueInv, ChildInv
  <2>2. MayServe
    BY <1>2, <2>1 DEF MayServe
  <2> QED
    BY <1>2, <2>2 DEF DueInv
<1>5. CaughtOK'
  BY <1>1, <1>3, AddsOK DEF DueInv
<1>6. ChildInv'
  BY <1>2, <1>3 DEF ChildInv, DueInv, Ended, Ends
<1>7. Serves' \/ Ended'
  <2>1. caughtSignals' # {} => trapsPending'
    BY <1>1, <1>4 DEF Adds, Serves
  <2>2. CASE Owing(1)
    BY <1>1, <1>3, <2>1, <2>2, AddsOwing DEF Serves
  <2>3. CASE Untrapped /\ process # "main" /\ pc # "command"
    BY <1>1, <1>3, <2>1, <2>3, AddsOK DEF Serves, Ended, Ends
  <2> QED
    BY <1>4, <2>2, <2>3 DEF Serves
<1> QED
  BY <1>2, <1>3, <1>5, <1>6, <1>7 DEF DueInv, Ended, Ends

LEMMA DueBlock ==
  ASSUME TInv, DueInv, pc \in Windows, NEW where \in WhereOK, BlockTraps(where),
         pc = "window" => where = "command",
         UNCHANGED << table, executing, running >>
  PROVE  DueInv'
<1>1. ~Ended /\ level = "list" /\ ~Ended'
  BY ListIs DEF Ended, Ends, Windows, BlockTraps, PointsAfter, WhereOK
<1>2. /\ UNCHANGED << trapStates, traps, executingTrap, executingExitTrap,
                      level, process, caughtSignals, owed, next >>
      /\ IF trapsPending THEN site' = where /\ pc' = "serve"
         ELSE site' = site /\ pc' \in PointsAfter(where)
  BY DEF BlockTraps, table, executing, running
<1>3. process = "main" \/ (pc = "window" /\ ~executingTrap /\ site = "command")
  BY <1>1 DEF DueInv, ChildInv, Windows
<1>4. MayServe /\ Serves
  <2>1. MayServe
    BY <1>1, <1>3 DEF MayServe, Windows
  <2> QED
    BY <1>1, <2>1 DEF DueInv
<1>5. CaughtOK'
  BY <1>2 DEF CaughtOK, DueInv
<1>6. ChildInv'
  BY <1>1, <1>2, <1>3 DEF ChildInv, PointsAfter
<1>7. CASE trapsPending
  <2>1. Owing(1) => Owing(next)'
    BY <1>2, RangeType DEF Owing, TInv, TypeOK, Signals
  <2>2. Untrapped => Untrapped'
    BY <1>2 DEF Untrapped
  <2> QED
    BY <1>1, <1>2, <1>4, <1>5, <1>6, <1>7, <2>1, <2>2 DEF DueInv, Serves, MayServe
<1>8. CASE ~trapsPending
  <2>1. caughtSignals' = {}
    BY <1>2, <1>4, <1>8 DEF Serves
  <2>2. Serves'
    BY <2>1 DEF Serves, Owing
  <2>3. pc' # "serve"
    BY <1>2, <1>8 DEF PointsAfter, WhereOK
  <2> QED
    BY <1>1, <1>2, <1>5, <1>6, <2>2, <2>3 DEF DueInv
<1> QED
  BY <1>7, <1>8

\* The steps that neither catch nor serve.
LEMMA DueMoves ==
  ASSUME TInv, DueInv, ~Ended, pc # "serve",
         UNCHANGED << table, caught, executing, running, site, next >>,
         \/ pc' \in {"ready", "command", "utility"} \cup Ends
         \/ pc' \in {"main", "reading", "check"} /\ process = "main" /\ level = "list",
         pc = "utility" => pc' \in Ends,
         pc' = "command" => executingTrap
  PROVE  DueInv'
<1>1. UNCHANGED << trapStates, traps, executingTrap, executingExitTrap,
                   level, process, caughtSignals, owed, trapsPending, site, next >>
  BY DEF table, caught, executing, running
<1>2. CaughtOK' /\ (Untrapped => Untrapped')
  BY <1>1 DEF CaughtOK, DueInv, Untrapped
<1>3. ChildInv'
  BY <1>1 DEF ChildInv, DueInv, Ended, Ends
<1>4. /\ Owing(next + 1) => Owing(next + 1)'
      /\ Owing(1) => Owing(1)'
  BY <1>1 DEF Owing
<1>5. MayServe' /\ ~Ended' => MayServe
  BY <1>1 DEF MayServe, Ended
<1>6. MayServe' /\ ~Ended' => Serves'
  BY <1>1, <1>2, <1>4, <1>5 DEF DueInv, Serves, MayServe
<1> QED
  BY <1>1, <1>2, <1>3, <1>4, <1>6 DEF DueInv, Ended, Ends

LEMMA DueServing ==
  ASSUME TInv, TableInv, DueInv, Serving
  PROVE  DueInv'
<1> USE DEF caught, executing, table, running, serving, Ended, Ends
<1>0. /\ level = "list" /\ (Owing(next) \/ Untrapped) /\ CaughtOK /\ pc = "serve"
      /\ next \in Nat /\ \A s \in Signals : s \in Nat
      /\ caughtSignals \subseteq Signals
  BY RangeType DEF Serving, StartAction, SkipSignal, ServeEnds, DueInv, TInv, TypeOK, Signals
<1>1. CASE StartAction
  <2>1. next \in caughtSignals /\ traps[next] = "commands"
    BY <1>1 DEF StartAction, Due
  <2>2. Owing(next)
    BY <1>0, <2>1, RangeType DEF TableInv, CaughtOK, Untrapped
  <2>3. /\ UNCHANGED << caughtSignals, next, trapStates, process, site >>
        /\ owed' = owed \ {next}
        /\ pc' = "ready" /\ level' = "action"
    BY <1>1 DEF StartAction
  <2>4. Owing(next + 1)'
    BY <1>0, <2>2, <2>3 DEF Owing
  <2>5. CaughtOK' /\ ChildInv'
    BY <1>0, <2>3 DEF CaughtOK, ChildInv, DueInv
  <2> QED
    BY <2>3, <2>4, <2>5 DEF DueInv, MayServe
<1>2. CASE SkipSignal
  <2>1. Owing(next) => Owing(next)'
    BY <1>0, <1>2 DEF SkipSignal, Owing
  <2>2. Untrapped => Untrapped'
    BY <1>2 DEF SkipSignal, Untrapped
  <2>3. CaughtOK' /\ ChildInv'
    BY <1>0, <1>2 DEF SkipSignal, CaughtOK, ChildInv, DueInv
  <2> QED
    BY <1>0, <1>2, <2>1, <2>2, <2>3 DEF SkipSignal, DueInv, MayServe
<1>3. CASE ServeEnds
  <2>1. CaughtOK' /\ Serves'
    BY <1>3 DEF ServeEnds, CaughtOK, Serves, Owing
  <2>2. pc' \in PointsAfter(site) /\ site \in WhereOK /\ site' = "command"
    BY <1>3 DEF ServeEnds, TInv, TypeOK, WhereOK
  <2>3. pc' \notin {"serve"} /\ (site = "command" => pc' = "command")
    BY <2>2 DEF PointsAfter, WhereOK
  <2>4. ChildInv'
    BY <1>0, <1>3, <2>2, <2>3 DEF ServeEnds, ChildInv, DueInv
  <2> QED
    BY <1>0, <1>3, <2>1, <2>3, <2>4 DEF ServeEnds, DueInv
<1> QED
  BY <1>1, <1>2, <1>3 DEF Serving

LEMMA DueExit ==
  ASSUME TInv, DueInv, ~Ended, ExitShell,
         UNCHANGED << table, caught, serving, process >>
  PROVE  DueInv'
<1>1. /\ UNCHANGED << trapStates, caughtSignals, process, site >>
      /\ \/ pc' = "exited"
         \/ pc' = "ready" /\ level' = "exit" /\ executingTrap'
  BY DEF ExitShell, table, caught, serving
<1>2. CaughtOK' /\ ChildInv'
  BY <1>1 DEF DueInv, CaughtOK, ChildInv, Ended, Ends
<1> QED
  BY <1>1, <1>2 DEF DueInv, MayServe, Ended, Ends

LEMMA DueLists ==
  ASSUME TInv, DueInv, Lists
  PROVE  DueInv'
<1>0. ~Ended
  BY DEF Lists, EndOfFile, EndOfAction, EndOfExitTrap, EndOfList, Ended, Ends
<1>1. CASE EndOfFile
  BY <1>0, <1>1, DueExit DEF EndOfFile
<1>2. CASE EndOfAction
  <2>1. /\ UNCHANGED << trapStates, caughtSignals, owed, process, site >>
        /\ level = "action" /\ level' = "list" /\ next' = next + 1
        /\ pc' = "serve" /\ ~executingTrap'
    BY <1>2 DEF EndOfAction, table, caught
  <2>2. Owing(next)'
    BY <1>0, <2>1 DEF DueInv, Owing
  <2>3. CaughtOK' /\ ChildInv'
    BY <1>0, <2>1 DEF DueInv, CaughtOK, ChildInv
  <2> QED
    BY <2>1, <2>2, <2>3 DEF DueInv, MayServe
<1>3. CASE EndOfExitTrap
  <2>1. UNCHANGED << trapStates, caughtSignals >> /\ pc' = "exited"
    BY <1>3 DEF EndOfExitTrap, table, caught
  <2> QED
    BY <2>1 DEF DueInv, CaughtOK, ChildInv, Ended, Ends
<1>4. CASE EndOfList
  <2>1. CASE ExitShell
    BY <1>0, <1>4, <2>1, DueExit DEF EndOfList, running
  <2>2. CASE ~ExitShell
    BY <1>0, <1>4, <2>2, DueMoves DEF EndOfList, executing, running, serving, Ends
  <2> QED
    BY <2>1, <2>2
<1> QED
  BY <1>1, <1>2, <1>3, <1>4 DEF Lists

LEMMA DueSend ==
  ASSUME TInv, TableInv, DueInv, Send
  PROVE  DueInv'
<1>1. /\ UNCHANGED << trapStates, executingTrap, level, process, site, next >>
      /\ pc' \in {pc} \cup Ends \/ (pc = "reading" /\ pc' = "interrupted")
      /\ ~Ended
  BY DEF Send, table, executing, running, serving, Ends
<1>2. PICK S : Adds(S)
  <2>1. (\E signals : signals \subseteq Signals /\ Catch(signals)) \/ UNCHANGED caught
    BY DEF Send
  <2>2. UNCHANGED caught => Adds({})
    BY DEF caught, Adds
  <2> QED
    BY <2>1, <2>2, CatchAdds
<1>3. CaughtOK' /\ ChildInv'
  BY <1>1, <1>2, AddsOK DEF DueInv, ChildInv, Ended, Ends
<1>4. \A n : Owing(n) => Owing(n)'
  BY <1>1, <1>2, AddsOwing
<1>5. Untrapped => Untrapped'
  BY <1>1 DEF Untrapped
<1>6. MayServe' /\ ~Ended' => MayServe
  BY <1>1 DEF MayServe, Ended, Ends
<1>7. ASSUME MayServe', ~Ended' PROVE Serves'
  <2>1. Serves
    BY <1>1, <1>6, <1>7 DEF DueInv
  <2>2. caughtSignals' # {} => trapsPending'
    BY <1>2, <2>1 DEF Adds, Serves
  <2>3. pc' = "command" => pc = "command"
    BY <1>1 DEF Ends
  <2> QED
    BY <1>1, <1>4, <1>5, <2>1, <2>2, <2>3 DEF Serves
<1> QED
  BY <1>1, <1>3, <1>4, <1>5, <1>7 DEF DueInv, Ended, Ends

LEMMA DueTrap ==
  ASSUME TInv, DueInv, Trap
  PROVE  DueInv'
<1>1. /\ UNCHANGED << caughtSignals, owed, trapsPending, executingTrap, level,
                      process, site, next >>
      /\ pc = "command" /\ pc' \in {"ready", "killed"} /\ ~Ended
  BY DEF Trap, caught, executing, serving, running, Ended, Ends
<1>2. \A s \in Signals :
        trapStates'[s] = "ALWAYS_IGNORED" => trapStates[s] = "ALWAYS_IGNORED"
  BY TrapStep, RangeType DEF TInv, TypeOK
<1>3. CaughtOK' /\ ChildInv'
  BY <1>1, <1>2 DEF DueInv, CaughtOK, ChildInv, TInv, TypeOK, Ended, Ends
<1>4. MayServe' /\ ~Ended' => Serves'
  BY <1>1 DEF DueInv, Serves, Owing, MayServe
<1>5. Owing(next + 1) => Owing(next + 1)'
  BY <1>1 DEF Owing
<1> QED
  BY <1>1, <1>3, <1>4, <1>5 DEF DueInv, Ended, Ends

LEMMA DueFork ==
  ASSUME TInv, TableInv, DueInv, ForkSubshell \/ ForkMember \/ ForkUtility
  PROVE  DueInv'
<1>1. /\ UNCHANGED << caughtSignals, trapsPending, executingTrap >>
      /\ level' = "list" /\ next' = 1 /\ process' # "main" /\ site' = "command"
      /\ pc = "command" /\ ~Ended
  <2>1. \A as : Forked(as) => site' = "command"
    BY DEF Forked
  <2> QED
    BY <2>1, ForkStep DEF ForkSubshell, ForkMember, ForkUtility, Ended, Ends
<1>2. \/ pc' = "utility" /\ UNCHANGED trapStates
      \/ pc' = "ready" /\ ResetTraps
  BY DEF ForkSubshell, ForkMember, ForkUtility, table
<1>3. CaughtOK'
  BY <1>1, <1>2, RangeType DEF DueInv, CaughtOK, ResetTraps, TInv, TypeOK
<1>4. ChildInv'
  BY <1>1, <1>2 DEF ChildInv
<1>5. CASE pc' = "utility"
  BY <1>1, <1>3, <1>4, <1>5 DEF DueInv, MayServe
<1>6. CASE pc' = "ready" /\ ResetTraps
  <2>1. Untrapped'
    BY <1>6, RangeType DEF Untrapped, ResetTraps, Trapped
  <2>2. ~executingTrap => MayServe
    BY <1>1, ListIs DEF MayServe
  <2>3. ~executingTrap => (caughtSignals # {} => trapsPending)
    BY <1>1, <2>2 DEF DueInv, Serves
  <2> QED
    BY <1>1, <1>3, <1>4, <1>6, <2>1, <2>3 DEF DueInv, MayServe, Serves
<1> QED
  BY <1>2, <1>5, <1>6

LEMMA DueScript ==
  ASSUME ExecuteScript
  PROVE  DueInv'
<1>1. /\ caughtSignals' = {} /\ level' = "list" /\ process' = "main"
      /\ pc' = "main"
  BY DEF ExecuteScript
<1> QED
  BY <1>1 DEF DueInv, CaughtOK, ChildInv, MayServe, Serves, Owing

LEMMA DueInit == Init => DueInv
BY DEF Init, DueInv, CaughtOK, ChildInv, MayServe, Serves, Owing

\* The readers' steps and those of executeCommand.
LEMMA DueInput ==
  ASSUME TInv, TableInv, DueInv, Input \/ ExecuteCommand \/ ExecuteTraps
  PROVE  DueInv'
<1> USE DEF serving, Windows, WhereOK, Ended, Ends
<1>1. CASE BeginRead
  BY <1>1, DueUnblock DEF BeginRead
<1>2. CASE ReadLine \/ ReadEndOfFile \/ Interrupted \/ ExecuteTraps
  BY <1>2, DueBlock DEF ReadLine, ReadEndOfFile, Interrupted, ExecuteTraps
<1>3. pc \in {"main", "check", "reading"} => process = "main" /\ level = "list"
  BY ListIs DEF DueInv, ChildInv
<1>4. CASE CheckTraps
  BY <1>3, <1>4, DueBlock, DueMoves DEF CheckTraps
<1>5. CASE ReadByte
  BY <1>3, <1>5, DueBlock, DueMoves DEF ReadByte
<1>6. CASE TerminalFailure
  BY <1>3, <1>6, DueMoves DEF TerminalFailure
<1>7. CASE ReadString
  BY <1>3, <1>7, DueMoves DEF ReadString, PointsAfter
<1>8. CASE ExecuteCommand
  <2>1. CASE executingTrap
    BY <1>8, <2>1, DueMoves DEF ExecuteCommand
  <2>2. CASE ~executingTrap
    BY <1>8, <2>2, DueUnblock DEF ExecuteCommand
  <2> QED
    BY <2>1, <2>2
<1> QED
  BY <1>1, <1>2, <1>4, <1>5, <1>6, <1>7, <1>8 DEF Input

LEMMA DueStep ==
  ASSUME TInv, TableInv, DueInv, [Next]_vars
  PROVE  DueInv'
<1>1. CASE Input \/ ExecuteCommand \/ ExecuteTraps
  BY <1>1, DueInput
<1>2. CASE Serving \/ Lists
  BY <1>2, DueServing, DueLists
<1>3. CASE OrdinaryCommand \/ ExecBuiltin \/ Execv
  BY <1>3, DueMoves DEF OrdinaryCommand, ExecBuiltin, Execv, serving, Ended, Ends
<1>4. CASE Exit
  BY <1>4, DueExit DEF Exit, Ended, Ends, running
<1>5. CASE Send
  BY <1>5, DueSend
<1>6. CASE Trap
  BY <1>6, DueTrap
<1>7. CASE ForkSubshell \/ ForkMember \/ ForkUtility \/ ExecuteScript
  BY <1>7, DueFork, DueScript
<1>8. CASE UNCHANGED vars
  BY <1>8 DEF vars, table, caught, executing, input, kernel, serving, running,
    DueInv, CaughtOK, ChildInv, MayServe, Serves, Owing, Untrapped, Ended, Ends
<1> QED
  BY <1>1, <1>2, <1>3, <1>4, <1>5, <1>6, <1>7, <1>8, NextCases DEF Quiet

\* In every shell blockTraps starts no action for a signal that was not caught
\* since its action ran last, nor one that another action has reset or ignored.
THEOREM TrapsActionsAreDue == Spec => ActionsAreDue
<1> DEFINE Inv == TInv /\ TableInv /\ DueInv
<1>1. Init => Inv
  <2>1. ASSUME Init PROVE TableInv
    <3>1. \A s \in Signals : handlers[s] # "signalHandler"
      BY <2>1 DEF Init, DefaultHandler
    <3> QED
      BY <2>1, <3>1 DEF Init, TableInv
  <2> QED
    BY <2>1, TypeInit, DueInit
<1>2. Inv /\ [Next]_vars => Inv'
  BY TypeStep, TableStep, DueStep
<1>3. Inv /\ [Next]_vars
        => [level = "list" /\ level' = "action" =>
              next \in owed /\ trapStates[next] = "TRAPPED"]_vars
  <2>1. ASSUME Inv, Next, level = "list", level' = "action"
        PROVE  next \in owed /\ trapStates[next] = "TRAPPED"
    <3>1. next \in caughtSignals /\ traps[next] = "commands" /\ pc = "serve"
      BY <2>1, OnlyStartAction DEF StartAction, Due
    <3>2. next \in Signals /\ next \in Conditions /\ next \in Nat
      BY <2>1, <3>1, RangeType DEF TInv, TypeOK
    <3>3. trapStates[next] = "TRAPPED"
      BY <2>1, <3>1, <3>2 DEF TableInv, DueInv, CaughtOK
    <3>4. Owing(next)
      BY <2>1, <3>1, <3>2, <3>3 DEF DueInv, Untrapped, Ended, Ends
    <3> QED
      BY <3>1, <3>2, <3>3, <3>4 DEF Owing
  <2> QED
    BY <2>1
<1> QED
  BY <1>1, <1>2, <1>3, PTL DEF Spec, ActionsAreDue

(***************************************************************************)
(* The handlers that the kernel has, and the table.                        *)
(***************************************************************************)
\* How the handler of s agrees with the state of s.
Matches(s, handler, state) ==
  \/ handler = HandlerOf(s, state)
  \/ state = "ALWAYS_IGNORED" /\ s = SIGINT /\ handler = "sigintHandler"
  \/ state = "DEFAULT" /\ process # "main" /\ handler = "SIG_DFL"

\* A process that is about to be replaced, or has ended, stays so.
LEMMA UtilityStays ==
  ASSUME Quiet, Ended \/ pc = "utility"
  PROVE  Ended' \/ pc' = "utility"
<1>1. CASE Ended
  <2>1. ~Input
    BY <1>1 DEF Ended, Ends, Input, BeginRead, CheckTraps, ReadByte, ReadLine,
      ReadEndOfFile, Interrupted, TerminalFailure, ReadString
  <2>2. ~Serving /\ ~Lists /\ ~Send
    BY <1>1 DEF Ended, Ends, Serving, StartAction, SkipSignal, ServeEnds, Lists,
      EndOfFile, EndOfAction, EndOfExitTrap, EndOfList, Send
  <2>3. /\ ~ExecuteCommand /\ ~ExecuteTraps /\ ~OrdinaryCommand /\ ~Exit
        /\ ~ExecBuiltin /\ ~Execv
    BY <1>1 DEF Ended, Ends, ExecuteCommand, ExecuteTraps, OrdinaryCommand,
      Exit, ExecBuiltin, Execv
  <2> QED
    BY <2>1, <2>2, <2>3 DEF Quiet
<1>2. CASE pc = "utility"
  <2>1. ~Input
    BY <1>2 DEF Input, BeginRead, CheckTraps, ReadByte, ReadLine,
      ReadEndOfFile, Interrupted, TerminalFailure, ReadString
  <2>2. ~Serving /\ ~Lists
    BY <1>2 DEF Serving, StartAction, SkipSignal, ServeEnds, Lists,
      EndOfFile, EndOfAction, EndOfExitTrap, EndOfList
  <2>3. /\ ~ExecuteCommand /\ ~ExecuteTraps /\ ~OrdinaryCommand /\ ~Exit
        /\ ~ExecBuiltin
    BY <1>2 DEF ExecuteCommand, ExecuteTraps, OrdinaryCommand, Exit, ExecBuiltin
  <2>4. Send => pc' \in {"killed", "utility"}
    BY <1>2 DEF Send
  <2>5. Execv => pc' \in {"replaced", "exited"}
    BY DEF Execv
  <2> QED
    BY <2>1, <2>2, <2>3, <2>4, <2>5 DEF Quiet, Ended, Ends
<1> QED
  BY <1>1, <1>2

\* The options change only in executeScript.
LEMMA InteractiveStays ==
  ASSUME ~Scripts, [Next]_vars
  PROVE  UNCHANGED interactive
<1> USE DEF input
<1>1. Input => UNCHANGED interactive
  BY DEF Input, BeginRead, CheckTraps, ReadByte, ReadLine, ReadEndOfFile,
    Interrupted, TerminalFailure, ReadString
<1>2. Serving => UNCHANGED interactive
  BY DEF Serving, StartAction, SkipSignal, ServeEnds
<1>3. Lists => UNCHANGED interactive
  BY DEF Lists, EndOfFile, EndOfAction, EndOfExitTrap, EndOfList
<1>4. Commands => UNCHANGED interactive
  BY DEF Commands, ExecuteCommand, ExecuteTraps, OrdinaryCommand, Exit, Trap,
    ForkSubshell, ForkMember, ForkUtility, Forked, ExecBuiltin, Execv,
    ExecuteScript
<1>5. Send \/ Terminated \/ UNCHANGED vars => UNCHANGED interactive
  BY DEF Send, Terminated, vars
<1> QED
  BY <1>1, <1>2, <1>3, <1>4, <1>5 DEF Next, Shell

LEMMA MatchInit == Init => HandlersMatch
<1> SUFFICES ASSUME Init, NEW s \in Signals
             PROVE  Matches(s, handlers[s], trapStates[s])
  BY DEF HandlersMatch, Matches
<1>1. s \in Conditions
  BY RangeType
<1> QED
  BY <1>1 DEF Init, Matches, HandlerOf, DefaultHandler

LEMMA MatchStep ==
  ASSUME ~Scripts, TInv, HandlersMatch, [Next]_vars
  PROVE  HandlersMatch'
<1>0. /\ Signals \subseteq Conditions /\ 0 \notin Signals
      /\ trapStates \in [Conditions -> States]
      /\ handlers \in [Signals -> Handlers]
      /\ interactive' = interactive
  BY RangeType, InteractiveStays DEF TInv, TypeOK, Signals
<1>1. \A s \in Signals : \A state : HandlerOf(s, state)' = HandlerOf(s, state)
  BY <1>0 DEF HandlerOf, DefaultHandler
<1>2. CASE Quiet \/ UNCHANGED vars
  <2>1. UNCHANGED << trapStates, handlers, process >>
    BY <1>2, QuietSteps DEF vars, table, kernel, running
  <2>2. Ended \/ pc = "utility" => Ended' \/ pc' = "utility"
    BY <1>2, UtilityStays DEF vars, Ended
  <2> QED
    BY <1>1, <2>1, <2>2 DEF HandlersMatch
<1>3. CASE Trap \/ ForkSubshell \/ ForkMember \/ ForkUtility
  <2>1. pc = "command" /\ ~Ended
    BY <1>3 DEF Trap, ForkSubshell, ForkMember, ForkUtility, Ended, Ends
  <2>2. \A s \in Signals : Matches(s, handlers[s], trapStates[s])
    BY <2>1 DEF HandlersMatch, Matches
  <2> SUFFICES ASSUME NEW s \in Signals, pc' # "utility"
               PROVE  Matches(s, handlers[s], trapStates[s])'
    BY DEF HandlersMatch, Matches
  <2>3. CASE Trap
    <3>1. PICK c \in Conditions, text \in Texts :
            LET state == IF trapStates[c] = "ALWAYS_IGNORED" THEN "ALWAYS_IGNORED"
                         ELSE StateOf(text) IN
            /\ trapStates' = [trapStates EXCEPT ![c] = state]
            /\ IF c = 0 THEN handlers' = handlers
               ELSE handlers' = [handlers EXCEPT ![c] = HandlerOf(c, state)]
      BY <2>3 DEF Trap, kernel
    <3>2. process' = process
      BY <2>3 DEF Trap, running
    <3>3. CASE c = s
      BY <1>0, <1>1, <3>1, <3>3 DEF Matches
    <3>4. CASE c # s
      <4>1. handlers'[s] = handlers[s] /\ trapStates'[s] = trapStates[s]
        BY <1>0, <3>1, <3>4
      <4> QED
        BY <1>1, <2>2, <3>2, <4>1 DEF Matches
    <3> QED
      BY <3>3, <3>4
  <2>4. CASE ForkSubshell
    <3>1. /\ trapStates'[s] = IF trapStates[s] = "TRAPPED" THEN "DEFAULT"
                              ELSE trapStates[s]
          /\ handlers'[s] = IF trapStates[s] = "TRAPPED" THEN "SIG_DFL"
                            ELSE handlers[s]
          /\ process' # "main"
      BY <1>0, <2>4 DEF ForkSubshell, ResetTraps, Trapped, Forked
    <3> QED
      BY <1>1, <2>2, <3>1 DEF Matches
  <2>5. CASE ForkMember
    <3>1. /\ trapStates'[s] = IF trapStates[s] = "TRAPPED" THEN "DEFAULT"
                              ELSE trapStates[s]
          /\ handlers'[s] =
               IF trapStates'[s] \notin {"IGNORED", "ALWAYS_IGNORED"}
                 THEN "SIG_DFL" ELSE handlers[s]
          /\ process' # "main"
      BY <1>0, <2>5 DEF ForkMember, ResetTraps, Trapped, Forked, Unignored
    <3>2. trapStates[s] \in States
      BY <1>0
    <3> QED
      BY <1>1, <2>2, <3>1, <3>2 DEF Matches, States
  <2>6. CASE ForkUtility
    BY <2>6 DEF ForkUtility
  <2> QED
    BY <1>3, <2>3, <2>4, <2>5, <2>6
<1> QED
  BY <1>2, <1>3, NextCases DEF ExecuteScript

\* Whatever trap is told, and in every child, the kernel has the handler that
\* belongs to the state of the signal in the table, if no script is executed by
\* executeScript (trap, resetTraps, resetSignals).
THEOREM TrapsHandlersMatch ==
  ASSUME ~Scripts
  PROVE  Spec => []HandlersMatch
<1>1. Init => TInv /\ HandlersMatch
  BY TypeInit, MatchInit
<1>2. TInv /\ HandlersMatch /\ [Next]_vars => (TInv /\ HandlersMatch)'
  BY TypeStep, MatchStep
<1> QED
  BY <1>1, <1>2, PTL DEF Spec

=============================================================================
