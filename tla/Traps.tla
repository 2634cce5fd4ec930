------------------------------- MODULE Traps -------------------------------
(***************************************************************************)
(* Traps (trap.c) and the places that let signals in: the readers of the   *)
(* shell's input (readInputFromFile, readCommandInteractive) and           *)
(* executeTraps, which executeCommand calls before every command.          *)
(*                                                                         *)
(* A trapped signal is blocked except in these windows.  Its handler only  *)
(* remembers it; blockTraps, which ends the window, executes the actions.  *)
(*                                                                         *)
(* The module follows one process.  When it forks it goes on as the parent *)
(* or becomes the child.  The kernel keeps a signal that is sent pending   *)
(* while it is blocked and delivers it otherwise, at any time.             *)
(***************************************************************************)
EXTENDS Integers, FiniteSets

CONSTANTS
  LastSignal,     \* Bound: the signals are 1..LastSignal, NSIG_MAX - 1 in C.
  SIGINT,
  TerminalFails,  \* Does reading the terminal end with end of file or errors?
  Scripts         \* Are there executable files that execv does not accept?

ASSUME TrapsAssumption ==
  /\ LastSignal \in Nat \ {0}
  /\ SIGINT \in 1..LastSignal
  /\ TerminalFails \in BOOLEAN
  /\ Scripts \in BOOLEAN

Signals == 1..LastSignal
Conditions == 0..LastSignal   \* 0 is EXIT.
States == {"DEFAULT", "IGNORED", "TRAPPED", "ALWAYS_IGNORED"}
Handlers == {"SIG_DFL", "SIG_IGN", "signalHandler", "sigintHandler"}

\* The text of an action: NULL, empty, or commands (perhaps none).
Texts == {"none", "empty", "commands"}

VARIABLES
  trapStates,
  traps,
  caughtSignals,
  trapsPending,
  executingTrap,
  executingExitTrap,
  interactive,       \* shellOptions.interactive
  reader,            \* readInput: "file", "terminal" or, for -c,
                     \* "string", and "consumed" once it has been read.
  endOfFileReached,
  handlers,          \* The kernel's: what sigaction has installed,
  mask,              \* the blocked signals, and
  pending,           \* the signals sent while they are blocked.
  pc,
  site,              \* Where blockTraps returns to.
  savedMask,         \* The local variable of the reader or of executeTraps.
  next,              \* The loop index of blockTraps.
  level,             \* Whose commands run: those of the "list", of an "action"
                     \* of blockTraps, or of the EXIT trap ("exit").
  process,           \* What the process runs: "main", a "subshell" that ends
                     \* with exit, or a "substitution" that ends with exitShell.
  owed               \* History: caught, and not yet considered by blockTraps.

table == << trapStates, traps >>
caught == << caughtSignals, trapsPending, owed >>
executing == << executingTrap, executingExitTrap >>
input == << interactive, reader, endOfFileReached >>
kernel == << handlers, mask, pending >>
serving == << site, savedMask, next >>
running == << level, process >>
vars == << table, caught, executing, input, kernel, pc, serving, running >>

(***************************************************************************)
(* "main": the loop of main; "check" and "reading": in the reader, before  *)
(* its test of trapsPending and in read; "interrupted": read has returned  *)
(* EINTR to the terminal's reader; "again": the reader is about to unblock *)
(* the traps once more; "window": between the two halves of executeTraps;  *)
(* "serve": in the loop of blockTraps; "ready": before the next command of *)
(* a list; "command": in executeCommand, after the traps; "utility":       *)
(* before execv.  The others are the ends of the process: by exit, by err, *)
(* by a signal, or as another program.                                     *)
(***************************************************************************)
Ends == {"exited", "failed", "killed", "replaced"}
Points == {"main", "check", "reading", "interrupted", "again", "window",
           "serve", "ready", "command", "utility"} \cup Ends
Windows == {"check", "reading", "interrupted", "window"}

Ended == pc \in Ends

(***************************************************************************)
(* The kernel.  A signal without a handler kills the process; sigintHandler *)
(* does nothing.                                                           *)
(***************************************************************************)
Kills(signals) == \E s \in signals : handlers[s] = "SIG_DFL"
Remembered(signals) == {s \in signals : handlers[s] = "signalHandler"}

Catch(signals) ==
  /\ caughtSignals' = caughtSignals \cup Remembered(signals)
  /\ trapsPending' = (trapsPending \/ Remembered(signals) # {})
  /\ owed' = owed \cup Remembered(signals)

\* Another process sends a signal.  A handler interrupts read and waitpid,
\* unless it has run just before them; only the terminal's reader copes.
Send ==
  /\ ~Ended
  /\ \E s \in Signals :
       /\ handlers[s] # "SIG_IGN"
       /\ IF s \in mask
            THEN /\ pending' = pending \cup {s}
                 /\ UNCHANGED << caught, pc >>
            ELSE /\ Catch({s})
                 /\ pc' \in IF Kills({s}) THEN {"killed"}
                            ELSE IF pc = "reading" /\ reader = "terminal"
                            THEN {pc, "interrupted"}
                            ELSE IF pc \in {"reading", "command"}
                            THEN {pc, "failed"}
                            ELSE {pc}
                 /\ UNCHANGED pending
  /\ UNCHANGED << table, executing, input, handlers, mask, serving, running >>

(***************************************************************************)
(* unblockTraps, which delivers what is pending, and blockTraps, which     *)
(* returns to site.  The local variables are reset when they go out of     *)
(* scope.                                                                  *)
(***************************************************************************)
UnblockTraps(point) ==
  /\ savedMask' = mask
  /\ mask' = {}
  /\ pending' = {}
  /\ Catch(pending)
  /\ pc' = IF Kills(pending) THEN "killed" ELSE point
  /\ UNCHANGED handlers

\* After a line the command is complete, or wrong, or continues.
PointsAfter(where) == IF where = "line" THEN {"ready", "main"} ELSE {where}

\* blockTraps, and the same with the traps left unblocked.
BlockTrapsUnmasked(where) ==
  /\ savedMask' = {}
  /\ IF trapsPending
       THEN /\ trapsPending' = FALSE
            /\ site' = where
            /\ pc' = "serve"
       ELSE /\ pc' \in PointsAfter(where)
            /\ UNCHANGED << trapsPending, site >>
  /\ UNCHANGED << caughtSignals, owed, kernel, next >>

BlockTraps(where) ==
  /\ mask' = savedMask
  /\ savedMask' = {}
  /\ IF trapsPending
       THEN /\ trapsPending' = FALSE
            /\ site' = where
            /\ pc' = "serve"
       ELSE /\ pc' \in PointsAfter(where)
            /\ UNCHANGED << trapsPending, site >>
  /\ UNCHANGED << caughtSignals, owed, handlers, pending, next >>

\* The end of the loop of blockTraps, and the same with "<=" for "<".
ServedLate == next > LastSignal + 1
Served == next > LastSignal

\* executeTrapAction.  An action that was reset or ignored since the signal
\* was caught has no commands; the other definition forgets that.
DueOnceCaught == next \in caughtSignals
Due == next \in caughtSignals /\ traps[next] = "commands"

StartAction ==
  /\ pc = "serve" /\ ~Served
  /\ Due
  /\ executingTrap' = TRUE
  /\ level' = "action"
  /\ pc' = "ready"
  /\ owed' = owed \ {next}
  /\ UNCHANGED << table, caughtSignals, trapsPending, executingExitTrap, input,
                  kernel, serving, process >>

SkipSignal ==
  /\ pc = "serve" /\ ~Served
  /\ ~Due
  /\ next' = next + 1
  /\ owed' = owed \ {next}
  /\ UNCHANGED << table, caughtSignals, trapsPending, executing, input, kernel,
                  pc, site, savedMask, running >>

ServeEnds ==
  /\ pc = "serve" /\ Served
  /\ caughtSignals' = {}
  /\ pc' \in PointsAfter(site)
  /\ site' = "command" /\ next' = 1
  /\ UNCHANGED << table, trapsPending, owed, executing, input, kernel,
                  savedMask, running >>

(***************************************************************************)
(* The readers.  "again" is the place in both where the traps have just    *)
(* been served and input is still wanted.                                  *)
(***************************************************************************)
BeginRead ==
  /\ \/ pc = "main" /\ reader \in {"file", "terminal"} /\ ~endOfFileReached
     \/ pc = "again"
  /\ UnblockTraps(IF pc = "main" /\ reader = "file" THEN "check" ELSE "reading")
  /\ UNCHANGED << table, executing, input, site, next, running >>

\* The test of trapsPending, which readInputFromFile could do without but
\* for lines that do not end.
CheckTrapsNot ==
  /\ pc = "check"
  /\ pc' = "reading"
  /\ UNCHANGED << table, caught, executing, input, kernel, serving, running >>

CheckTraps ==
  /\ pc = "check"
  /\ IF trapsPending THEN BlockTraps("again")
     ELSE pc' = "reading" /\ UNCHANGED << caught, kernel, serving >>
  /\ UNCHANGED << table, executing, input, running >>

\* A byte that does not end the line.  The terminal's reader serves the traps
\* after each.
ReadByte ==
  /\ pc = "reading"
  /\ IF reader = "terminal" THEN BlockTraps("again")
     ELSE pc' = "check" /\ UNCHANGED << caught, kernel, serving >>
  /\ UNCHANGED << table, executing, input, running >>

ReadLine ==
  /\ pc = "reading"
  /\ BlockTraps("line")
  /\ UNCHANGED << table, executing, input, running >>

\* Control-D on the terminal; a file may end within a line.
ReadEndOfFile ==
  /\ pc = "reading"
  /\ endOfFileReached' = TRUE
  /\ \/ BlockTraps("main")
     \/ reader = "file" /\ BlockTraps("line")
  /\ UNCHANGED << table, executing, interactive, reader, running >>

Interrupted ==
  /\ pc = "interrupted"
  /\ BlockTraps("again")
  /\ UNCHANGED << table, executing, input, running >>

\* read returns 0 or an error other than EINTR: the traps stay unblocked.
TerminalFailure ==
  /\ TerminalFails
  /\ pc = "reading" /\ reader = "terminal"
  /\ pc' \in {"main", "ready"}
  /\ UNCHANGED << table, caught, executing, input, kernel, serving, running >>

\* The string of -c is read once; the next call finds its end.
ReadString ==
  /\ pc = "main" /\ ~endOfFileReached
  /\ \/ /\ reader = "string"
        /\ reader' = "consumed"
        /\ pc' \in PointsAfter("line")
        /\ UNCHANGED endOfFileReached
     \/ /\ reader = "consumed"
        /\ endOfFileReached' = TRUE
        /\ UNCHANGED << reader, pc >>
  /\ UNCHANGED << table, caught, executing, interactive, kernel, serving,
                  running >>

(***************************************************************************)
(* exitShell, and the ends of lists.                                       *)
(***************************************************************************)
\* The EXIT trap executed like any other list.
ExitShellUnmarked ==
  IF ~executingExitTrap /\ trapStates[0] = "TRAPPED"
    THEN /\ executingExitTrap' = TRUE
         /\ level' = "exit"
         /\ pc' = "ready"
         /\ UNCHANGED executingTrap
    ELSE /\ pc' = "exited"
         /\ UNCHANGED << executing, level >>

ExitShell ==
  IF ~executingExitTrap /\ trapStates[0] = "TRAPPED"
    THEN /\ executingExitTrap' = TRUE
         /\ executingTrap' = TRUE
         /\ level' = "exit"
         /\ pc' = "ready"
    ELSE /\ pc' = "exited"
         /\ UNCHANGED << executing, level >>

EndOfFile ==
  /\ pc = "main" /\ endOfFileReached
  /\ ExitShell
  /\ UNCHANGED << table, caught, input, kernel, serving, process >>

EndOfAction ==
  /\ pc = "ready" /\ level = "action"
  /\ executingTrap' = FALSE
  /\ level' = "list"
  /\ next' = next + 1
  /\ pc' = "serve"
  /\ UNCHANGED << table, caught, executingExitTrap, input, kernel, site,
                  savedMask, process >>

EndOfExitTrap ==
  /\ pc = "ready" /\ level = "exit"
  /\ executingTrap' = FALSE
  /\ pc' = "exited"
  /\ UNCHANGED << table, caught, executingExitTrap, input, kernel, serving,
                  running >>

EndOfList ==
  /\ pc = "ready" /\ level = "list"
  /\ \/ process = "main" /\ pc' = "main" /\ UNCHANGED << executing, level >>
     \/ process = "subshell" /\ pc' = "exited" /\ UNCHANGED << executing, level >>
     \/ process = "substitution" /\ ExitShell
  /\ UNCHANGED << table, caught, input, kernel, serving, process >>

(***************************************************************************)
(* executeCommand and the commands that concern traps.                     *)
(***************************************************************************)
\* Without executeTraps.
ExecuteCommandAlone ==
  /\ pc = "ready"
  /\ pc' = "command"
  /\ UNCHANGED << table, caught, executing, input, kernel, serving, running >>

ExecuteCommand ==
  /\ pc = "ready"
  /\ IF ~executingTrap
       THEN UnblockTraps("window")
       ELSE pc' = "command" /\ UNCHANGED << caught, kernel, savedMask >>
  /\ UNCHANGED << table, executing, input, site, next, running >>

\* The traps blocked again, and no action executed.
ExecuteTrapsLater ==
  /\ pc = "window"
  /\ mask' = savedMask
  /\ savedMask' = {}
  /\ pc' = "command"
  /\ UNCHANGED << table, caught, executing, input, handlers, pending, site,
                  next, running >>

ExecuteTraps ==
  /\ pc = "window"
  /\ BlockTraps("command")
  /\ UNCHANGED << table, executing, input, running >>

\* All other commands, and the parent's side of a fork.
OrdinaryCommand ==
  /\ pc = "command"
  /\ pc' = "ready"
  /\ UNCHANGED << table, caught, executing, input, kernel, serving, running >>

Exit ==
  /\ pc = "command"
  /\ ExitShell
  /\ UNCHANGED << table, caught, input, kernel, serving, process >>

StateOf(text) ==
  CASE text = "none" -> "DEFAULT"
    [] text = "empty" -> "IGNORED"
    [] text = "commands" -> "TRAPPED"

\* What an interactive shell does with signals that are not trapped.  SIGINT
\* stands for itself, the other signals for SIGTERM and those of job control.
DefaultHandler(s) ==
  IF ~interactive THEN "SIG_DFL"
  ELSE IF s = SIGINT THEN "sigintHandler" ELSE "SIG_IGN"

HandlerOf(s, state) ==
  CASE state \in {"IGNORED", "ALWAYS_IGNORED"} -> "SIG_IGN"
    [] state = "TRAPPED" -> "signalHandler"
    [] state = "DEFAULT" -> DefaultHandler(s)

\* Which handlers leave the signal blocked.
LeavesBlockedNever(handler) == FALSE
LeavesBlocked(handler) == handler \notin {"SIG_DFL", "SIG_IGN"}

\* trap: one condition after the other.  SIG_IGN discards what is pending; an
\* unblocked signal without a handler is delivered.  (The text can be empty only
\* where strtol reports that "" is no number: elsewhere trap '' takes it for a
\* condition, and resets the signals.)
Trap ==
  /\ pc = "command"
  /\ \E c \in Conditions, text \in Texts :
       LET state == IF trapStates[c] = "ALWAYS_IGNORED" THEN "ALWAYS_IGNORED"
                    ELSE StateOf(text)
           handler == HandlerOf(c, state) IN
       /\ traps' = [traps EXCEPT ![c] = text]
       /\ trapStates' = [trapStates EXCEPT ![c] = state]
       /\ IF c = 0 THEN pc' = "ready" /\ UNCHANGED kernel
          ELSE /\ handlers' = [handlers EXCEPT ![c] = handler]
               /\ mask' = IF LeavesBlocked(handler)
                            THEN mask \cup {c} ELSE mask \ {c}
               /\ pending' = IF LeavesBlocked(handler)
                               THEN pending ELSE pending \ {c}
               /\ pc' = IF handler = "SIG_DFL" /\ c \in pending
                          THEN "killed" ELSE "ready"
  /\ UNCHANGED << caught, executing, input, serving, running >>

(***************************************************************************)
(* The children.                                                           *)
(***************************************************************************)
Trapped == {c \in Conditions : trapStates[c] = "TRAPPED"}

ResetTraps ==
  /\ trapStates' = [c \in Conditions |->
                      IF c \in Trapped THEN "DEFAULT" ELSE trapStates[c]]
  /\ traps' = [c \in Conditions |-> IF c \in Trapped THEN "none" ELSE traps[c]]

\* resetSignals leaves the signals alone that are ignored, those that were
\* ignored from the start included.
NotIgnoredByTrap == {s \in Signals : trapStates[s] # "IGNORED"}
Unignored == {s \in Signals : trapStates[s] \notin {"IGNORED", "ALWAYS_IGNORED"}}

\* The child's part of fork: nothing is pending in it, and it never returns to
\* the functions that were executing.
Forked(as) ==
  /\ pending' = {}
  /\ owed' = {}
  /\ level' = "list"
  /\ process' = as
  /\ site' = "command" /\ savedMask' = {} /\ next' = 1
  /\ UNCHANGED << caughtSignals, trapsPending, executing, input >>

\* A subshell that keeps its parent's handlers.
ForkSubshellWithHandlers ==
  /\ pc = "command"
  /\ ResetTraps
  /\ mask' = mask \ Trapped
  /\ \E as \in {"subshell", "substitution"} : Forked(as)
  /\ pc' = "ready"
  /\ UNCHANGED handlers

ForkSubshell ==
  /\ pc = "command"
  /\ ResetTraps
  /\ handlers' = [s \in Signals |->
                    IF s \in Trapped THEN "SIG_DFL" ELSE handlers[s]]
  /\ mask' = mask \ Trapped
  /\ \E as \in {"subshell", "substitution"} : Forked(as)
  /\ pc' = "ready"

\* A command of a pipeline: resetTraps, then resetSignals.
ForkMember ==
  /\ pc = "command"
  /\ ResetTraps
  /\ handlers' = [s \in Signals |->
                    IF s \in Unignored THEN "SIG_DFL" ELSE handlers[s]]
  /\ mask' = {}
  /\ Forked("subshell")
  /\ pc' = "ready"

\* The child that becomes a utility: resetSignals alone.
ForkUtility ==
  /\ pc = "command"
  /\ handlers' = [s \in Signals |->
                    IF s \in Unignored THEN "SIG_DFL" ELSE handlers[s]]
  /\ mask' = {}
  /\ Forked("subshell")
  /\ pc' = "utility"
  /\ UNCHANGED table

\* The builtin exec: no fork, and no resetSignals.
ExecBuiltin ==
  /\ pc = "command"
  /\ pc' = "utility"
  /\ UNCHANGED << table, caught, executing, input, kernel, serving, running >>

\* execv, or a utility that is not there.
Execv ==
  /\ pc = "utility"
  /\ pc' \in {"replaced", "exited"}
  /\ UNCHANGED << table, caught, executing, input, kernel, serving, running >>

\* initializeTraps, without its part for interactive shells.
InitializedStates ==
  [c \in Conditions |->
     IF c # 0 /\ handlers[c] = "SIG_IGN" THEN "ALWAYS_IGNORED"
     ELSE trapStates[c]]

\* executeScript: back to the beginning of main, with shellOptions reset.
ExecuteScript ==
  /\ Scripts
  /\ pc = "utility"
  /\ trapStates' = InitializedStates
  /\ caughtSignals' = {}
  /\ owed' = {}
  /\ interactive' = FALSE
  /\ reader' = "file"
  /\ endOfFileReached' = FALSE
  /\ level' = "list"
  /\ process' = "main"
  /\ pc' = "main"
  /\ UNCHANGED << traps, trapsPending, executing, kernel, serving >>

(***************************************************************************)
(* The specification.                                                      *)
(***************************************************************************)
\* The signals in ignored are ignored when the shell is started.  An
\* interactive shell handles SIGINT and ignores the others all the same.
Init ==
  /\ \E ignored \in SUBSET Signals :
       /\ trapStates = [c \in Conditions |->
                          IF c \in ignored THEN "ALWAYS_IGNORED" ELSE "DEFAULT"]
       /\ interactive \in BOOLEAN
       /\ handlers = [s \in Signals |->
                        IF s \in ignored /\ ~(interactive /\ s = SIGINT)
                          THEN "SIG_IGN" ELSE DefaultHandler(s)]
  /\ traps = [c \in Conditions |-> "none"]
  /\ caughtSignals = {}
  /\ trapsPending = FALSE
  /\ executingTrap = FALSE
  /\ executingExitTrap = FALSE
  /\ reader \in IF interactive THEN {"file", "terminal", "string"}
                ELSE {"file", "string"}
  /\ endOfFileReached = FALSE
  /\ mask = IF interactive THEN {SIGINT} ELSE {}
  /\ pending = {}
  /\ pc = "main"
  /\ site = "command"
  /\ savedMask = {}
  /\ next = 1
  /\ level = "list"
  /\ process = "main"
  /\ owed = {}

Input == BeginRead \/ CheckTraps \/ ReadByte \/ ReadLine \/ ReadEndOfFile
           \/ Interrupted \/ TerminalFailure \/ ReadString
Serving == StartAction \/ SkipSignal \/ ServeEnds
Lists == EndOfFile \/ EndOfAction \/ EndOfExitTrap \/ EndOfList
Commands == ExecuteCommand \/ ExecuteTraps \/ OrdinaryCommand \/ Exit \/ Trap
              \/ ForkSubshell \/ ForkMember \/ ForkUtility \/ ExecBuiltin
              \/ Execv \/ ExecuteScript
Shell == Input \/ Serving \/ Lists \/ Commands

\* The process has ended.
Terminated == Ended /\ UNCHANGED vars

Next == Shell \/ Send \/ Terminated

Spec == Init /\ [][Next]_vars

\* The shell goes on, its input arrives, and its trap actions end.
FairSpec == Spec /\ WF_vars(Shell) /\ SF_vars(EndOfAction \/ EndOfExitTrap)

(***************************************************************************)
(* Properties.                                                             *)
(***************************************************************************)

\* The types of the tables and of the control state: blockTraps never looks
\* beyond the last signal.
TypeOK ==
  /\ trapStates \in [Conditions -> States]
  /\ traps \in [Conditions -> Texts]
  /\ caughtSignals \subseteq Signals
  /\ trapsPending \in BOOLEAN
  /\ executingTrap \in BOOLEAN
  /\ executingExitTrap \in BOOLEAN
  /\ interactive \in BOOLEAN
  /\ reader \in {"file", "terminal", "string", "consumed"}
  /\ endOfFileReached \in BOOLEAN
  /\ handlers \in [Signals -> Handlers]
  /\ mask \subseteq Signals
  /\ pending \subseteq mask
  /\ pc \in Points
  /\ site \in {"main", "again", "line", "command"}
  /\ savedMask \subseteq Signals
  /\ next \in 1..LastSignal + 1
  /\ level \in {"list", "action", "exit"}
  /\ process \in {"main", "subshell", "substitution"}
  /\ owed \subseteq Signals

\* The kernel does with a signal what trap has been told last, or what was
\* found at the start: in children, too, where the trapped signals are reset
\* and the ignored ones are not (trap, resetTraps, resetSignals).
HandlersMatch ==
  ~Ended /\ pc # "utility" =>
    \A s \in Signals :
      LET state == trapStates[s] IN
      \/ handlers[s] = HandlerOf(s, state)
      \/ state = "ALWAYS_IGNORED" /\ s = SIGINT /\ handlers[s] = "sigintHandler"
      \/ state = "DEFAULT" /\ process # "main" /\ handlers[s] = "SIG_DFL"

\* A signal that has a handler is blocked except in the windows, so that
\* neither a command nor an action is ever interrupted.  (The commands of a
\* pipeline inherit sigintHandler if SIGINT was ignored when the interactive
\* shell was started, and resetSignals unblocks it.)
HandlersAreBlocked ==
  ~Ended /\ pc \notin Windows =>
    \A s \in Signals :
      \/ handlers[s] = "signalHandler"
      \/ handlers[s] = "sigintHandler" /\ process = "main"
      => s \in mask

\* A signal that was caught is remembered until blockTraps has come to it: it
\* cannot be missed between unblockTraps and blockTraps, nor while the actions
\* of other signals run, nor be forgotten by the sigemptyset afterwards.
NothingIsLost ==
  /\ owed \subseteq caughtSignals
  /\ owed # {} /\ ~Ended =>
       \/ trapsPending
       \/ /\ pc = "serve" \/ level \in {"action", "exit"}
          /\ \A s \in owed : next <= s

\* An action is started for a signal only if it was caught since its action
\* ran last, and is still trapped when its turn comes: other actions may have
\* reset or ignored it.
ActionsAreDue ==
  [][level = "list" /\ level' = "action" =>
       next \in owed /\ trapStates[next] = "TRAPPED"]_vars

\* A command starts only after the actions of all signals that were caught
\* before, except in an action.
CommandsFollowTraps ==
  pc = "command" /\ ~executingTrap => ~trapsPending /\ owed = {}

\* A signal that was ignored when the shell was started is neither trapped nor
\* reset, whatever trap is told, and neither is it in a child or in a script.
IgnoredStayIgnored ==
  [][\A s \in Signals :
       trapStates[s] = "ALWAYS_IGNORED" =>
         /\ trapStates'[s] = "ALWAYS_IGNORED"
         /\ handlers[s] = "SIG_IGN" => handlers'[s] = "SIG_IGN"]_vars

\* Once the EXIT trap has started, no other action does, neither in the
\* process nor in a child of it.
ExitTrapIsLast == [][executingExitTrap => level' # "action"]_vars

\* A caught signal's action is started, unless it was reset or the shell ends;
\* a signal that is sent to the shell while it is blocked is delivered.
SignalsAreServed ==
  \A s \in Signals :
    /\ s \in owed ~> (s \notin owed \/ Ended)
    /\ s \in pending /\ process = "main" ~> (s \notin pending \/ Ended)

\* A trapped signal leads to its action and does not end the shell: not while
\* the shell waits for input either.
TrapsDoNotEndTheShell == pc = "failed" => owed = {}

=============================================================================
