# A TLA+ model of dxsh

dxsh is a shell for the POSIX shell language: one sequential C program that
reads commands, parses them, expands words and executes the result, by itself
or in children it forks. This directory holds TLA+ modules for those parts of
it in which a mistake is hard to see and hard to test, the TLC configurations
that check them, and proofs that TLAPS checks.

A module is checked with `tlc -config X.cfg M` and a module of proofs with
`tlapm M.tla`. `PROJECT.json` lists the runs, the theorems, the lines of code
each definition stands for, and for each property a mutant: a plausible mistake
in the code that makes it fail.

## 1. The system

| Part | State | Operations | What is hard |
| --- | --- | --- | --- |
| **Executor** `execute.c`, `break.c`, `continue.c`, `return.c`, `exit.c`, `eval.c`, `dot.c` | the C stack; `loopCounter`, `numBreaks`, `numContinues`, `returning`, `returnStatus`, `lastStatus`, `arguments` | `execute`, `executeList`, `executePipeline`, `executeCommand`, `executeFunction`, one per compound command; the builtins | A pending break or return is a global that every caller of `executeList` has to look at. Functions, `eval`, trap actions and forks lie between the loops. |
| **Traps** `trap.c` | `traps`, `trapStates`, `caughtSignals`, `trapsPending`, `executingTrap`, `executingExitTrap`; the kernel's handlers, mask and pending signals | `trap`, `signalHandler`, `unblockTraps`, `blockTraps`, `executeTraps`, `executeTrapAction`, `executeExitTrap`, `resetTraps`, `resetSignals` | Handlers interrupt everything else. Actions run between any two commands and change the tables that `blockTraps` is walking over. |
| **Input** `dxsh.c`, `interactive.c` | the reader, `inputFd`, `endOfFileReached` | `readInputFromFile`, `readInputFromString`, `readCommandInteractive`, the loop of `main` | A signal between a test and `read`; `read` interrupted. |
| **Redirections** `execute.c`, `exec.c` | the descriptors, `savedFds` | `performRedirections`, `performRedirection`, `popRedirection`, `freeRedirections`, `getHereDocFd`, `moveFd` | The third of several redirections fails. The shell's own descriptors live in the same table as the script's. |
| **Pipelines, children** `execute.c` | `inputFd`, `pipeFds`, `pgidPipe`, the process group; the children | `executePipeline`, `executeAndRead`, `waitForCommand`, `resetSignals` | Several processes, with pipes that end only when all have closed them, and `wait` in any order. |
| **Variables** `variables.c`, `set.c`, `shift.c`, `export.c`, `unset.c`, `read.c` | the table of shell variables, the pushed ones, the environment | `getVariable`, `setVariable`, `pushVariable`, `popVariables`, `exportVariable`, `unsetVariable`, `initializeVariables` | Three places hold the value of one name. |
| **Functions** `execute.c`, `parser.c` | `functions`, their reference counts | `addFunction`, `executeFunction`, `unsetFunction`, `freeFunction` | A function may redefine or unset itself while it runs. |
| **Scripts** `dxsh.c` | every global of the program | `executeScript` | What is not reset is inherited. |
| **Tokenizer, parser** `tokenizer.c`, `parser.c` | the tokens, the nesting of quotes, the position | `splitTokens`, `parse` and one function per rule of the grammar | Lines arrive one at a time: at each point the input may be complete, wrong, or the beginning of a command. |
| **Expansion** `expand.c`, `match.c` | none | tilde, parameters, field splitting, path names, quote removal | A word is expanded into one string. Which parts of it came from an expansion is kept as offsets, and every later step moves them. |
| **Line editor, history** `interactive.c` | the edited line, the history, the position in it | keys, `addHistoryEntry`, `freeInteractive` | The buffer of a line that is recalled and edited goes from the history to the editor and back. |
| **Other builtins** `cd.c`, `command.c`, `umask.c`, `colon.c` | the working directory | | |
| **Helpers** `stringbuffer.c`, `compat/` | none | | |

How they interact. `main` calls the reader, the parser and `execute`, in a loop.
The reader opens the window for signals, and so does `executeCommand` before
every command; both end it with `blockTraps`, which calls `execute` again for
the actions. `executeCommand` performs redirections, expands words (which calls
`executeAndRead` for a command substitution and so forks), and pushes variables.
Children continue in a copy of all of this: `resetTraps` and `resetSignals` take
back what must not be inherited. A utility whose file `execv` refuses is
executed by `executeScript`, which jumps back to the beginning of `main` in the
same process. No threads exist; concurrency is that of signals and of processes.

What makes each part correct:

- Executor: break, continue and return leave exactly the loops and the function
  they name; nothing is executed on the way; the counters agree with the stack.
- Traps: no signal is lost; its action runs soon, between two commands and as
  the trap is at that moment; what was ignored at the start stays ignored; the
  EXIT trap runs once and last; children start with default handlers.
- Redirections: a command's redirections are undone when it ends, whatever has
  failed; the shell's own descriptors are neither leaked, lost, nor inherited.
- Pipelines: all commands run at the same time; the shell waits for each child
  and takes the status of the last; no process keeps another one's pipe open.
- Variables: a look-up finds the innermost value, and the value a command was
  given in front of it lasts for that command.
- Functions: a definition lives as long as a call of it does.
- Scripts: they begin like a new shell.
- Tokenizer, parser: exactly the commands of the grammar are executed, and more
  input is asked for exactly while a command is incomplete.
- Expansion: a word becomes the fields of the standard; what was quoted stays
  literal, and what an expansion gives is no quote.
- Line editor: what is on the screen is what the shell gets, and what the
  history gets; editing changes no other entry.

## 2. The modules

| Module | What it is | Code |
| --- | --- | --- |
| `Control` | the executor's activations and globals | `execute.c`, the builtins |
| `ControlProofs` | proofs about it | |
| `Traps` | traps, handlers, the readers, children | `trap.c`, `dxsh.c`, `execute.c` |
| `TrapsProofs` | proofs about it | |
| `RedirectionScopes` | what redirections promise: nested scopes | (abstract) |
| `Redirection` | `savedFds`, the copies and the descriptors | `execute.c`, `dxsh.c`, `exec.c` |
| `MCRedirection` | the symmetry of the files, for TLC | |
| `RedirectionProofs` | proofs about it | |
| `RedirectionRefinement` | proof that it implements the scopes | |
| `Pipeline` | the shell and the commands of a pipeline as processes | `execute.c`, `dxsh.c` |
| `PipelineProofs` | proofs about it | |
| `ShellVariables` | what variables promise: one value each, exported or not | (abstract) |
| `Variables` | the table, the pushed variables, the environment, as operators | `variables.c` |
| `FunctionTable` | definitions and their reference counts, as operators | `execute.c`, `parser.c` |
| `Definitions` | the commands that change these, nested in each other | `execute.c`, `dxsh.c`, the builtins |
| `MCDefinitions` | the names of the definitions, for TLC | |
| `DefinitionsProofs` | proofs that `Definitions` implements `ShellVariables`, and about the reference counts and what is pushed | |
| `LineEditor` | what the line editor promises: a list of lines and the one shown | (abstract) |
| `Editor` | the buffers of the lines, the keys, the history | `interactive.c`, `dxsh.c` |
| `MCEditor` | the symmetry of the characters, for TLC | |
| `EditorProofs` | proofs about it, and that it implements `LineEditor` | |
| `Parser` | the parser, as a recogniser | `parser.c` |
| `Grammar` | the grammar of POSIX, XCU 2.10, its reference | (abstract) |
| `Tokenizer` | the tokenizer | `tokenizer.c` |
| `Lexical` | the tokens of POSIX, XCU 2.3, its reference | (abstract) |
| `Words` | substitution into a word, quote removal | `expand.c` |
| `Patterns` | patterns, and the removal of what they match | `match.c` |
| `Expansion` | field splitting, path names, the whole of an expansion | `expand.c`, `match.c` |
| `Fields` | the fields of POSIX, XCU 2.6, their reference | (abstract) |
| `PatternWords` | the words that patterns are made of, and what patterns promise | |
| `PatternsProofs` | proof that they keep it | |
| `MCLanguage` | the inputs on which these are compared | |

`Parser` to `PatternsProofs` are algorithms. `Control`, `Traps`, `Redirection` and
`Definitions` follow one process, and a fork by following either
side: the parent, for which the child is some exit status, or the child, which
has a copy of everything (in `Definitions` this needs no action: whatever one
side does, the other may do too). `Pipeline` has all the processes, and of each
what it needs of the others. The parts share little: the trap actions that `Traps`
executes at particular moments can occur before any command in `Control`, the
descriptor of the script in `Redirection` is the one the readers in `Traps` read
from, which is a byte or none there, and a member of a pipeline in `Pipeline`
begins where `ForkPipeline` in `Control` and `ForkMember` in `Traps` do.

### Control

`stack` is the C stack, reduced to the functions that matter to the unwinding;
`pc` is where the innermost one is. The program is not given: at each point the
model chooses the next command, and whether a loop has another round. This is
right because `eval` and the variables make each round different, and it makes
every property one about all programs.

- `ReadCommand`, `SyntaxError` and `EndOfFile` are the rounds of `main`'s loop.
- `AfterPipeline` is the test of the flags in `executeList`.
- `ShBreak`, `ShContinue`, `ShReturn` set the flags, clamped as in the builtins.
- `Loop`, with its disjuncts `LoopReturns`, `LoopBreaks`, `LoopContinues`,
  `LoopProceeds`, are the tests after each list of `while`, `until` and `for`;
  `IfClause` and `CaseItem` those of the others.
- `Execute` is the end of `execute`, which clears `returning` for all callers.
- `RunTrapAction` is `blockTraps` with an action, `ExitShell` is `exitShell`.
- `Fork` and `ForkPipeline` are the children, which keep the stack and the flags.

`PROJECT.json` maps the rest.

### Traps

The variables of `trap.c` have its names. `handlers`, `mask` and `pending` are
the kernel's. `reader`, `endOfFileReached` and `interactive` are those of
`dxsh.c`. `savedMask` is the local variable of whoever called `unblockTraps`;
`next` is the index of the loop in `blockTraps`, and `site` where that returns
to. `owed` is history: the signals a handler has been called for and `blockTraps`
has not come to since.

`Send` is the environment: any signal at any time. A signal that is not blocked
is delivered in the same step; one that is blocked becomes pending and is
delivered by `UnblockTraps`. `BeginRead`, `CheckTraps`, `ReadByte`, `ReadLine`,
`ReadEndOfFile` and `Interrupted` are the readers; `StartAction`, `SkipSignal`
and `ServeEnds` the loop of `blockTraps`; `Trap` is the builtin; `ForkSubshell`,
`ForkMember`, `ForkUtility`, `ExecBuiltin`, `Execv` and `ExecuteScript` are the
ways to other programs. SIGINT stands for itself, the other signals for those an
interactive shell ignores.

### Redirection and RedirectionScopes

`table` is the process's descriptors. `savedFds` is the list of that name, its
head last. `frames` is what the loops over a command's redirections have in their
index: how many were performed. (`start` is history.)

`Obtained` is the first half of `performRedirection`: a new descriptor, which is
the lowest free one, whichever that is, or an existing one to be duplicated.
`RedirectUnsaved`, `RedirectSaved` and `SaveFails` are its second half;
`RedirectionFails` is a failure in the first. `PopRedirection` and `Undone` are
the loops over `popRedirection`. `ExecBuiltin` to `ExecEnds` are the redirections
of `exec`, which are not saved. `Fork`, `ForkUtility`, `Execv` and
`ExecuteScript` are what happens to the descriptors in children and scripts.

`RedirectionScopes` has neither a list nor copies: each command has a function
from the descriptors it has redirected to what they were outside, and leaving it
restores all of them in one step. `OpenScopes` and `Outside` in `Redirection` map
the one to the other: while a command undoes its redirections one by one its
scope has been left already, and what a pop restores for a moment (the middle
value, if a descriptor was redirected twice) does not count.

### Pipeline

`table` is each process's descriptors; a value is an end of a pipe, or a file.
`local` is the local variables of `executePipeline`, of which each child keeps
the copy it was forked with. `length`, `monitor` and `inputIsTerminal` are the
options that matter and do not change. `group` and `foreground` are the kernel's
process groups, of which there are two: the shell's, and that of the first
command.

The shell is `CreateGate`, `ForkCommand` (pipe and fork), then one of
`ParentOfFirst`, `ParentOfMiddle`, `ParentOfLast` for what the parent does after
each fork, `Spin` or another round of it (`SpinsOn`), `Release`,
`WaitForCommand` and `Wait`; `ForkUtility` is the
fork of a single utility in `executeExpandedCommand`, which shares
`waitForCommand`. A child is `Prepare` (`ForCommand` is the calls of `close` and
`moveFd`) or, if a `moveFd` fails, `PreparationFails`; `SetGroup`,
`TakeTerminal` and `PassGate`. After that the command
reads and writes as it likes: `ReadFromPipe`, `ReadsEnd`, `Write`, `WriteFails`
(SIGPIPE), `Stops` (SIGTTIN), `End`. It is right to leave the program open, for
the shell must work with each. `Writers` are the children that
`performRedirection` has forked for here-documents of earlier commands, which
nothing waits for.

### Variables, functions and the commands that change them

`Variables` and `FunctionTable` have one operator for each function of
`variables.c` and of the table of functions. `store` is the table, the
environment (`setenv`) and the pushed variables; `memory` has, of each place in
memory that a definition can take, its count and its owner: the list it was
parsed with, or the definition in whose body it stands. `Freed` is what the
recursion of `freeFunction` and `freeCommand` frees, as a least set.

`Definitions` is `execute` with what matters to these: `running` are the lists
and commands in each other. `BeginCommand` is the look-up of the command,
`Assign` one round of the loops over its assignments, `CallFunction` and
`EndFunction` are `executeFunction`; `Eval`, `CommandBuiltin`, `ReadVariable`,
`ExportVariable` and `Unset` the builtins; `AssignInPassing` is `${x=y}` and
`for`; `ExecuteScript` is the jump back to the beginning of `main`, which leaves
the calls that were on the C stack without an end (`abandoned`). As in `Control`,
what a list or a body does is chosen while it is executed, but the functions it
can define are those that were parsed with it.

`ShellVariables` knows values and a set of exported names. `Value` and
`Exported` in `Definitions` read both off the table and the environment.

### Editor and LineEditor

`editor` is the memory that the editor allocates, the history as a list of
pointers to it, and the local variables of `readCommandInteractive`. `new` and
`edited` are `newEntry` and `editedEntry`; `entry` is where the pointer of that
name points to, and being "edited" is `historyEdited`. Of a buffer the text is
kept, and the first byte of an empty line, which says whether it is one or the
end of the input. A place that no pointer leads to may be used again, so that a
leak is no error.

`BeginLine` is the beginning of a call; `AddCharacter`, `Backspace`, `DeleteKey`,
`Left`, `Right`, `Up`, `Down` and `Tab` the keys that do not end it, `Enter`,
`ControlD` and `ReadFails` those that do, with `Return` for the rest of the
function. `ExecuteScript` is `freeInteractive`.

`LineEditor` has texts for the lines and for what is on the screen, and no
buffers. `Tab` completes a recalled line in place, which it allows by name
(`Complete`).

### The language

Each algorithm is an operator that gives a result for an input; its reference
is written in another way. `Parser` has one operator per parse function, with an
offset for the current token, and results for a syntax error, for `NULL` from
`getToken`, and for a use of that `NULL`. `Grammar` computes, for each
construct and position, the set of positions where it can end, and knows no
position in advance. `Tokenizer` is the loop over the characters with the stack
of `enum TokenStatus`; `Lexical` is defined by recursion on what stands at a
position. `Words` substitutes into one string and keeps `struct
SubstitutionInfo` beside it; with these offsets `Words` removes quotes,
`Patterns` matches and `Expansion` splits. `Fields` marks each character with
what it came from instead. `Substituted`, `Scanned` and, in the reference,
`Reading` are the loops, as functions from the number of rounds to what the loop
has come to.

`MCLanguage` builds the inputs, one symbol per step, so that an input is a
state and the comparison an invariant. After a beginning of each compound
command the tokens are those which that command is about.

## 3. The runs

| Run | Expect | Shows |
| --- | --- | --- |
| `Control` | pass | Programs without `;&` and without trap actions. A pending break or continue has its loops, and only one is pending (`PendingAddsUp`); its target does not move (`TargetIsFixed`); nothing starts on the way (`NothingStartsWhileUnwinding`) and it arrives (`UnwindingEnds`). |
| `ControlAll` | pass | All programs. The counters (`LoopsCounted`) and the positional parameters (`ArgumentsOfInnermostCall`) are right and trap actions do not nest (`TrapActionsDoNotNest`). |
| `ControlFallthrough` | violation | After a `return` in an item that falls through, the next item's loop leaves its break pending outside of all loops. |
| `Traps` | pass | Nothing is lost (`NothingIsLost`), actions come before the next command (`CommandsFollowTraps`), handlers agree with the table (`HandlersMatch`) and are blocked outside the windows (`HandlersAreBlocked`), the EXIT trap is last; caught signals are served and pending ones are delivered (`SignalsAreServed`). |
| `TrapsAll` | pass | With a terminal that fails and with scripts: ignored signals stay ignored (`IgnoredStayIgnored`), and actions are due when they start (`ActionsAreDue`). |
| `TrapsRead` | violation | A trapped signal ends a shell that is waiting for input from a file. |
| `Redirection` | pass | Nothing leaks, the script's descriptor is intact, utilities inherit none of the shell's, pops are balanced, and the list implements scopes. |
| `Pipeline` | pass | A command runs with its own ends of its two pipes and with no others, and the shell keeps none (`PipesConnect`); with job control the first command starts when the group is complete and has the terminal while the shell waits for the last (`GroupIsReady`); all are waited for (`CommandsHaveEnded`), the status is the last one's (`StatusIsTheLast`), and nobody waits for ever unless a command is stopped or the first one ended before `setpgid` (`PipelineEnds`). |
| `PipelineWait` | violation | With a here-document before it, the shell does not wait for a command of the pipeline. |
| `Definitions` | pass | The table and the environment together are the variables of a shell (`VariablesAreKept`); what is pushed belongs to commands that are executed (`TemporariesBelongToCommands`); a definition has as many references as there are (`ReferencesAreCounted`), so it is not freed while it is executed, and freed afterwards. |
| `Editor` | pass | The keys in any order: no buffer is shared or freed while it is used (`BuffersAreOwned`), and the buffers implement `LineEditor`: what is returned and added to the history is what is on the screen, and other entries stay (`EditsLines`). |
| `Language` | pass | The parser follows the grammar and asks for input when it has to (`ParserFollowsGrammar`); the tokens are the words (`TokensAreTheWords`); a word becomes the fields of the standard (`FieldsAreTheStandards`); quotes of a pattern make its characters literal and no others do, and `#`, `##`, `%` and `%%` remove what they should (`PatternsMatchAsWritten`). |

### Bounds

- `MaxDepth = 4` activations in `Control`. The hazards need a loop, something
  between it and the next (a function, an `eval`, a `case`, a child), another
  loop, and the activation of `main` below. `MaxOperand` is 3 or 2: more loops
  than there can be, so that the clamping matters.
- `LastSignal = 2` in `Traps`: one signal whose action changes the other's trap,
  before and after it in the loop. The C program has NSIG\_MAX.
- `Base = 2` in `Redirection`, 10 in C: standard input and output, which pipes
  replace. `LastFd = 3`: two descriptors for the shell, so that the script's and
  one copy fill the table and the next copy fails, and without a script file two
  copies fit. `MaxSaved = 3`: a descriptor redirected twice in one command, and
  another one in the command around it. `MaxDepth = 2` commands. Two `Files`,
  which are interchangeable.
- `MaxCommands = 3` in `Pipeline`: a first command, one in the middle, a last
  one, which are the three cases of the code. (With four, and one write each, it
  holds as well: 377679 states.) `LastFd = 5`: standard input and output, the
  gate, and both ends of a pipe before its first command is forked; later the
  gate's writing end, the input of the next command, and a new pipe. More
  commands need no more descriptors. `Capacity = 1` and
  `MaxWrites = 2`: a command fills its pipe and has to wait. `NotOpen = {0}`:
  the shell may be started without standard input.
- `MaxDepth = 4` in `Definitions`: a list, a function, a command in it, and a
  list of `eval` or a function within that. Two definitions of one function: one
  redefines the other while it is executed, in each nesting of their bodies.
  (Three definitions of two functions hold as well: 3.5 million states.) One
  assignment in front of each command, two names, of which the shell sets one.
- `Editor`: two entries, the last and one before it, which the code treats
  differently; four characters in all lines together, so that a line of two can be
  edited in its middle, beside the copy that the history keeps; two characters, which are
  interchangeable. Four `Buffers`: two entries, the new line and the edited one.
- `Language` has sequences of up to 9 tokens, words of up to 4 elements, and
  texts of up to 5 characters; here-documents begin with one or two operators
  and go on for some characters. All that the algorithms count is a position,
  a level of nesting or the offset of a neighbour, and two of each occur. `Ifs`
  is a blank and a colon: one that is white space and one that is not. The
  `Strings` from which something is removed are one that begins with a character
  that is special in patterns, and one in which a shorter and a longer part at
  either end match. Two
  exceptions are excluded by name: `KnownDifference` are the texts which the
  tokenizer is known to split otherwise, and `KnownSplit` the words whose fields
  are not those of the standard; section 5 has both. Patterns are compared if
  `QuotesAreKnown`: no expansion gives several values, and there is one
  expansion or none gives a quote. Everything beside these is compared.
- The theorems of section 4 hold for any value of these; `MaxDepth` and
  `MaxSaved` remain as guards, of whatever value.

### Fairness

- `Control`: `WF_vars(Next)`, since the executor is sequential code that never
  waits within the model. It matters for `UnwindingEnds`, whose leads-to says
  that a loop is reached, not that a program ends.
- `Traps`: `WF_vars(Shell)` is the same; it includes that input arrives, since
  `read` returns in a step of the shell. `SF_vars(EndOfAction \/ EndOfExitTrap)`
  says that trap actions end: one that loops for ever delays all others, which
  is the script's doing. Signals need not arrive. Without the second, an action
  could go on executing commands; it is strong because in between each command
  the end is disabled.
- `Pipeline`: weak fairness of the shell and of each child: the system runs each
  process that can go on. A command that reads from a pipe or writes to one
  comes to do so. That `pipe`, `fork` or `moveFd` fails and that a stopped
  command is continued has no fairness. A command that never ends makes no pipeline end;
  here each reads to the end of its input and writes a bounded number of times.
- `Redirection`, `Definitions`, `Editor`, `Language` and the violation runs check
  safety and need none.

### Deadlock

It is checked in all runs but `Language`, whose inputs have a greatest length; a
process that has ended stutters in an action of its own (`Exited`,
`Terminated`, `Over`), and so does a shell that spins (`SpinsOn`).

## 4. What is proved

For every value of the constants, from the assumptions named in the modules:

| Theorem | Says | Under |
| --- | --- | --- |
| `ControlProofs!TypeCorrect` | types: a status is always 0 or 1 | |
| `ControlProofs!LoopsAreCounted` | `loopCounter` is the number of loops on the stack | |
| `ControlProofs!PendingIsConsistent` | `PendingAddsUp`: a pending break or continue has its loops; one is pending | no `;&`, no trap actions |
| `ControlProofs!NothingIsExecutedWhileUnwinding` | nothing starts on the way | the same |
| `ControlProofs!TargetsAreFixed` | `TargetIsFixed`: the loop it leads to stays the same | the same |
| `ControlProofs!ArgumentsAreTheCalls` | the parameters are those of the innermost call | |
| `ControlProofs!OneTrapActionAtATime` | `TrapActionsDoNotNest`: only the EXIT trap interrupts an action | |
| `TrapsProofs!TrapsTypeCorrect` | types; `next` stays in the table | |
| `TrapsProofs!TrapsIgnoredStayIgnored` | ignored at the start, ignored for ever | |
| `TrapsProofs!TrapsActionsAreDue` | actions start for owed and trapped signals | |
| `TrapsProofs!TrapsExitTrapIsLast` | no action after the EXIT trap | no scripts |
| `TrapsProofs!TrapsHandlersMatch` | handlers are what the tables say | no scripts |
| `TrapsProofs!TrapsHandlersAreBlocked` | handlers run in the windows only | no scripts, no failing terminal |
| `TrapsProofs!TrapsNothingIsLost` | a caught signal is remembered | the same |
| `TrapsProofs!TrapsCommandsFollowTraps` | commands start with no signal owed | the same |
| `RedirectionProofs!RedirectionTypeCorrect` | types; the shell's descriptors are never named | |
| `RedirectionProofs!RedirectionLeaksNothing` | its open descriptors are the copies and the script's | |
| `RedirectionProofs!RedirectionKeepsInput` | the script's descriptor is intact | |
| `RedirectionProofs!RedirectionUtilitiesInheritLow` | utilities inherit none | |
| `RedirectionProofs!RedirectionPopsAreBalanced` | pops and pushes agree | |
| `RedirectionRefinement!RedirectionImplementsScopes` | the list implements scopes | |
| `PipelineProofs!TypeCorrect` | types, those of the copies of the local variables too | |
| `PipelineProofs!StatusIsLast` | the status is that of the last command | |
| `PipelineProofs!CommandsEnd` | `CommandsHaveEnded`: all commands are waited for | `HereDocuments = 0` |
| `PipelineProofs!PipesAreConnected` | each process has the ends it needs and no others | 1 is open |
| `PipelineProofs!FirstCommandRunsLast` | `GroupIsReady`: the first command runs in a complete group that has the terminal | 1 is open |
| `DefinitionsProofs!DefinitionsKeepVariables` | table and environment implement `ShellVariables` | |
| `DefinitionsProofs!DefinitionsTypeCorrect` | types: no count becomes negative | |
| `DefinitionsProofs!DefinitionsCountReferences` | each definition has as many references as it counts | |
| `DefinitionsProofs!DefinitionsDropTemporaries` | what is pushed belongs to commands that are executed | |
| `EditorProofs!TypeCorrect` | types: the cursor stays in the line | |
| `EditorProofs!LinesOwnTheirBuffers` | no line shares a buffer, none is freed too early | |
| `EditorProofs!EditorImplementsLines` | the buffers implement `LineEditor` | |
| `PatternsProofs!PatternsMatch` | `PatternsMatchAsWritten`, for words of any length over any characters, and values of any length | |

So every invariant and every refinement that a run checks is proved, but for
three invariants of `Language`. None of the hypotheses in the last column can be left out: TLC
finds a counterexample without it, for `CommandsEnd` the one of the run
`PipelineWait`, for the two after it with `NotOpen = {1}`; for
`TrapsHandlersMatch` it is a script, which begins with the handlers of the shell
that executes it, and for `TargetsAreFixed` a `;&` that goes on with another
clause, or an action that ends in `break`.

The assumptions about the constants are those of the code. `ValuesAssumption` of
`Pipeline` says that a file is not an end of a pipe, `NamesAssumption` of `Editor`
that what a call returns other than a line is no line. `MemoryAssumption` of
`Editor` is that `malloc` finds room for the history, a new and an edited line: the
shell ends at once where it fails. The theorems about `Pipeline` are for any
number of commands, descriptors and writes, those about `Editor` for any number
of lines and characters.

The arguments.

*Control.* The invariants the runs check are not inductive: after a loop is left
`loopCounter` has to be compared with a stack of which nothing is known. `IInv`
adds the shape of the stack (`StackOK`: which kinds of activation there are, that
the innermost one belongs to `pc`, that the outermost is `execute`). `Depth`, the
number of loops, changes by one for each loop entered or left, which needs the
facts about the cardinality of finite sets. For the unwinding, `Quiet` adds that
while something is pending the program is between the end of a list and the next
test of the flags; this fails with `;&`, and with actions that end in `break`. The same invariant
gives `TargetIsFixed`, step by step. For `ArgumentsOfInnermostCall`,
`CallsOK` adds that each function has saved the parameters of the call around it,
so that they are right again when it returns. For `TrapActionsDoNotNest`,
`ActionsOK` adds that `executingTrap` is set as long as an action is on the
stack, that only an activation of `execute` is one, and that the EXIT action is
further in.

*Traps.* `IInv` has five parts: the types and the empty mask in the windows
(`TInv`); which flags are set at which points (`NestInv`), so that windows and
actions do not nest; that each signal with a handler is in the mask or, in a
window, in the mask to be restored (`BlockedInv`); which entries of the tables
go together (`TableInv`); and where a caught signal waits: in `caughtSignals`
with `trapsPending` set, or ahead of the loop's index (`CaughtInv`).
The terminal's failure leaves the traps unblocked, and a script inherits the
flags; with either, some of the parts do not hold, and neither do the theorems.
`HandlersMatch` needs the types only: what it says of a child, which resets the
handlers of what is trapped and of nothing else, is inductive as it is.

That actions are due holds in every shell, for which `DueInv` says less: what was
caught and is not behind the loop's index is owed, wherever `blockTraps` may
still come to it. A child copies `caughtSignals` but owes nothing; until it has
served these it can set no trap, so that they start no action. A script begins with
nothing caught, and its flags, which may be those of the shell that executed it,
decide only when actions start.

*Redirection.* `NothingLeaks` and `InputIntact` are inductive together with the
types and with `Own`: the open descriptors at `Base` and above are the copies
and the script's, the copies are distinct, and all are marked close-on-exec.
`Balance` says where the entries of each command begin. That a redirection does
not hit one of these follows from its names being below `Base` and the copies
being made from free ones.

*The refinement.* `RInv` adds `Within`: the entries of different commands do not
overlap. A scope is determined by the first entry of each name, since pops are
made in reverse order and the first one's is the last word. A least index
exists because the natural numbers are well-founded. The lemmas `ScopeSame` and `ScopeExtended` say what
a step can do to one scope; one lemma per action then gives the step of
`RedirectionScopes` or a stutter.

*Pipelines.* Four invariants build on each other. `TInv` has the types and says
where each process may be: which commands have been forked (`ForkedOK`), and
which of the local variables have been set at each point of the loop
(`Assigned`), for a child those of the copy it was forked with. That the status
is the last one's is part of it, since the shell waits for that one by its pid.
`ReapedOK` counts the calls of `wait` after it; without a writer of a
here-document each has taken a command, so when there have been as many as there
are other commands none is left. `TableInv` says of each process which
descriptor has which end, and that no other has one: the shell's by the local
variables of `executePipeline` (`Holding`), a child's by them until it has moved
its pipes, afterwards by 0 and 1. A descriptor that `pipe` returns was closed, and
it is the least such one: therefore 1 is never the end of a pipe before it is made
the output, and this is where descriptor 1 has to be open. That there is a least
one is the second use of well-foundedness. `GroupInv` has the order: a command
is in the group when the loop has passed it, the gate's last writing end is
closed after the loop, and the first command reads the end of the gate's input
only then. For this `TableInv` is needed: as long as the shell or another command
has the writing end, the first one waits.

*Variables.* A value is in the environment exactly if the entry of its name in
the table is `Null`, and an environment variable has such an entry: this, with
the types, is the invariant (`StoreOK`). One lemma per operator of `Variables`
says what becomes of the two parts and of what they stand for; one lemma per
action of `Definitions` gives the step of `ShellVariables` or a stutter.

*Functions.* What a definition counts are its owner, the table and the calls. An
operator that drops references may free definitions, which drops those of what
is defined in their bodies, and so on. `Freed` is the least set closed under
that, and the two halves of this are the lemmas `FreedIsClosed` (no definition
without references survives) and `FreedIsLeast` (each that is freed has lost as
many as it had). From them, `DropCounts` says that the counts stay right for the
references that are dropped, and so do lemmas for each operator of
`FunctionTable`. No induction over the nesting is needed. The invariant adds
that only frames of functions have a definition, so that the calls of the frames
are the references that `executeFunction` holds; a script that cuts them off
leaves their references behind.

*What is pushed.* The assignments of the commands that are executed are a set of
pairs, a place on the stack and a number. A step keeps each frame of a function
or a builtin and its number (`Remain`), and then the set only grows, by one if an
assignment is pushed; or it ends such a command, and then all that was pushed is
dropped. `AllMade` adds that no
command makes more than stand in front of it, and that a list, which is started at
once, makes none.

*The line editor.* `EInv` says that the buffers of the history, of the new line
and of the edited one are different (`Separate`) and not free (`Written`), that
`newEntry` is what is edited exactly if the position is at the end of the
history, and that the cursor is in the line; between two calls that the
history's are not free. With a script nothing is said of the buffers, since
`freeInteractive` frees them and leaves the pointers. Each operation is then described by what it does to the texts, for
which the buffers no longer matter: a lemma for each says that one text becomes
another and the others stay. The refinement is action by action: `BeginLine` is
`Prompt`, `AddCharacter` `Type`, `Backspace` and `DeleteKey` are `Erase` or
`Touch`, `Left` and `Right` `Move`, `Up` and `Down` `Recall`, `Tab` is
`Complete`, and `Enter`, `ControlD` and `ReadFails` are `Return`;
`ExecuteScript` is `Forget`. The longest part is `Return`: what is returned may be a
copy of a recalled line, which stays as it was, and a line that repeats the last
one is not added but freed.

*Patterns.* The theorem is about an algorithm, so that its induction is over the
input and not over steps. A loop is a recursive function, which in TLA+ is a choice: that it
satisfies its equation has to be proved, by giving a function that does.
`Recursion` does this for any loop with a state of some type, and `SubstitutedIs`,
`ScannedIs`, `ReadingIs` and `CharactersRun` for those of this system. The
induction itself (`UpTo`) is by the least number that is an exception, once more
well-foundedness. A round of `doSubstitutions` appends to the text and to the
list of substitutions and leaves the rest (`RoundExtends`, `LastExtends`), so
that what it has written is found in the whole text, a character of the word
outside all substitutions and one of a value inside of one (`RoundInText`). The invariant
is `InStep`: with the text that an element of the word has become, `nextChar` has
read the same characters as the reference and is in the same quotes. A backslash
is read with the character behind it, which says whether it is one; between the
two the invariant speaks of the place in front of it. The search for the
substitution is where the code goes wrong with several of them: `SubstAtIs` says
what remains, that it finds one that ends behind the character or none, and with
a single one the right one. For words with more, in which no expansion gives a
quote, this is enough: a character of the word that is outside of all
substitutions is never found in one, and a character of a value stays whatever is
found. `StripIs` gives the order in which `stripPrefixSuffix` tries the parts,
for each of its four ways to count; what `fnmatch` answers does not matter. The
theorem speaks of an `input` made of `WordElements`, as all words of `MCLanguage` are,
and of values over the same characters.

Only model-checked: the three liveness properties (`UnwindingEnds`,
`SignalsAreServed`, `PipelineEnds`), which need fairness and `ENABLED`; and
`ParserFollowsGrammar`, `TokensAreTheWords` and `FieldsAreTheStandards`. The
parser and its grammar, the tokenizer and its reference, and the splitting of an
expansion are `RECURSIVE` operators, about which nothing can be proved with these provers; and
a theorem about the first would have to prove a parser of several functions
against a grammar. The runs that end in a violation are about properties that do
not hold.

## 5. Findings

1. With `;&`, a `return` in an item that is fallen into does not keep the next
   item from being executed. A loop in that one whose list does `break` is left
   because of the `return`, and its `break` stays pending outside of all loops:
   `case a in a) ;& b) return ;& c) for i in 1; do break; done;; esac`. Every
   list ends after its first command from then on (`execute.c:487`, run
   `ControlFallthrough`).
2. A trapped signal that arrives while a shell waits in `read` for commands that
   it takes from a file (`readInputFromFile`) ends the shell with an error
   (`dxsh.c:403`, run `TrapsRead`).
3. `wait` takes any child. The writer of an earlier command's here-document, if
   nothing has waited for it, is counted as a command of the pipeline, and the
   shell goes on while one still runs: `: <<EOF` and then `sleep 2 | true`
   (`execute.c:243`, run `PipelineWait`).

What the code also does, of which no run is made: where the repository does not
say otherwise or has a TODO, or what the models leave out or except by name. The
executor, traps, redirections and pipelines:

- `return` in `eval` in a function ends the `eval` and not the function
  (`execute.c:84`); `test/builtins.sh:344` has a TODO about it.
- A `( )` list and the commands of a pipeline end with `exit`, so that an EXIT
  trap set in them is not executed; a command substitution's is.
- A child forked by an action keeps `executingTrap`: it never executes actions,
  and in a child of the EXIT trap an EXIT trap of its own is not executed.
- `exec` starts the program with the trapped signals blocked.
- An interactive shell started with SIGINT ignored leaves `sigintHandler`
  installed and unblocked in the commands of its pipelines.
- When reading the terminal fails the traps stay unblocked, and an old `errno`
  can be taken for an interruption for ever.
- A function whose redirection fails ends the shell (`_Exit` in
  `executeExpandedCommand`), without its EXIT trap.
- `1>&1` saves nothing: what `exec` does to descriptor 1 within that command
  stays.
- A script that is executed in the same process inherits the traps of its parent,
  lists them and executes the EXIT trap, against the comment at `dxsh.c:187`,
  "Reset all global state". (`Traps` has it, in `ExecuteScript`.)
- A script that is executed within a loop starts with `loopCounter` above 0.
- In `cat | true` with job control the shell takes the terminal back when `true`
  ends. `cat` is stopped when it reads, and the shell waits for it for ever:
  this is the first case that `PipelineEnds` excepts.
- With job control, a first command whose `moveFd` fails ends before `setpgid`
  (`execute.c:186`). The parent, which waits for its group in the loop over
  `getpgid` (`execute.c:221`), never leaves that loop. This is the second case
  that `PipelineEnds` excepts, by name: `SpinsForEver`. Other commands that fail
  so only end early, with a status that is not 0.
- The first command gives itself the terminal. If the last one ends before, the
  shell takes it back first, and is left in the background. The commands other
  than the first need not wait for it, so that `GroupIsReady` speaks of the
  terminal only until the shell stops waiting for the last.
- Without standard input, each pipeline fails the assertion at `execute.c:228`
  (`AssertionFails`). Without standard output, and with job control, the first
  command moves its pipe over the descriptor of the gate: it runs without
  waiting and then without standard output. (`PipesConnect` fails with
  `NotOpen = {1}`.)
- `trap '' SIG` does not ignore the signal where `strtol` reports no error for
  the empty string, as with glibc: the empty string is taken for the first of
  the conditions. `test/builtins.sh:414` has a TODO about it. `Traps` has the
  behaviour of the systems that report one.

The line editor:

- While a recalled line is edited the history has a copy of it that does not end
  in a newline. If what is entered is the same after all, that copy is what the
  parser gets: after `echo x`, the up arrow, a letter, backspace and Enter, the
  shell reads on and takes the next line for the rest of this one
  (`interactive.c:337`).
- `executeScript` frees the history and keeps its pointers. A script without `#!`
  that an interactive shell executes, and that executes another such script,
  frees it again: the process crashes, with the status 139 (`dxsh.c:190`; the
  phase "crashed" of `Editor`, which `BuffersAreOwned` excepts).
- A completion of a recalled line changes the history at once (`interactive.c:157`).
- `editedEntry`'s buffer leaks if the line is empty or repeats the last one.
- If the last entry has been emptied, its first byte decides whether an empty line
  is the end of the input (`interactive.c:259`).
- On a terminal with 0 columns the first prompt divides by zero.

Variables and functions:

- `popVariables` drops all that is pushed. In `x=1 f`, the first command of `f`
  that ends takes `x` with it (`variables.c:135`).
- Of two pushed variables of one name the outer one is found: `x=1 x=2 f` and
  nested calls see the first value (`variables.c:82`).
- Pushed variables are not exported to the utilities that a function executes;
  `x=1 command env` and `x=1 exec env` do not show `x` either.
- Unsetting a variable leaves the pushed ones, which are then found.

The parser, as `Parser` has it:

- Input that ends after `a |` and newlines is a use of a NULL token
  (`parser.c:324`); `ParserFollowsGrammar` says that this is the only such place.
- `;&` after a newline or a `;` is an error (it is not in
  `isCompoundListTerminator`, `parser.c:102`). `! !`, `( esac )` and a `;` after
  a newline in `for` are not.
- With the end of the input instead of a newline, an operator that cannot follow
  ends the command, which is executed: `dxsh -c 'echo a)'`.
- There are no asynchronous lists: `&` is an error (TODO in `parser.c:238`).

The tokenizer (`KnownDifference`):

- `\#` at the beginning of a word begins a comment (`tokenizer.c:278`); `$$` and
  `$` with an escaped character, followed by `{`, begin an expansion; an operator
  is not continued after a backslash and a newline.
- A here-document whose line is the last and has no newline is waited for
  without end: `dxsh -c 'cat <<a'`.

Expansion (`KnownSplit`, and the restrictions in the invariants):

- Unquoted expansions that are adjacent are split wrongly where one ends and the
  other begins with characters of IFS. Unquoted `$@` and `$*` with several
  arguments keep empty fields.
- `"$@"` with several arguments and a quote behind it in the word leaves a quote
  in the result, as each field begins outside of quotes. `"$@"$x` with neither
  is one empty field.
- In a pattern with several expansions, quotes which the second gives are taken
  for quotes of the word (`match.c:55`), against the comment in `expand.c:617`.
- `${x%y}` with `x` unset uses NULL as a string (`match.c:307`); `${x-'}'}` ends
  at the first brace (`expand.c:313`); a pattern `[[.a` that does not end is
  searched for ever (`match.c:137`). These forms are not in the model.

## 6. What is abstracted, and not modelled

In `Control` to `Definitions`: the text of words, assignments and file names, the
expansion of words (it may fail, and it may fork), messages, memory. A status is
zero or not. `open` succeeds or fails, whatever its flags (`noclobber` is one
way to fail). The caller of the shell leaves nothing open at `Base` and above.
Handlers are atomic. A signal whose handler runs before `read` or `waitpid`
does not interrupt it, and one that runs within does; `Traps` has both. Job
control is that of an interactive shell's handlers only.

In `Variables`: the order of the table, which only `export` and `set` show, and
the special parameters. In `Definitions`: positional parameters (`set` and
`shift`; those of calls are in `Control`), and redirections, which are in
`Redirection`. In `Parser`: the syntax tree and the texts of tokens; nothing is
decided by them. In `Tokenizer`: `(` after `$`, for which it calls the parser
(`ParseCommandSubstitution` is compared by itself), and `<<-`. In `Words`: tildes,
what a command substitution gives (a value like others), arithmetic, and
`${x op word}` but for the removal of prefixes and suffixes. In `Patterns`:
bracket expressions (`isInBrackets`). `fnmatch` and `glob` are the C library's. In `Editor`: the
sizes of the buffers, which grow before they are full, what is behind the text,
escape sequences that are
no keys, and what is completed.

Not modelled, and not planned: the choice of completions and drawing, `umask`,
the string buffer, the tables of signal names.

## 7. The plan

Done, in this order:

1. `Control`, with proofs. All other parts run within it.
2. `Traps`, with proofs: the part with the interleavings.
3. `RedirectionScopes` and `Redirection`, with proofs and the refinement: the
   part with the failures.
4. `Pipeline`, with proofs: the part with the processes.
5. `ShellVariables` and `Variables`, with the proof of the refinement;
   `FunctionTable`, with proofs; `Definitions`, in which both are used.
6. `Grammar` and `Parser`, `Lexical` and `Tokenizer`, `Fields`, `Words`,
   `Patterns` and `Expansion`.
7. `LineEditor` and `Editor`, with proofs and the refinement.
8. `PatternsProofs`: the theorem about patterns.

Left:

9. In `Words`: `${x op word}`, in which a word is expanded within a word.
10. `executeAndRead`, the pipe of a command substitution, and the writer of the
   here-document of a command that is still running.
11. `executeScript` for the globals beyond traps, descriptors, variables,
    functions and the history.
12. `getNewLogicalPwd`.
