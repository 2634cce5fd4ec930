------------------------------ MODULE Pipeline ------------------------------
(***************************************************************************)
(* A pipeline (executePipeline), or a single utility                       *)
(* (executeExpandedCommand): the shell and the commands as processes, the  *)
(* pipes between them, the process group and the terminal.                 *)
(*                                                                         *)
(* A command reads and writes as it likes.  It goes on reading until the   *)
(* end of its input at most, and writes a bounded number of times.         *)
(***************************************************************************)
EXTENDS Integers, FiniteSets

CONSTANTS
  MaxCommands,     \* Bound: the commands of the pipeline.
  LastFd,          \* Bound: the largest descriptor.
  MaxWrites,       \* Bound: the writes of a command.
  Capacity,        \* Bound: the writes a pipe holds.
  HereDocuments,   \* Bound: the writers of here-documents of earlier commands.
  NotOpen,         \* Which of 0 and 1 may be closed when the shell is started.
  File, Closed

ASSUME PipelineAssumption ==
  /\ MaxCommands \in Nat \ {0}
  /\ LastFd \in Nat \ {0}
  /\ MaxWrites \in Nat
  /\ Capacity \in Nat \ {0}
  /\ HereDocuments \in Nat
  /\ NotOpen \subseteq {0, 1}
  /\ File # Closed

Shell == 0
Commands == 1..MaxCommands
Writers == MaxCommands + 1..MaxCommands + HereDocuments
Children == Commands \cup Writers
Processes == {Shell} \cup Children

(***************************************************************************)
(* Pipe k leads from command k to the next one; the gate is pgidPipe.      *)
(***************************************************************************)
Gate == 0
Pipes == 0..MaxCommands - 1
ReadEnd(pipe) == << "read", pipe >>
WriteEnd(pipe) == << "write", pipe >>
Ends == {"read", "write"} \X Pipes

Fds == 0..LastFd
Values == Ends \cup {File, Closed}

ASSUME ValuesAssumption == {File, Closed} \cap ({"read", "write"} \X Nat) = {}

VARIABLES
  length,           \* pipeline->numCommands
  monitor,          \* shellOptions.monitor
  inputIsTerminal,
  table,            \* The descriptors of each process.
  content,          \* The writes that are in each pipe.
  local,            \* The local variables of executePipeline; a child has a
                    \* copy of what they were at its fork.
  group,            \* The process groups, and
  foreground,       \* the one that may read the terminal.
  written,          \* How often each command has written.
  status,           \* The status each command ends with.
  result,           \* exitStatus
  waited,           \* The loop index j: how often wait was called.
  pc

options == << length, monitor, inputIsTerminal >>
groups == << group, foreground >>
outcome == << status, result, waited >>
vars == << options, table, content, local, groups, written, outcome, pc >>

(***************************************************************************)
(* The shell: "start"; "loop": before the pipe and the fork of the next    *)
(* command; "forked": after them; "spin": in the loop over getpgid;        *)
(* "release": before the gate is closed; "wait": in waitForCommand;        *)
(* "reap": in the loop over wait; "done"; err ("failed") or an assertion   *)
(* ("aborted") ends it.                                                    *)
(*                                                                         *)
(* A child: "none" before its fork; "prepare": moves its descriptors;      *)
(* "group": setpgid; "foreground": tcsetpgrp; "gate": waits for the        *)
(* others; "read", "write", "end": what the command does next; "stopped":  *)
(* by SIGTTIN; "ended", and "reaped" when it was waited for.               *)
(***************************************************************************)
Running == {"read", "write", "end", "stopped"}
Gone == {"ended", "reaped"}
Points == {"start", "loop", "forked", "spin", "release", "wait", "reap",
           "done", "failed", "aborted", "none", "prepare", "group",
           "foreground", "gate"} \cup Running \cup Gone

Members == 1..length
Current == local[Shell].i
First == Current = 1
Last == Current = length

Goto(p, point) == pc' = [pc EXCEPT ![p] = point]

(***************************************************************************)
(* Descriptors.                                                            *)
(***************************************************************************)
Lowest(S) == CHOOSE fd \in S : \A other \in S : fd <= other
Free(t) == {fd \in Fds : t[fd] = Closed}

\* The descriptors pipe gets.
NewPipe(t) ==
  LET fd == Lowest(Free(t)) IN << fd, Lowest(Free(t) \ {fd}) >>
WithPipe(t, fds, pipe) ==
  [t EXCEPT ![fds[1]] = ReadEnd(pipe), ![fds[2]] = WriteEnd(pipe)]

Without(t, closing) == [fd \in Fds |-> IF fd \in closing THEN Closed ELSE t[fd]]
AllClosed == [fd \in Fds |-> Closed]

\* moveFd.
Moved(t, old, new) ==
  [fd \in Fds |-> IF fd = new THEN t[old] ELSE IF fd = old THEN Closed ELSE t[fd]]

Holders(end) == {p \in Processes : \E fd \in Fds : table[p][fd] = end}

(***************************************************************************)
(* The shell.                                                              *)
(***************************************************************************)
CanPipe == Cardinality(Free(table[Shell])) >= 2

\* A single utility.
ForkUtility ==
  /\ pc[Shell] = "start" /\ length = 1
  /\ table' = [table EXCEPT ![1] = table[Shell]]
  /\ pc' = [pc EXCEPT ![Shell] = "wait", ![1] = "group"]
  /\ UNCHANGED << options, content, local, groups, written, outcome >>

CreateGate ==
  /\ pc[Shell] = "start" /\ length > 1
  /\ IF monitor
       THEN /\ CanPipe
            /\ LET fds == NewPipe(table[Shell]) IN
                 /\ table' = [table EXCEPT ![Shell] = WithPipe(@, fds, Gate)]
                 /\ local' = [local EXCEPT ![Shell].pgidPipe = fds]
       ELSE UNCHANGED << table, local >>
  /\ Goto(Shell, "loop")
  /\ UNCHANGED << options, content, groups, written, outcome >>

\* The child has copies of the descriptors and of the variables.
ForkCommand ==
  /\ pc[Shell] = "loop"
  /\ Last \/ CanPipe
  /\ LET fds == IF Last THEN local[Shell].pipeFds ELSE NewPipe(table[Shell])
         open == IF Last THEN table[Shell]
                 ELSE WithPipe(table[Shell], fds, Current)
         now == [local[Shell] EXCEPT !.pipeFds = fds]
     IN  /\ table' = [table EXCEPT ![Shell] = open, ![Current] = open]
         /\ local' = [local EXCEPT ![Shell] = now, ![Current] = now]
  /\ pc' = [pc EXCEPT ![Shell] = "forked", ![Current] = "prepare"]
  /\ UNCHANGED << options, content, groups, written, outcome >>

\* pipe or fork fails.
Fails ==
  /\ pc[Shell] \in {"start", "loop"}
  /\ table' = [table EXCEPT ![Shell] = AllClosed]
  /\ Goto(Shell, "failed")
  /\ UNCHANGED << options, content, local, groups, written, outcome >>

ParentCloses(closing) ==
  table' = [table EXCEPT ![Shell] = Without(@, closing)]

\* The next command reads from the pipe.
NextCommand ==
  local' = [local EXCEPT ![Shell].inputFd = local[Shell].pipeFds[1],
                         ![Shell].i = @ + 1]

\* setpgid in the parent.
JoinGroup ==
  group' = IF monitor THEN [group EXCEPT ![Current] = local[Shell].pgid]
           ELSE group

ParentOfFirst ==
  /\ pc[Shell] = "forked" /\ First
  /\ LET writing == local[Shell].pipeFds[2] IN
     IF monitor
       THEN /\ ParentCloses({writing, local[Shell].pgidPipe[1]})
            /\ local' = [local EXCEPT ![Shell].pgid = 1]
            /\ Goto(Shell, "spin")
       ELSE /\ ParentCloses({writing})
            /\ NextCommand
            /\ Goto(Shell, "loop")
  /\ UNCHANGED << options, content, groups, written, outcome >>

Spin ==
  /\ pc[Shell] = "spin" /\ group[1] = local[Shell].pgid
  /\ NextCommand
  /\ Goto(Shell, "loop")
  /\ UNCHANGED << options, table, content, groups, written, outcome >>

\* sched_yield, and getpgid once more.
SpinsOn ==
  /\ pc[Shell] = "spin" /\ group[1] # local[Shell].pgid
  /\ UNCHANGED vars

ParentOfMiddle ==
  /\ pc[Shell] = "forked" /\ ~First /\ ~Last
  /\ ParentCloses({local[Shell].pipeFds[2], local[Shell].inputFd})
  /\ JoinGroup
  /\ NextCommand
  /\ Goto(Shell, "loop")
  /\ UNCHANGED << options, content, foreground, written, outcome >>

\* assert(inputFd != 0) fails.
AssertionFails ==
  /\ pc[Shell] = "forked" /\ Last /\ local[Shell].inputFd = 0
  /\ table' = [table EXCEPT ![Shell] = AllClosed]
  /\ Goto(Shell, "aborted")
  /\ UNCHANGED << options, content, local, groups, written, outcome >>

ParentOfLast ==
  /\ pc[Shell] = "forked" /\ Last /\ local[Shell].inputFd # 0
  /\ ParentCloses({local[Shell].inputFd})
  /\ JoinGroup
  /\ Goto(Shell, IF monitor THEN "release" ELSE "wait")
  /\ UNCHANGED << options, content, local, foreground, written, outcome >>

Release ==
  /\ pc[Shell] = "release"
  /\ ParentCloses({local[Shell].pgidPipe[2]})
  /\ Goto(Shell, "wait")
  /\ UNCHANGED << options, content, local, groups, written, outcome >>

\* wait instead of waitpid.
WaitForAnyCommand ==
  /\ pc[Shell] = "wait"
  /\ \E child \in Children :
       /\ pc[child] = "ended"
       /\ result' = status[child]
       /\ pc' = [pc EXCEPT ![child] = "reaped",
                           ![Shell] = IF length = 1 THEN "done" ELSE "reap"]
  /\ foreground' = IF inputIsTerminal /\ monitor THEN Shell ELSE foreground
  /\ UNCHANGED << options, table, content, local, group, written, status, waited >>

WaitForCommand ==
  /\ pc[Shell] = "wait" /\ pc[length] = "ended"
  /\ result' = status[length]
  /\ pc' = [pc EXCEPT ![length] = "reaped",
                      ![Shell] = IF length = 1 THEN "done" ELSE "reap"]
  /\ foreground' = IF inputIsTerminal /\ monitor THEN Shell ELSE foreground
  /\ UNCHANGED << options, table, content, local, group, written, status, waited >>

\* wait, and the end of the loop over it; one wait too few.
AllWaitedEarly == waited >= length - 2
AllWaited == waited = length - 1

Wait ==
  /\ pc[Shell] = "reap" /\ ~AllWaited
  /\ \E child \in Children :
       /\ pc[child] = "ended"
       /\ Goto(child, "reaped")
  /\ waited' = waited + 1
  /\ UNCHANGED << options, table, content, local, groups, written, status, result >>

PipelineReturns ==
  /\ pc[Shell] = "reap" /\ AllWaited
  /\ Goto(Shell, "done")
  /\ UNCHANGED << options, table, content, local, groups, written, outcome >>

(***************************************************************************)
(* The children.                                                           *)
(***************************************************************************)
Ended(p, s) ==
  /\ table' = [table EXCEPT ![p] = AllClosed]
  /\ status' = [status EXCEPT ![p] = s]
  /\ Goto(p, "ended")
\* What a command may do: no more reading once its input has ended.
Choices(p, more) ==
  {"end"} \cup (IF more THEN {"read"} ELSE {})
          \cup (IF written[p] < MaxWrites THEN {"write"} ELSE {})
Begins(p) == \E point \in Choices(p, TRUE) : Goto(p, point)

\* The descriptors of a command, from those it has inherited; without one of
\* the calls of close.
ForCommandKeeping(p) ==
  LET own == local[p]
      closed == Without(table[p], IF monitor THEN {own.pgidPipe[2]} ELSE {})
      input == IF p = 1 THEN closed ELSE Moved(closed, own.inputFd, 0)
  IN  IF p = length THEN input ELSE Moved(input, own.pipeFds[2], 1)

ForCommandUngated(p) ==
  LET own == local[p]
      closed == Without(table[p], IF p < length THEN {own.pipeFds[1]} ELSE {})
      input == IF p = 1 THEN closed ELSE Moved(closed, own.inputFd, 0)
  IN  IF p = length THEN input ELSE Moved(input, own.pipeFds[2], 1)

ForCommand(p) ==
  LET own == local[p]
      closed == Without(table[p], (IF monitor THEN {own.pgidPipe[2]} ELSE {})
                           \cup IF p < length THEN {own.pipeFds[1]} ELSE {})
      input == IF p = 1 THEN closed ELSE Moved(closed, own.inputFd, 0)
  IN  IF p = length THEN input ELSE Moved(input, own.pipeFds[2], 1)

Prepare(p) ==
  /\ pc[p] = "prepare"
  /\ table' = [table EXCEPT ![p] = ForCommand(p)]
  /\ IF monitor THEN Goto(p, "group") ELSE Begins(p)
  /\ UNCHANGED << options, content, local, groups, written, outcome >>

\* moveFd fails: _Exit, before setpgid.
PreparationFails(p) ==
  /\ pc[p] = "prepare"
  /\ Ended(p, 1)
  /\ UNCHANGED << options, content, local, groups, written, result, waited >>

\* setpgid(0, 0) in every command.
SetGroupOfItsOwn(p) ==
  /\ pc[p] = "group"
  /\ group' = IF monitor THEN [group EXCEPT ![p] = p] ELSE group
  /\ IF monitor /\ p = 1 /\ inputIsTerminal THEN Goto(p, "foreground")
     ELSE IF monitor /\ p = 1 /\ length > 1 THEN Goto(p, "gate")
     ELSE Begins(p)
  /\ UNCHANGED << options, table, content, local, foreground, written, outcome >>

SetGroup(p) ==
  /\ pc[p] = "group"
  /\ group' = IF ~monitor THEN group
              ELSE [group EXCEPT ![p] = IF p = 1 THEN p ELSE local[p].pgid]
  /\ IF monitor /\ p = 1 /\ inputIsTerminal THEN Goto(p, "foreground")
     ELSE IF monitor /\ p = 1 /\ length > 1 THEN Goto(p, "gate")
     ELSE Begins(p)
  /\ UNCHANGED << options, table, content, local, foreground, written, outcome >>

\* The group that tcsetpgrp is given was read before setpgid.
TakeTerminalEarly(p) ==
  /\ pc[p] = "foreground"
  /\ foreground' = Shell
  /\ IF length > 1 THEN Goto(p, "gate") ELSE Begins(p)
  /\ UNCHANGED << options, table, content, local, group, written, outcome >>

TakeTerminal(p) ==
  /\ pc[p] = "foreground"
  /\ foreground' = group[p]
  /\ IF length > 1 THEN Goto(p, "gate") ELSE Begins(p)
  /\ UNCHANGED << options, table, content, local, group, written, outcome >>

\* The first command does not wait for the others; and it does.
PassGateUnlocked(p) ==
  /\ pc[p] = "gate"
  /\ table' = [table EXCEPT ![p] = Without(@, {local[p].pgidPipe[1]})]
  /\ Begins(p)
  /\ UNCHANGED << options, content, local, groups, written, outcome >>

PassGate(p) ==
  /\ pc[p] = "gate"
  /\ LET fd == local[p].pgidPipe[1] IN
       /\ table[p][fd] = ReadEnd(Gate) => Holders(WriteEnd(Gate)) = {}
       /\ table' = [table EXCEPT ![p] = Without(@, {fd})]
  /\ Begins(p)
  /\ UNCHANGED << options, content, local, groups, written, outcome >>

(***************************************************************************)
(* The commands.                                                           *)
(***************************************************************************)

ReadFromPipe(p) ==
  /\ pc[p] = "read"
  /\ \E pipe \in Pipes :
       /\ table[p][0] = ReadEnd(pipe) /\ content[pipe] > 0
       /\ content' = [content EXCEPT ![pipe] = @ - 1]
  /\ Begins(p)
  /\ UNCHANGED << options, table, local, groups, written, outcome >>

\* A process of another group than the terminal's is stopped.
FromTerminal(p) == inputIsTerminal /\ table[p][0] = File
Stops(p) ==
  /\ pc[p] = "read"
  /\ FromTerminal(p) /\ foreground # group[p]
  /\ Goto(p, "stopped")
  /\ UNCHANGED << options, table, content, local, groups, written, outcome >>

Continues(p) ==
  /\ pc[p] = "stopped"
  /\ Goto(p, "read")
  /\ UNCHANGED << options, table, content, local, groups, written, outcome >>

\* The end of a pipe, or that of the file or of the terminal, or an error.
ReadsEnd(p) ==
  /\ pc[p] = "read"
  /\ \A pipe \in Pipes :
       table[p][0] = ReadEnd(pipe) =>
         content[pipe] = 0 /\ Holders(WriteEnd(pipe)) = {}
  /\ FromTerminal(p) => foreground = group[p]
  /\ \E point \in Choices(p, FALSE) : Goto(p, point)
  /\ UNCHANGED << options, table, content, local, groups, written, outcome >>

Write(p) ==
  /\ pc[p] = "write"
  /\ written' = [written EXCEPT ![p] = @ + 1]
  /\ \A pipe \in Pipes :
       table[p][1] = WriteEnd(pipe) =>
         content[pipe] < Capacity /\ Holders(ReadEnd(pipe)) # {}
  /\ content' = [pipe \in Pipes |->
                   IF table[p][1] = WriteEnd(pipe) THEN content[pipe] + 1
                   ELSE content[pipe]]
  /\ \E point \in {"read", "end"}
                    \cup IF written[p] + 1 < MaxWrites THEN {"write"} ELSE {} :
       Goto(p, point)
  /\ UNCHANGED << options, table, local, groups, outcome >>

\* SIGPIPE.
WriteFails(p) ==
  /\ pc[p] = "write"
  /\ \E pipe \in Pipes :
       table[p][1] = WriteEnd(pipe) /\ Holders(ReadEnd(pipe)) = {}
  /\ Ended(p, 1)
  /\ UNCHANGED << options, content, local, groups, written, result, waited >>

End(p) ==
  /\ pc[p] = "end"
  /\ \E s \in {0, 1} : Ended(p, s)
  /\ UNCHANGED << options, content, local, groups, written, result, waited >>

\* Nothing goes on any more.
Terminated ==
  /\ pc[Shell] \in {"done", "failed", "aborted"}
  /\ \A p \in Children : pc[p] \in Gone \cup {"none"}
  /\ UNCHANGED vars

Init ==
  /\ length \in Commands
  /\ monitor \in BOOLEAN
  /\ inputIsTerminal \in BOOLEAN
  /\ \E closed \in SUBSET NotOpen :
       /\ inputIsTerminal => 0 \notin closed
       /\ table = [p \in Processes |->
                     [fd \in Fds |->
                        IF p = Shell /\ fd \in {0, 1} \ closed THEN File
                        ELSE Closed]]
  /\ content = [pipe \in Pipes |-> 0]
  /\ local = [p \in Processes |->
                [i |-> 1, inputFd |-> -1, pgid |-> -1,
                 pipeFds |-> << -1, -1 >>, pgidPipe |-> << -1, -1 >>]]
  /\ group = [p \in Processes |-> Shell]
  /\ foreground = Shell
  /\ written = [p \in Processes |-> 0]
  /\ status = [p \in Processes |-> 0]
  /\ result = 0
  /\ waited = 0
  /\ \E before \in [Writers -> {"end", "ended"}] :
       pc = [p \in Processes |->
               IF p = Shell THEN "start"
               ELSE IF p \in Writers THEN before[p] ELSE "none"]

Parent ==
  \/ ForkUtility \/ CreateGate \/ ForkCommand
  \/ ParentOfFirst \/ Spin \/ ParentOfMiddle \/ AssertionFails \/ ParentOfLast
  \/ Release \/ WaitForCommand \/ Wait \/ PipelineReturns

Child(p) ==
  \/ Prepare(p) \/ SetGroup(p) \/ TakeTerminal(p) \/ PassGate(p)
  \/ ReadFromPipe(p) \/ Stops(p) \/ ReadsEnd(p)
  \/ Write(p) \/ WriteFails(p) \/ End(p)

Next ==
  \/ Parent \/ Fails
  \/ \E p \in Children : Child(p) \/ Continues(p) \/ PreparationFails(p)
  \/ SpinsOn \/ Terminated

Spec == Init /\ [][Next]_vars

\* The system runs each process that can go on; no call has to fail.
FairSpec == Spec /\ WF_vars(Parent) /\ \A p \in Children : WF_vars(Child(p))

(***************************************************************************)
(* Properties.                                                             *)
(***************************************************************************)

\* The types: a process is in the shell's group or in the first command's, no
\* pipe is filled above its capacity, and wait is never called more often than
\* there are other commands.
TypeOK ==
  /\ length \in Commands
  /\ monitor \in BOOLEAN
  /\ inputIsTerminal \in BOOLEAN
  /\ table \in [Processes -> [Fds -> Values]]
  /\ content \in [Pipes -> 0..Capacity]
  /\ \A p \in Processes :
       /\ local[p].i \in Commands
       /\ local[p].inputFd \in Fds \cup {-1}
       /\ local[p].pgid \in {-1, 1}
  /\ group \in [Processes -> {Shell, 1}]
  /\ foreground \in {Shell, 1}
  /\ written \in [Processes -> 0..MaxWrites]
  /\ status \in [Processes -> {0, 1}]
  /\ result \in {0, 1}
  /\ waited \in 0..MaxCommands - 1
  /\ pc \in [Processes -> Points]

CommandsAreConnected ==
  \A p \in Members :
    pc[p] \in Running =>
      \A fd \in Fds :
        /\ table[p][fd] = ReadEnd(p - 1) <=> fd = 0 /\ p > 1
        /\ table[p][fd] = WriteEnd(p) <=> fd = 1 /\ p < length
        /\ table[p][fd] \in Ends => table[p][fd] \in {ReadEnd(p - 1), WriteEnd(p)}

ShellKeepsNothing ==
  pc[Shell] \in {"wait", "reap", "done"} =>
    \A fd \in Fds : table[Shell][fd] \notin Ends

\* A command runs with its ends of its pipes and with no other end of any pipe,
\* and the shell waits with none at all, whatever their numbers were: only so
\* does a command ever see the end of its input, and does SIGPIPE reach the one
\* before it (executePipeline).
PipesConnect == CommandsAreConnected /\ ShellKeepsNothing

\* Where there is job control, the first command runs only when all commands
\* are in its process group (the comment on pgidPipe's read).
GroupIsComplete ==
  monitor /\ pc[1] \in Running /\ pc[Shell] \notin {"failed", "aborted"} =>
    \A p \in Members : pc[p] # "none" /\ group[p] = 1

\* The first command runs, and reads, as the terminal's process group while
\* the shell waits for the last one.
TerminalIsTheCommands ==
  monitor /\ inputIsTerminal /\ pc[1] \in Running /\ pc[Shell] = "wait" =>
    foreground = group[1]

\* With job control the first command runs in a complete group that has the
\* terminal (executePipeline).
GroupIsReady == GroupIsComplete /\ TerminalIsTheCommands

\* When the shell goes on, all commands have ended and have been waited for (the
\* comment on the loop over wait); with HereDocuments it is not so, since wait
\* takes any child.
CommandsHaveEnded ==
  pc[Shell] = "done" => \A p \in Members : pc[p] = "reaped"

\* The status of a pipeline is that of its last command.
StatusIsTheLast ==
  pc[Shell] \in {"reap", "done"} => result = status[length]

\* The first command has ended before setpgid, so that getpgid never gives the
\* group the shell spins for.
SpinsForEver ==
  pc[Shell] = "spin" /\ pc[1] = "ended" /\ group[1] # local[Shell].pgid

\* Every pipeline ends, unless a command of it is stopped or the shell spins for
\* ever: no process waits for the end of a pipe that it holds open itself or
\* that the shell does, also if one could not move its descriptors
\* (executePipeline).
PipelineEnds ==
  []((\A p \in Commands : pc[p] # "stopped") /\ ~SpinsForEver) =>
    <>(/\ pc[Shell] \in {"done", "failed", "aborted"}
       /\ \A p \in Commands : pc[p] \in Gone \cup {"none"})

=============================================================================
