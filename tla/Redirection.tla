---------------------------- MODULE Redirection ----------------------------
(***************************************************************************)
(* Redirections (execute.c): the descriptors of the shell's process, and   *)
(* the list savedFds of what popRedirection has to undo.                   *)
(*                                                                         *)
(* The descriptors below Base belong to the script.  The shell keeps its   *)
(* own, the saved ones and the one it reads the script from, above; all    *)
(* are closed by execv.  A system call that needs a descriptor gets the    *)
(* lowest free one, whosoever it is, and the shell gives it back.          *)
(*                                                                         *)
(* As in Traps a fork is followed on either side.                          *)
(***************************************************************************)
EXTENDS Integers, Sequences, FiniteSets

CONSTANTS
  Base,              \* 10 in C.
  LastFd,            \* Bound: the limit of open files, less one.
  MaxDepth,          \* Bound: the commands executed within each other.
  MaxSaved,          \* Bound: the entries of savedFds.
  Files,             \* What is opened: files and the pipes of here-documents.
  Script,            \* The file the shell reads its commands from.
  Closed

ASSUME RedirectionAssumption ==
  /\ Base \in Nat /\ Base >= 2
  /\ LastFd \in Nat /\ LastFd > Base
  /\ MaxDepth \in Nat
  /\ MaxSaved \in Nat
  /\ Closed \notin Files \cup {Script}
  /\ Script \notin Files

Fds == 0..LastFd
Low == 0..Base - 1
High == Base..LastFd

VARIABLES
  table,      \* What each descriptor refers to.
  cloexec,    \* The descriptors that execv closes.
  savedFds,   \* The list, its head last.
  inputFd,
  frames,     \* The commands whose redirections have to be undone, innermost
              \* last: "count" redirections have been performed, and savedFds
              \* was "start" entries long before (history).
  utility,    \* Is this the child that becomes a utility?
  pc

vars == << table, cloexec, savedFds, inputFd, frames, utility, pc >>
own == << savedFds, inputFd, frames, utility >>

(***************************************************************************)
(* "list": before the next command of the innermost list, or after it;     *)
(* "performing": in the loop over the redirections; "exec": in that of the *)
(* builtin exec; "undoing": in the loop over popRedirection; "utility": in *)
(* executeUtility.                                                         *)
(***************************************************************************)
Ends == {"exited", "replaced"}
Points == {"list", "performing", "exec", "undoing", "utility"} \cup Ends
Ended == pc \in Ends

Free(t) == {fd \in Fds : t[fd] = Closed}
Lowest(S) == {fd \in S : \A other \in S : fd <= other}

LastFrame == frames[Len(frames)]
AllButLast(s) == SubSeq(s, 1, Len(s) - 1)

\* The descriptors a redirection may name, and those it could without the
\* tests of performRedirection.
NamableAll == Fds
Namable == Low

(***************************************************************************)
(* The first half of performRedirection: "fd" is opened, or the pipe of a  *)
(* here-document whose other end is closed again, or it is an open one to  *)
(* be duplicated, or -1 for ">&-".                                         *)
(***************************************************************************)
Obtained ==
  [fd : Lowest(Free(table)), file : Files, dup : {FALSE}]
    \cup [fd : {-1} \cup (Namable \ Free(table)), file : Files, dup : {TRUE}]

\* The descriptors then, and what the redirection is about to install.
With(source) ==
  IF source.dup THEN table ELSE [table EXCEPT ![source.fd] = source.file]
ValueOf(source) == IF source.fd = -1 THEN Closed ELSE With(source)[source.fd]

\* dup2, and close unless it is the script's own descriptor.
Installed(fd, source) ==
  [d \in Fds |-> IF d = fd THEN ValueOf(source)
                 ELSE IF d = source.fd /\ ~source.dup THEN Closed
                 ELSE With(source)[d]]

Push(fd, saved) ==
  /\ savedFds' = Append(savedFds, [fd |-> fd, saved |-> saved])
  /\ frames' = [frames EXCEPT ![Len(frames)].count = @ + 1]

\* Nothing has to be saved: the descriptor is closed, or it is duplicated to
\* itself.
RedirectUnsaved(fd, source) ==
  /\ \/ /\ source.fd = fd
        /\ Push(IF source.dup THEN -1 ELSE fd, -1)
     \/ /\ source.fd # fd
        /\ With(source)[fd] = Closed
        /\ Push(fd, -1)
  /\ table' = Installed(fd, source)
  /\ UNCHANGED << cloexec, pc >>

\* A copy that utilities inherit.
RedirectSavedInherited(fd, source) ==
  /\ source.fd # fd
  /\ With(source)[fd] # Closed
  /\ \E saved \in Lowest(Free(With(source)) \cap High) :
       /\ table' = [Installed(fd, source) EXCEPT ![saved] = With(source)[fd]]
       /\ Push(fd, saved)
  /\ UNCHANGED << cloexec, pc >>

RedirectSaved(fd, source) ==
  /\ source.fd # fd
  /\ With(source)[fd] # Closed
  /\ \E saved \in Lowest(Free(With(source)) \cap High) :
       /\ table' = [Installed(fd, source) EXCEPT ![saved] = With(source)[fd]]
       /\ cloexec' = cloexec \cup {saved}
       /\ Push(fd, saved)
  /\ UNCHANGED pc

\* There is no descriptor left for the copy.
SaveFailsOpen(fd, source) ==
  /\ source.fd # fd
  /\ With(source)[fd] # Closed
  /\ Free(With(source)) \cap High = {}
  /\ table' = With(source)
  /\ pc' = "undoing"
  /\ UNCHANGED << cloexec, savedFds, frames >>

SaveFails(fd, source) ==
  /\ source.fd # fd
  /\ With(source)[fd] # Closed
  /\ Free(With(source)) \cap High = {}
  /\ table' = table
  /\ pc' = "undoing"
  /\ UNCHANGED << cloexec, savedFds, frames >>

(***************************************************************************)
(* A command: a compound command, a function, a builtin other than exec.   *)
(***************************************************************************)
BeginCommand ==
  /\ pc = "list" /\ Len(frames) < MaxDepth
  /\ frames' = Append(frames, [count |-> 0, start |-> Len(savedFds)])
  /\ pc' = "performing"
  /\ UNCHANGED << table, cloexec, savedFds, inputFd, utility >>

PerformRedirection ==
  /\ pc = "performing" /\ Len(savedFds) < MaxSaved
  /\ \E fd \in Namable, source \in Obtained :
       \/ RedirectUnsaved(fd, source)
       \/ RedirectSaved(fd, source)
       \/ SaveFails(fd, source)
  /\ UNCHANGED << inputFd, utility >>

\* The word cannot be expanded, the descriptor is none, open fails.
RedirectionFails ==
  /\ pc = "performing"
  /\ pc' = "undoing"
  /\ UNCHANGED << table, cloexec, own >>

\* pipe or fork fails.
HereDocumentFails ==
  /\ pc \in {"performing", "exec"}
  /\ pc' = "exited"
  /\ UNCHANGED << table, cloexec, own >>

Redirected ==
  /\ pc = "performing"
  /\ pc' = IF utility THEN "utility" ELSE "list"
  /\ UNCHANGED << table, cloexec, own >>

EndCommand ==
  /\ pc = "list" /\ frames # <<>>
  /\ pc' = "undoing"
  /\ UNCHANGED << table, cloexec, own >>

\* popRedirection without its close of the copy.
PopRedirectionOpen ==
  /\ pc = "undoing" /\ LastFrame.count > 0
  /\ LET sfd == savedFds[Len(savedFds)] IN
       table' = [d \in Fds |->
                   IF d = sfd.fd
                     THEN IF sfd.saved = -1 THEN Closed ELSE table[sfd.saved]
                   ELSE table[d]]
  /\ savedFds' = AllButLast(savedFds)
  /\ frames' = [frames EXCEPT ![Len(frames)].count = @ - 1]
  /\ UNCHANGED << cloexec, inputFd, utility, pc >>

PopRedirection ==
  /\ pc = "undoing" /\ LastFrame.count > 0
  /\ LET sfd == savedFds[Len(savedFds)] IN
       /\ table' = [d \in Fds |->
                      IF d = sfd.fd
                        THEN IF sfd.saved = -1 THEN Closed ELSE table[sfd.saved]
                      ELSE IF d = sfd.saved THEN Closed
                      ELSE table[d]]
       /\ cloexec' = cloexec \ {sfd.saved}
  /\ savedFds' = AllButLast(savedFds)
  /\ frames' = [frames EXCEPT ![Len(frames)].count = @ - 1]
  /\ UNCHANGED << inputFd, utility, pc >>

\* The loop ends one redirection early.
UndoneEarly ==
  /\ pc = "undoing" /\ LastFrame.count <= 1
  /\ frames' = AllButLast(frames)
  /\ pc' \in IF utility THEN {"exited"} ELSE {"list", "exited"}
  /\ UNCHANGED << table, cloexec, savedFds, inputFd, utility >>

\* _Exit, if it was the only command of a subshell or of a pipeline's process,
\* or a function whose redirections have failed.
Undone ==
  /\ pc = "undoing" /\ LastFrame.count = 0
  /\ frames' = AllButLast(frames)
  /\ pc' \in IF utility THEN {"exited"} ELSE {"list", "exited"}
  /\ UNCHANGED << table, cloexec, savedFds, inputFd, utility >>

(***************************************************************************)
(* exec, whose redirections are not undone, neither if one of them fails.  *)
(***************************************************************************)
ExecBuiltin ==
  /\ pc = "list"
  /\ pc' = "exec"
  /\ UNCHANGED << table, cloexec, own >>

ExecRedirection ==
  /\ pc = "exec"
  /\ \E fd \in Namable, source \in Obtained : table' = Installed(fd, source)
  /\ UNCHANGED << cloexec, own, pc >>

ExecEnds ==
  /\ pc = "exec"
  /\ pc' \in {"list", "utility"}
  /\ UNCHANGED << table, cloexec, own >>

(***************************************************************************)
(* The children: a subshell, a command of a pipeline or a command          *)
(* substitution, with pipes for its input and output; a utility.  The word *)
(* of a redirection may contain a substitution, too.                       *)
(***************************************************************************)
Fork ==
  /\ pc = "list" \/ (pc = "performing" /\ ~utility)
  /\ \E pipes \in SUBSET {0, 1}, file \in Files :
       table' = [d \in Fds |-> IF d \in pipes THEN file ELSE table[d]]
  /\ frames' = <<>>
  /\ pc' = "list"
  /\ UNCHANGED << cloexec, savedFds, inputFd, utility >>

ForkUtility ==
  /\ pc = "list"
  /\ frames' = << [count |-> 0, start |-> Len(savedFds)] >>
  /\ utility' = TRUE
  /\ pc' = "performing"
  /\ UNCHANGED << table, cloexec, savedFds, inputFd >>

\* The utility, or 126 or 127, or a script that main cannot open.
Execv ==
  /\ pc = "utility"
  /\ \/ /\ pc' = "replaced"
        /\ table' = [d \in Fds |-> IF d \in cloexec THEN Closed ELSE table[d]]
        /\ cloexec' = {}
     \/ /\ pc' = "exited"
        /\ UNCHANGED << table, cloexec >>
  /\ UNCHANGED own

\* main opens the script and moves it: << where it is first, where then >>;
\* and the same without the move.
ScriptFdsUnmoved(t) == {<< fd, fd >> : fd \in Lowest(Free(t))}
ScriptFds(t) ==
  {fds \in Lowest(Free(t)) \X High :
     fds[2] \in Lowest((Free(t) \ {fds[1]}) \cap High)}

Saved == {savedFds[i].saved : i \in 1..Len(savedFds)} \ {-1}

\* executeScript: freeRedirections, close, and main from the setjmp on.
ExecuteScript ==
  /\ pc = "utility"
  /\ LET closed == Saved \cup ({inputFd} \ {0})
         kept == [d \in Fds |-> IF d \in closed THEN Closed ELSE table[d]]
     IN  \E fds \in ScriptFds(kept) :
           /\ table' = [kept EXCEPT ![fds[2]] = Script]
           /\ inputFd' = fds[2]
           /\ cloexec' = {fds[2]}
  /\ savedFds' = <<>> /\ frames' = <<>> /\ utility' = FALSE
  /\ pc' = "list"

\* exit, or the end of the input or of a child's list.
Exit ==
  /\ pc = "list"
  /\ pc' = "exited"
  /\ UNCHANGED << table, cloexec, own >>

\* The process has ended.
Terminated == Ended /\ UNCHANGED vars

\* The script comes from standard input or -c, or is opened.  The caller has
\* left nothing open but descriptors of the script.
Init ==
  /\ \E low \in [Low -> Files \cup {Closed}] :
       LET given == [d \in Fds |-> IF d \in Low THEN low[d] ELSE Closed] IN
       \/ table = given /\ inputFd = 0
       \/ \E fds \in ScriptFds(given) :
            table = [given EXCEPT ![fds[2]] = Script] /\ inputFd = fds[2]
  /\ cloexec = {inputFd} \ {0}
  /\ savedFds = <<>>
  /\ frames = <<>>
  /\ utility = FALSE
  /\ pc = "list"

Next ==
  \/ BeginCommand \/ PerformRedirection \/ RedirectionFails \/ HereDocumentFails
  \/ Redirected \/ EndCommand \/ PopRedirection \/ Undone
  \/ ExecBuiltin \/ ExecRedirection \/ ExecEnds
  \/ Fork \/ ForkUtility \/ Execv \/ ExecuteScript \/ Exit
  \/ Terminated

Spec == Init /\ [][Next]_vars

(***************************************************************************)
(* Properties.                                                             *)
(***************************************************************************)

\* The types of the descriptors and of the list: no redirection names a
\* descriptor of the shell, and only those are saved.
TypeOK ==
  /\ table \in [Fds -> Files \cup {Script, Closed}]
  /\ cloexec \subseteq High
  /\ savedFds \in Seq([fd : Low \cup {-1}, saved : High \cup {-1}])
  /\ inputFd \in High \cup {0}
  /\ frames \in Seq([count : Nat, start : Nat])
  /\ utility \in BOOLEAN
  /\ pc \in Points

\* The shell's own descriptors are those of savedFds, each of them once, and
\* that of the script: none is leaked, by a failure in the middle of the
\* redirections, by pops or by scripts either, and none is closed too early.
NothingLeaks ==
  ~Ended =>
    /\ High \ Free(table) = Saved \cup ({inputFd} \ {0})
    /\ inputFd \notin Saved
    /\ \A i, j \in 1..Len(savedFds) :
         savedFds[i].saved = savedFds[j].saved /\ i # j => savedFds[i].saved = -1

\* The commands come from the script as long as the shell runs: whatever the
\* script redirects, its own descriptor is not touched (main).
InputIntact == ~Ended /\ inputFd # 0 => table[inputFd] = Script

\* A utility inherits the descriptors of the script and none of the shell's.
UtilitiesInheritLow == pc = "replaced" => High \subseteq Free(table)

\* Each command undoes its own redirections: the entries it pops are those it
\* has pushed (executeCommand, executeExpandedCommand).
PopsAreBalanced ==
  ~Ended =>
    \A i \in 1..Len(frames) :
      frames[i].start + frames[i].count =
        IF i = Len(frames) THEN Len(savedFds) ELSE frames[i + 1].start

(***************************************************************************)
(* The scopes.  While a command undoes its redirections its scope has been *)
(* left already: what a pop restores for a while does not count.  At its   *)
(* end a process leaves no scopes.                                         *)
(***************************************************************************)
EntriesOf(frame) == frame.start + 1 .. frame.start + frame.count
FirstOf(frame, fd) ==
  CHOOSE i \in Lowest({j \in EntriesOf(frame) : savedFds[j].fd = fd}) : TRUE
ScopeOf(frame) ==
  [fd \in {savedFds[i].fd : i \in EntriesOf(frame)} \ {-1} |->
     LET saved == savedFds[FirstOf(frame, fd)].saved IN
     IF saved = -1 THEN Closed ELSE table[saved]]

Leaving == pc = "undoing"
OpenFrames ==
  IF Ended THEN <<>> ELSE IF Leaving THEN AllButLast(frames) ELSE frames
OpenScopes == [i \in 1..Len(OpenFrames) |-> ScopeOf(frames[i])]
Outside ==
  [fd \in Low |-> IF Leaving /\ fd \in DOMAIN ScopeOf(LastFrame)
                    THEN ScopeOf(LastFrame)[fd] ELSE table[fd]]

Scopes == INSTANCE RedirectionScopes WITH
  Descriptors <- Low,
  Values <- Files \cup {Script, Closed},
  descriptors <- Outside,
  scopes <- OpenScopes

\* savedFds, with its copies and its pops in reverse order, implements scopes.
RedirectionsAreScopes == Scopes!Spec

=============================================================================
