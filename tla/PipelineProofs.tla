--------------------------- MODULE PipelineProofs ---------------------------
(***************************************************************************)
(* Proofs about Pipeline, for pipelines of any length and any number of    *)
(* descriptors: the types, that the shell goes on with the status of the   *)
(* last command and, when no here-document has left a writer, after the    *)
(* end of every command.  If descriptor 1 is open in the shell: the pipes  *)
(* connect the commands and nobody else, and the first command runs in a   *)
(* complete process group that has the terminal.                           *)
(***************************************************************************)
EXTENDS Pipeline, FiniteSetTheorems, WellFoundedInduction, TLAPS

(***************************************************************************)
(* Processes, descriptors and ends.                                        *)
(***************************************************************************)
\* What the constants are.
LEMMA Constants ==
  /\ MaxCommands \in Nat \ {0}
  /\ LastFd \in Nat \ {0}
  /\ MaxWrites \in Nat
  /\ Capacity \in Nat \ {0}
  /\ HereDocuments \in Nat
  /\ NotOpen \subseteq {0, 1}
  /\ File # Closed
  /\ 0 \in Fds /\ 1 \in Fds /\ Fds \subseteq Nat
  /\ Shell = 0
  /\ Shell \in Processes /\ Shell \notin Children /\ Children \subseteq Processes
  /\ Processes = {Shell} \cup Children
  /\ Children = Commands \cup Writers
  /\ Commands \subseteq Children /\ Writers \subseteq Children
  /\ Commands = 1..MaxCommands /\ 1 \in Commands
  /\ Commands \cap Writers = {}
  /\ Children \subseteq Nat \ {0}
BY PipelineAssumption
DEF Fds, Shell, Processes, Children, Commands, Writers

\* The ends of the pipes are different from each other and from the files.
LEMMA EndsDiffer ==
  /\ \A k, j : ReadEnd(k) # WriteEnd(j)
  /\ \A k, j : ReadEnd(k) = ReadEnd(j) => k = j
  /\ \A k, j : WriteEnd(k) = WriteEnd(j) => k = j
  /\ \A k \in 0..MaxCommands - 1 : ReadEnd(k) \in Ends /\ WriteEnd(k) \in Ends
  /\ \A k \in Nat : File # ReadEnd(k) /\ File # WriteEnd(k)
  /\ \A k \in Nat : Closed # ReadEnd(k) /\ Closed # WriteEnd(k)
  /\ File \notin Ends
  /\ Closed \notin Ends
  /\ File \in Values /\ Closed \in Values /\ Ends \subseteq Values
<1>1. /\ \A k, j : ReadEnd(k) # WriteEnd(j)
      /\ \A k, j : ReadEnd(k) = ReadEnd(j) => k = j
      /\ \A k, j : WriteEnd(k) = WriteEnd(j) => k = j
  BY DEF ReadEnd, WriteEnd
<1>2. \A k \in 0..MaxCommands - 1 : ReadEnd(k) \in Ends /\ WriteEnd(k) \in Ends
  BY DEF ReadEnd, WriteEnd, Ends, Pipes
<1>3. /\ \A k \in Nat : File # ReadEnd(k) /\ File # WriteEnd(k)
      /\ \A k \in Nat : Closed # ReadEnd(k) /\ Closed # WriteEnd(k)
  BY ValuesAssumption DEF ReadEnd, WriteEnd
<1>4. File \notin Ends /\ Closed \notin Ends
  BY ValuesAssumption, PipelineAssumption DEF Ends, Pipes
<1> QED
  BY <1>1, <1>2, <1>3, <1>4 DEF Values

\* A set of numbers that has an element has a least one.
LEMMA LeastOf ==
  ASSUME NEW R, IsWellFoundedOn(R, Nat),
         \A x, y \in Nat : y < x => << y, x >> \in R,
         NEW S, S \subseteq Nat, S # {}
  PROVE  \E x \in S : \A y \in S : x <= y
<1>1. PICK x \in S : \A y \in S : << y, x >> \notin R
  BY WFMin
<1>2. ASSUME NEW y \in S PROVE x <= y
  <2>1. x \in Nat /\ y \in Nat
    OBVIOUS
  <2>2. ~ (y < x)
    BY <1>1, <2>1, Zenon
  <2> QED
    BY <2>1, <2>2
<1> QED
  BY <1>2

LEMMA LowestIs ==
  ASSUME NEW S, S \subseteq Nat, S # {}
  PROVE  Lowest(S) \in S /\ \A y \in S : Lowest(S) <= y
<1> DEFINE R == OpToRel(<, Nat)
<1>1. IsWellFoundedOn(R, Nat)
  BY NatLessThanWellFounded
<1>2. \A x, y \in Nat : y < x => << y, x >> \in R
  BY DEF OpToRel
<1> HIDE DEF R
<1>3. \E x \in S : \A y \in S : x <= y
  BY <1>1, <1>2, LeastOf
<1> QED
  BY <1>3 DEF Lowest

Tables == [Fds -> Values]

\* pipe returns two free descriptors, the second one above the first.
LEMMA NewPipeIs ==
  ASSUME NEW t \in Tables, Cardinality(Free(t)) >= 2
  PROVE  /\ NewPipe(t) \in Fds \X Fds
         /\ NewPipe(t)[1] \in Fds /\ NewPipe(t)[2] \in Fds
         /\ NewPipe(t)[1] # NewPipe(t)[2]
         /\ NewPipe(t)[2] # 0
         /\ t[NewPipe(t)[1]] = Closed
         /\ t[NewPipe(t)[2]] = Closed
<1> DEFINE S == Free(t)
           fd == Lowest(S)
<1>1. S \subseteq Fds /\ Fds \subseteq Nat
  BY Constants DEF Free
<1>2. S # {} /\ S \ {fd} # {}
  <2>1. S # {}
    BY FS_EmptySet
  <2>2. \A x : S # {x}
    BY FS_Singleton
  <2> QED
    BY <2>1, <2>2
<1>3. fd \in S /\ \A y \in S : fd <= y
  BY <1>1, <1>2, LowestIs
<1>4. Lowest(S \ {fd}) \in S \ {fd}
  BY <1>1, <1>2, LowestIs
<1>5. NewPipe(t) = << fd, Lowest(S \ {fd}) >>
  BY DEF NewPipe
<1> HIDE DEF fd
<1> QED
  BY <1>1, <1>3, <1>4, <1>5 DEF Free

\* What the operations on a table give.
LEMMA WithPipeIs ==
  ASSUME NEW t \in Tables, NEW fds \in Fds \X Fds, fds[1] # fds[2],
         NEW k \in 0..MaxCommands - 1
  PROVE  /\ WithPipe(t, fds, k) \in Tables
         /\ WithPipe(t, fds, k)[fds[1]] = ReadEnd(k)
         /\ WithPipe(t, fds, k)[fds[2]] = WriteEnd(k)
         /\ \A fd \in Fds \ {fds[1], fds[2]} : WithPipe(t, fds, k)[fd] = t[fd]
BY EndsDiffer DEF WithPipe, Tables

LEMMA WithoutIs ==
  ASSUME NEW t \in Tables, NEW closing
  PROVE  /\ Without(t, closing) \in Tables
         /\ \A fd \in Fds :
              Without(t, closing)[fd] = IF fd \in closing THEN Closed ELSE t[fd]
BY EndsDiffer DEF Without, Tables

LEMMA MovedIs ==
  ASSUME NEW t \in Tables, NEW old \in Fds, NEW new \in Fds
  PROVE  /\ Moved(t, old, new) \in Tables
         /\ Moved(t, old, new)[new] = t[old]
         /\ \A fd \in Fds \ {new} :
              Moved(t, old, new)[fd] = IF fd = old THEN Closed ELSE t[fd]
BY EndsDiffer DEF Moved, Tables

LEMMA AllClosedIs ==
  AllClosed \in Tables /\ \A fd \in Fds : AllClosed[fd] = Closed
BY EndsDiffer DEF AllClosed, Tables

(***************************************************************************)
(* The local variables of executePipeline, in each process.                *)
(***************************************************************************)
FdPairs == (Fds \cup {-1}) \X (Fds \cup {-1})
Locals == [i : Commands, inputFd : Fds \cup {-1}, pgid : {-1, 1},
           pipeFds : FdPairs, pgidPipe : FdPairs]

\* The types, those of the local variables included.
Typed ==
  /\ length \in Commands
  /\ monitor \in BOOLEAN
  /\ inputIsTerminal \in BOOLEAN
  /\ table \in [Processes -> [Fds -> Values]]
  /\ content \in [Pipes -> 0..Capacity]
  /\ local \in [Processes -> Locals]
  /\ group \in [Processes -> {Shell, 1}]
  /\ foreground \in {Shell, 1}
  /\ written \in [Processes -> 0..MaxWrites]
  /\ status \in [Processes -> {0, 1}]
  /\ result \in {0, 1}
  /\ waited \in 0..length - 1
  /\ pc \in [Processes -> Points]

\* The variables of executePipeline are set when command k is prepared: the
\* descriptor of its input, those of its pipe, if piped, and with job control
\* those of the gate and the process group.
Assigned(own, k, piped) ==
  /\ k > 1 => own.inputFd \in Fds
  /\ piped => own.pipeFds \in Fds \X Fds /\ own.pipeFds[2] # 0
  /\ monitor => own.pgidPipe \in Fds \X Fds
  /\ monitor /\ k > 1 => own.pgid = 1

Launching == {"loop", "forked", "spin"}
ShellPoints == Launching \cup {"start", "release", "wait", "reap", "done",
                               "failed", "aborted"}

\* Where the shell is.
ShellOK ==
  /\ pc[Shell] \in ShellPoints
  /\ Current \in Members
  /\ pc[Shell] = "start" => First
  /\ pc[Shell] \in Launching \cup {"release"} => length > 1
  /\ pc[Shell] = "loop" => Assigned(local[Shell], Current, FALSE)
  /\ pc[Shell] = "forked" => Assigned(local[Shell], Current, ~Last)
  /\ pc[Shell] = "spin" =>
       /\ monitor /\ First
       /\ Assigned(local[Shell], 1, TRUE)
       /\ local[Shell].pgid = 1
  /\ pc[Shell] = "release" =>
       monitor /\ local[Shell].pgidPipe \in Fds \X Fds

\* Where a child is.
ChildOK(p) ==
  /\ p \in Writers => pc[p] \in {"end"} \cup Gone
  /\ pc[p] \notin ShellPoints
  /\ p \in Commands /\ pc[p] # "none" => p \in Members
  /\ pc[p] = "prepare" =>
       length > 1 /\ Assigned(local[p], p, p < length)
  /\ pc[p] = "group" /\ monitor /\ p > 1 => local[p].pgid = 1
  /\ pc[p] = "foreground" => monitor /\ p = 1
  /\ pc[p] = "gate" => monitor /\ p = 1 /\ length > 1
  /\ /\ pc[p] \in {"group", "foreground", "gate"}
     /\ monitor
     /\ length > 1
     => local[p].pgidPipe \in Fds \X Fds
  /\ pc[p] = "write" => written[p] < MaxWrites

\* Which commands have been forked, and that none is waited for too early.
ForkedOK ==
  /\ pc[Shell] = "start" => \A p \in Commands : pc[p] = "none"
  /\ pc[Shell] = "loop" =>
       \A p \in Commands : pc[p] # "none" <=> p < Current
  /\ pc[Shell] \in {"forked", "spin"} =>
       \A p \in Commands : pc[p] # "none" <=> p <= Current
  /\ pc[Shell] \in {"release", "wait", "reap", "done"} =>
       \A p \in Commands : pc[p] # "none" <=> p <= length
  /\ pc[Shell] \notin {"reap", "done"} =>
       /\ waited = 0
       /\ \A p \in Commands : pc[p] # "reaped"
  /\ pc[Shell] \in {"reap", "done"} =>
       /\ pc[length] = "reaped"
       /\ result = status[length]
  /\ pc[Shell] = "done" => waited = length - 1

TInv ==
  /\ Typed
  /\ ShellOK
  /\ \A p \in Children : ChildOK(p)
  /\ ForkedOK

\* Each call of wait has taken one command.
Reaped == {p \in Members : pc[p] = "reaped"}
ReapedOK ==
  pc[Shell] \in {"reap", "done"} => Cardinality(Reaped) = waited + 1

(***************************************************************************)
(* The pipes' ends.                                                        *)
(***************************************************************************)
\* The ends that executePipeline holds with the variables own when command k
\* is prepared, and no other; the shell keeps the reading end of the gate
\* until the first command has been forked.
Holding(t, own, k, input, piped) ==
  /\ t[1] = File
  /\ input => t[own.inputFd] = ReadEnd(k - 1)
  /\ piped => /\ t[own.pipeFds[1]] = ReadEnd(k)
              /\ t[own.pipeFds[2]] = WriteEnd(k)
  /\ monitor => t[own.pgidPipe[2]] = WriteEnd(Gate)
  /\ monitor /\ k = 1 => t[own.pgidPipe[1]] = ReadEnd(Gate)
  /\ \A fd \in Fds :
       t[fd] \in Ends =>
         \/ input /\ fd = own.inputFd
         \/ piped /\ fd \in {own.pipeFds[1], own.pipeFds[2]}
         \/ monitor /\ fd = own.pgidPipe[2]
         \/ monitor /\ k = 1 /\ fd = own.pgidPipe[1]

HoldsNothing(t) == \A fd \in Fds : t[fd] \notin Ends

\* The shell after the first fork.
HoldingFirst(t, own) ==
  /\ t[1] = File
  /\ t[own.pipeFds[1]] = ReadEnd(1)
  /\ t[own.pgidPipe[2]] = WriteEnd(Gate)
  /\ \A fd \in Fds :
       t[fd] \in Ends => fd \in {own.pipeFds[1], own.pgidPipe[2]}

HoldingGate(t, own) ==
  /\ t[own.pgidPipe[2]] = WriteEnd(Gate)
  /\ \A fd \in Fds : t[fd] \in Ends => fd = own.pgidPipe[2]

ShellTable ==
  /\ pc[Shell] = "start" => table[Shell][1] = File /\ HoldsNothing(table[Shell])
  /\ pc[Shell] = "loop" =>
       Holding(table[Shell], local[Shell], Current, Current > 1, FALSE)
  /\ pc[Shell] = "forked" =>
       Holding(table[Shell], local[Shell], Current, Current > 1, ~Last)
  /\ pc[Shell] = "spin" => HoldingFirst(table[Shell], local[Shell])
  /\ pc[Shell] = "release" => HoldingGate(table[Shell], local[Shell])
  /\ pc[Shell] \in {"wait", "reap", "done", "failed", "aborted"} =>
       HoldsNothing(table[Shell])

\* A command has its pipes as 0 and 1; the first one has the gate too until
\* it is past it.
Gated(p) ==
  p = 1 /\ monitor /\ length > 1 /\ pc[p] \in {"group", "foreground", "gate"}
Connected(p) ==
  /\ p > 1 => table[p][0] = ReadEnd(p - 1)
  /\ p < length => table[p][1] = WriteEnd(p)
  /\ Gated(p) => table[p][local[p].pgidPipe[1]] = ReadEnd(Gate)
  /\ \A fd \in Fds :
       table[p][fd] \in Ends =>
         \/ p > 1 /\ fd = 0
         \/ p < length /\ fd = 1
         \/ Gated(p) /\ fd = local[p].pgidPipe[1]

ChildTable(p) ==
  /\ pc[p] = "prepare" =>
       Holding(table[p], local[p], p, p > 1, p < length)
  /\ pc[p] \in {"group", "foreground", "gate"} \cup Running => Connected(p)

TableInv == ShellTable /\ \A p \in Members : ChildTable(p)

(***************************************************************************)
(* The process group and the terminal.                                     *)
(***************************************************************************)
\* The parent puts a command into the group at its fork, the first command
\* puts itself there; it passes the gate last.
GroupInv ==
  /\ monitor =>
       /\ pc[1] \in {"foreground", "gate"} \cup Running => group[1] = 1
       /\ pc[Shell] \in {"loop", "forked"} =>
            \A p \in 2..length : p < Current => group[p] = 1
       /\ pc[Shell] \in {"release", "wait", "reap", "done"} =>
            \A p \in 2..length : group[p] = 1
       /\ length > 1 /\ pc[Shell] \in Launching \cup {"start", "release"} =>
            pc[1] \notin Running
       /\ /\ inputIsTerminal
          /\ pc[Shell] \notin {"reap", "done"}
          /\ pc[1] \in {"gate"} \cup Running
          => foreground = 1

\* The descriptors of a pair, and the fields of the local variables.
LEMMA LocalsIs ==
  ASSUME NEW own \in Locals
  PROVE  /\ own.i \in Commands
         /\ own.inputFd \in Fds \cup {-1}
         /\ own.pgid \in {-1, 1}
         /\ own.pipeFds \in FdPairs /\ own.pgidPipe \in FdPairs
BY DEF Locals

\* A child whose own variables stay is where it was.
LEMMA ChildKept ==
  ASSUME NEW p \in Children, ChildOK(p), UNCHANGED << length, monitor >>,
         pc'[p] = pc[p], local'[p] = local[p], written'[p] = written[p]
  PROVE  ChildOK(p)'
BY DEF ChildOK, Members, Assigned

\* The constants of an execution, and where the shell is.
LEMMA TFacts ==
  ASSUME TInv
  PROVE  /\ length \in Nat \ {0} /\ length <= MaxCommands
         /\ Members \subseteq Commands /\ 1 \in Members /\ length \in Members
         /\ monitor \in BOOLEAN
         /\ DOMAIN pc = Processes /\ DOMAIN local = Processes
         /\ local[Shell] \in Locals
         /\ Current \in Members /\ Current \in Nat \ {0} /\ Current <= length
         /\ Current \in Children /\ length \in Children
         /\ table[Shell] \in Tables
         /\ \A p \in Children : table[p] \in Tables /\ local[p] \in Locals
BY Constants DEF TInv, Typed, ShellOK, Members, Tables

\* Initially the shell is about to execute the pipeline.
LEMMA InitT == Init => TInv
<1> SUFFICES ASSUME Init PROVE TInv
  OBVIOUS
<1>1. PICK before \in [Writers -> {"end", "ended"}] :
        pc = [p \in Processes |->
                IF p = Shell THEN "start"
                ELSE IF p \in Writers THEN before[p] ELSE "none"]
  BY DEF Init
<1>2. /\ pc \in [Processes -> Points]
      /\ pc[Shell] = "start"
      /\ \A p \in Writers : pc[p] \in {"end", "ended"}
      /\ \A p \in Commands : pc[p] = "none"
  BY <1>1, Constants DEF Points, Running, Gone
<1>3. local \in [Processes -> Locals] /\ local[Shell].i = 1
  BY Constants DEF Init, Locals, FdPairs
<1>4. table \in [Processes -> [Fds -> Values]]
  BY EndsDiffer DEF Init
<1>5. Typed
  BY <1>2, <1>3, <1>4, Constants DEF Init, Typed, Commands
<1>6. ShellOK
  BY <1>2, <1>3, Constants
  DEF Init, ShellOK, Current, First, Members, ShellPoints, Launching
<1>7. \A p \in Children : ChildOK(p)
  BY <1>2, Constants DEF ChildOK, ShellPoints, Launching, Gone
<1>8. ForkedOK
  BY <1>2 DEF Init, ForkedOK
<1> QED
  BY <1>5, <1>6, <1>7, <1>8 DEF TInv

\* The steps of the shell before the first fork.
LEMMA StartT ==
  ASSUME TInv
  PROVE  /\ ForkUtility => TInv'
         /\ CreateGate => TInv'
         /\ Fails => TInv'
<1>0. /\ Typed /\ ShellOK /\ ForkedOK
      /\ \A p \in Children : ChildOK(p)
  BY DEF TInv
<1>1. ForkUtility => TInv'
  <2> SUFFICES ASSUME ForkUtility PROVE TInv'
    OBVIOUS
  <2>1. /\ pc[Shell] = "start" /\ length = 1
        /\ table' = [table EXCEPT ![1] = table[Shell]]
        /\ pc' = [pc EXCEPT ![Shell] = "wait", ![1] = "group"]
        /\ UNCHANGED << options, content, local, groups, written, outcome >>
    BY DEF ForkUtility
  <2>2. Typed'
    BY <1>0, <2>1, Constants
    DEF Typed, options, groups, outcome, Points, Running, Gone
  <2>3. pc'[Shell] = "wait" /\ pc'[1] = "group"
        /\ \A p \in Children \ {1} : pc'[p] = pc[p]
    BY <1>0, <2>1, Constants DEF Typed
  <2>4. ShellOK'
    BY <1>0, <2>1, <2>3
    DEF ShellOK, options, Members, Current, First, Last, ShellPoints, Launching
  <2>5. ASSUME NEW p \in Children PROVE ChildOK(p)'
    <3>1. CASE p = 1
      BY <2>1, <2>3, <3>1, Constants
      DEF ChildOK, options, Members, ShellPoints, Launching
    <3>2. CASE p # 1
      BY <1>0, <2>1, <2>3, <3>2, ChildKept DEF options
    <3> QED
      BY <3>1, <3>2
  <2>6. ForkedOK'
    <3>1. \A p \in Commands : p \in Children /\ (p <= 1 <=> p = 1)
      BY Constants
    <3> QED
      BY <1>0, <2>1, <2>3, <3>1 DEF ForkedOK, options, outcome
  <2> QED
    BY <2>2, <2>4, <2>5, <2>6 DEF TInv
<1>2. CreateGate => TInv'
  <2> SUFFICES ASSUME CreateGate PROVE TInv'
    OBVIOUS
  <2>1. /\ pc[Shell] = "start" /\ length > 1
        /\ pc' = [pc EXCEPT ![Shell] = "loop"]
        /\ UNCHANGED << options, content, groups, written, outcome >>
    BY DEF CreateGate, Goto
  <2>2. /\ table' \in [Processes -> [Fds -> Values]]
        /\ local' \in [Processes -> Locals]
        /\ local'[Shell].i = local[Shell].i
        /\ monitor => local'[Shell].pgidPipe \in Fds \X Fds
        /\ \A p \in Children : local'[p] = local[p]
    <3>1. CASE monitor
      <4> DEFINE fds == NewPipe(table[Shell])
      <4>1. /\ fds \in Fds \X Fds /\ fds[1] # fds[2]
            /\ Cardinality(Free(table[Shell])) >= 2
            /\ table' = [table EXCEPT ![Shell] = WithPipe(@, fds, Gate)]
            /\ local' = [local EXCEPT ![Shell].pgidPipe = fds]
        BY <3>1, TFacts, NewPipeIs DEF CreateGate, CanPipe
      <4> HIDE DEF fds
      <4>2. WithPipe(table[Shell], fds, Gate) \in [Fds -> Values]
        <5>1. Gate \in 0..MaxCommands - 1
          BY Constants DEF Gate
        <5> QED
          BY <4>1, <5>1, TFacts, WithPipeIs DEF Tables
      <4>3. fds \in FdPairs
        BY <4>1 DEF FdPairs
      <4> QED
        BY <1>0, <4>1, <4>2, <4>3, TFacts, Constants DEF Typed, Locals
    <3>2. CASE ~monitor
      BY <1>0, <3>2 DEF CreateGate, Typed
    <3> QED
      BY <3>1, <3>2
  <2>3. /\ pc' \in [Processes -> Points]
        /\ pc'[Shell] = "loop"
        /\ \A p \in Children : pc'[p] = pc[p]
    BY <1>0, <2>1, Constants DEF Typed, Points
  <2>4. Typed'
    BY <1>0, <2>1, <2>2, <2>3 DEF Typed, options, groups, outcome
  <2>5. ShellOK'
    BY <1>0, <2>1, <2>2, <2>3
    DEF ShellOK, options, Members, Current, First, ShellPoints, Launching,
        Assigned
  <2>6. \A p \in Children : ChildOK(p)'
    BY <1>0, <2>1, <2>2, <2>3, ChildKept DEF options
  <2>7. ForkedOK'
    BY <1>0, <2>1, <2>2, <2>3, Constants
    DEF ForkedOK, ShellOK, options, outcome, Current, First
  <2> QED
    BY <2>4, <2>5, <2>6, <2>7 DEF TInv
<1>3. Fails => TInv'
  <2> SUFFICES ASSUME Fails PROVE TInv'
    OBVIOUS
  <2>1. /\ pc[Shell] \in {"start", "loop"}
        /\ table' = [table EXCEPT ![Shell] = AllClosed]
        /\ pc' = [pc EXCEPT ![Shell] = "failed"]
        /\ UNCHANGED << options, content, local, groups, written, outcome >>
    BY DEF Fails, Goto
  <2>2. /\ pc' \in [Processes -> Points]
        /\ pc'[Shell] = "failed"
        /\ \A p \in Children : pc'[p] = pc[p]
        /\ table' \in [Processes -> [Fds -> Values]]
    BY <1>0, <2>1, AllClosedIs, Constants DEF Typed, Points, Tables
  <2>3. Typed'
    BY <1>0, <2>1, <2>2 DEF Typed, options, groups, outcome
  <2>4. ShellOK'
    BY <1>0, <2>1, <2>2
    DEF ShellOK, options, Members, Current, ShellPoints, Launching
  <2>5. \A p \in Children : ChildOK(p)'
    BY <1>0, <2>1, <2>2, ChildKept DEF options
  <2>6. ForkedOK'
    BY <1>0, <2>1, <2>2, Constants DEF ForkedOK, options, outcome
  <2> QED
    BY <2>3, <2>4, <2>5, <2>6 DEF TInv
<1> QED
  BY <1>1, <1>2, <1>3

\* The fork of a command.
LEMMA ForkT ==
  ASSUME TInv, ForkCommand
  PROVE  TInv'
<1> DEFINE k == Current
           fds == IF Last THEN local[Shell].pipeFds ELSE NewPipe(table[Shell])
           open == IF Last THEN table[Shell] ELSE WithPipe(table[Shell], fds, k)
           now == [local[Shell] EXCEPT !.pipeFds = fds]
<1>0. /\ Typed /\ ShellOK /\ ForkedOK
      /\ \A p \in Children : ChildOK(p)
  BY DEF TInv
<1>1. /\ pc[Shell] = "loop"
      /\ Last \/ Cardinality(Free(table[Shell])) >= 2
      /\ table' = [table EXCEPT ![Shell] = open, ![k] = open]
      /\ local' = [local EXCEPT ![Shell] = now, ![k] = now]
      /\ pc' = [pc EXCEPT ![Shell] = "forked", ![k] = "prepare"]
      /\ UNCHANGED << options, content, groups, written, outcome >>
  BY DEF ForkCommand, CanPipe
<1>2. /\ k \in Members /\ k \in Children /\ k \in 1..length
      /\ k # Shell /\ k \in Processes
      /\ Last <=> k = length
      /\ ~Last => k \in 0..MaxCommands - 1
  BY TFacts, Constants DEF Last, Members
<1>3. /\ ~Last => fds \in Fds \X Fds /\ fds[1] # fds[2] /\ fds[2] # 0
      /\ fds \in FdPairs
  <2>1. CASE Last
    BY <2>1, TFacts, LocalsIs
  <2>2. CASE ~Last
    BY <1>1, <2>2, TFacts, NewPipeIs DEF FdPairs
  <2> QED
    BY <2>1, <2>2
<1>4. open \in [Fds -> Values]
  BY <1>2, <1>3, TFacts, WithPipeIs DEF Tables
<1>5. /\ now \in Locals
      /\ now.pipeFds = fds
      /\ now.i = k
      /\ now.inputFd = local[Shell].inputFd
      /\ now.pgid = local[Shell].pgid
      /\ now.pgidPipe = local[Shell].pgidPipe
  BY <1>3, TFacts DEF Locals, Current
<1>6. Assigned(now, k, ~Last) /\ length > 1
  <2>1. Assigned(local[Shell], k, FALSE) /\ length > 1
    BY <1>0, <1>1 DEF ShellOK, Launching
  <2> QED
    BY <1>3, <1>5, <2>1 DEF Assigned
<1> HIDE DEF k, fds, open, now
<1>7. /\ pc' \in [Processes -> Points]
      /\ pc'[Shell] = "forked"
      /\ pc'[k] = "prepare"
      /\ local' \in [Processes -> Locals]
      /\ local'[Shell] = now
      /\ local'[k] = now
      /\ \A p \in Children \ {k} : pc'[p] = pc[p] /\ local'[p] = local[p]
  BY <1>0, <1>1, <1>2, <1>5, Constants DEF Typed, Points
<1>8. Typed'
  <2>1. table' \in [Processes -> [Fds -> Values]]
    BY <1>0, <1>1, <1>2, <1>4 DEF Typed
  <2> QED
    BY <1>0, <1>1, <1>7, <2>1 DEF Typed, options, groups, outcome
<1>9. Current' = k /\ Members' = Members /\ length' = length
  BY <1>1, <1>5, <1>7 DEF Current, Members, options
<1>10. ShellOK'
  <2>1. Last' <=> Last
    BY <1>2, <1>9 DEF Last
  <2>2. Assigned(local[Shell], Current, ~Last)'
    BY <1>1, <1>6, <1>7, <1>9, <2>1 DEF Assigned, options
  <2> QED
    BY <1>2, <1>6, <1>7, <1>9, <2>2 DEF ShellOK, ShellPoints, Launching
<1>11. ASSUME NEW p \in Children PROVE ChildOK(p)'
  <2>1. CASE p = k
    <3>1. p \notin Writers /\ (p < length <=> ~Last) /\ length' = length
      BY <1>2, <1>9, <2>1, TFacts, Constants
    <3>2. Assigned(local[p], p, p < length)'
      BY <1>1, <1>6, <1>7, <2>1, <3>1 DEF Assigned, options
    <3> QED
      BY <1>2, <1>6, <1>7, <1>9, <2>1, <3>1, <3>2
      DEF ChildOK, ShellPoints, Launching
  <2>2. CASE p # k
    BY <1>0, <1>1, <1>7, <2>2, ChildKept DEF options
  <2> QED
    BY <2>1, <2>2
<1>12. ForkedOK'
  <2>1. \A p \in Commands : pc'[p] # "none" <=> p <= k
    <3>1. \A p \in Commands : pc[p] # "none" <=> p < k
      BY <1>0, <1>1 DEF ForkedOK, k
    <3>2. k \in Nat /\ \A p \in Commands : p \in Children /\ p \in Nat
      BY <1>2, Constants
    <3> QED
      BY <1>7, <3>1, <3>2
  <2>2. waited' = 0 /\ \A p \in Commands : pc'[p] # "reaped"
    <3>1. \A p \in Commands : p \in Children
      BY Constants
    <3> QED
      BY <1>0, <1>1, <1>7, <3>1 DEF ForkedOK, outcome
  <2> QED
    BY <1>7, <1>9, <2>1, <2>2 DEF ForkedOK
<1> QED
  BY <1>8, <1>10, <1>11, <1>12 DEF TInv

\* The shell closes descriptors.
LEMMA ParentClosesT ==
  ASSUME Typed, NEW closing, ParentCloses(closing)
  PROVE  table' \in [Processes -> [Fds -> Values]]
<1>1. Without(table[Shell], closing) \in [Fds -> Values]
  BY WithoutIs, Constants DEF Typed, Tables
<1> QED
  BY <1>1 DEF Typed, ParentCloses

\* The next command is to read from the pipe that has been created.
LEMMA NextCommandT ==
  ASSUME TInv, NextCommand, ~Last, local[Shell].pipeFds \in Fds \X Fds
  PROVE  /\ local' \in [Processes -> Locals]
         /\ local'[Shell].i = Current + 1
         /\ Current + 1 \in Members
         /\ local'[Shell].inputFd = local[Shell].pipeFds[1]
         /\ local'[Shell].inputFd \in Fds
         /\ local'[Shell].pgid = local[Shell].pgid
         /\ local'[Shell].pgidPipe = local[Shell].pgidPipe
         /\ local'[Shell].pipeFds = local[Shell].pipeFds
         /\ \A p \in Children : local'[p] = local[p]
<1>1. Current + 1 \in Members /\ Current + 1 \in Commands
  BY TFacts, Constants DEF Last, Members
<1> DEFINE own == [local[Shell] EXCEPT !.inputFd = local[Shell].pipeFds[1],
                                       !.i = @ + 1]
<1>2. local' = [local EXCEPT ![Shell] = own]
  BY TFacts, Constants DEF NextCommand, TInv, Typed
<1>3. /\ own \in Locals
      /\ own.i = Current + 1
      /\ own.inputFd = local[Shell].pipeFds[1]
      /\ own.inputFd \in Fds
      /\ own.pgid = local[Shell].pgid
      /\ own.pgidPipe = local[Shell].pgidPipe
      /\ own.pipeFds = local[Shell].pipeFds
  BY <1>1, TFacts DEF Locals, Current
<1> HIDE DEF own
<1> QED
  BY <1>1, <1>2, <1>3, TFacts, Constants DEF TInv, Typed

\* A step of the shell that forks and reaps nothing.
LEMMA ShellStepT ==
  ASSUME TInv, NEW point \in ShellPoints, Goto(Shell, point)
  PROVE  /\ pc' \in [Processes -> Points]
         /\ pc'[Shell] = point
         /\ \A p \in Children : pc'[p] = pc[p]
         /\ \A p \in Commands : pc'[p] = pc[p]
BY Constants
DEF TInv, Typed, Goto, Points, ShellPoints, Launching, Running, Gone

\* After the fork of the first command.
LEMMA FirstT ==
  ASSUME TInv
  PROVE  /\ ParentOfFirst => TInv'
         /\ Spin => TInv'
<1>0. /\ Typed /\ ShellOK /\ ForkedOK
      /\ \A p \in Children : ChildOK(p)
  BY DEF TInv
<1>1. ParentOfFirst => TInv'
  <2> SUFFICES ASSUME ParentOfFirst PROVE TInv'
    OBVIOUS
  <2>1. /\ pc[Shell] = "forked" /\ First /\ length > 1 /\ ~Last
        /\ Assigned(local[Shell], 1, TRUE)
        /\ UNCHANGED << options, content, groups, written, outcome >>
    <3>1. /\ pc[Shell] = "forked" /\ First /\ length > 1
          /\ UNCHANGED << options, content, groups, written, outcome >>
      BY <1>0 DEF ParentOfFirst, ShellOK, Launching
    <3>2. ~Last
      BY <3>1, TFacts DEF First, Last
    <3>3. Assigned(local[Shell], Current, ~Last)
      BY <1>0, <3>1 DEF ShellOK
    <3> QED
      BY <3>1, <3>2, <3>3 DEF First, Assigned
  <2>2. table' \in [Processes -> [Fds -> Values]]
    BY <1>0, ParentClosesT DEF ParentOfFirst
  <2>3. CASE monitor
    <3>1. /\ local' = [local EXCEPT ![Shell].pgid = 1]
          /\ Goto(Shell, "spin")
      BY <2>3 DEF ParentOfFirst
    <3>2. /\ local' \in [Processes -> Locals]
          /\ local'[Shell].i = 1
          /\ local'[Shell].pgid = 1
          /\ local'[Shell].pgidPipe = local[Shell].pgidPipe
          /\ local'[Shell].pipeFds = local[Shell].pipeFds
          /\ \A p \in Children : local'[p] = local[p]
      BY <1>0, <2>1, <3>1, TFacts, Constants
      DEF Typed, Locals, First, Current
    <3>3. /\ pc' \in [Processes -> Points]
          /\ pc'[Shell] = "spin"
          /\ \A p \in Children : pc'[p] = pc[p]
          /\ \A p \in Commands : pc'[p] = pc[p]
      BY <3>1, ShellStepT DEF ShellPoints, Launching
    <3>4. Typed'
      BY <1>0, <2>1, <2>2, <3>2, <3>3 DEF Typed, options, groups, outcome
    <3>5. ShellOK'
      BY <1>0, <2>1, <2>3, <3>2, <3>3, TFacts
      DEF ShellOK, options, Members, Current, First, ShellPoints, Launching,
          Assigned
    <3>6. \A p \in Children : ChildOK(p)'
      BY <1>0, <2>1, <3>2, <3>3, ChildKept DEF options
    <3>7. ForkedOK'
      BY <1>0, <2>1, <3>2, <3>3 DEF ForkedOK, outcome, Current, First
    <3> QED
      BY <3>4, <3>5, <3>6, <3>7 DEF TInv
  <2>4. CASE ~monitor
    <3>1. NextCommand /\ Goto(Shell, "loop")
      BY <2>4 DEF ParentOfFirst
    <3>2. /\ local' \in [Processes -> Locals]
          /\ local'[Shell].i = 2
          /\ 2 \in Members
          /\ local'[Shell].inputFd \in Fds
          /\ \A p \in Children : local'[p] = local[p]
      BY <2>1, <3>1, NextCommandT DEF First, Assigned
    <3>3. /\ pc' \in [Processes -> Points]
          /\ pc'[Shell] = "loop"
          /\ \A p \in Children : pc'[p] = pc[p]
          /\ \A p \in Commands : pc'[p] = pc[p]
      BY <3>1, ShellStepT DEF ShellPoints, Launching
    <3>4. Typed'
      BY <1>0, <2>1, <2>2, <3>2, <3>3 DEF Typed, options, groups, outcome
    <3>5. ShellOK'
      BY <1>0, <2>1, <2>4, <3>2, <3>3
      DEF ShellOK, options, Members, Current, ShellPoints, Launching, Assigned
    <3>6. \A p \in Children : ChildOK(p)'
      BY <1>0, <2>1, <3>2, <3>3, ChildKept DEF options
    <3>7. ForkedOK'
      <4>1. \A p \in Commands : p <= 1 <=> p < 2
        BY Constants
      <4> QED
        BY <1>0, <2>1, <3>2, <3>3, <4>1 DEF ForkedOK, outcome, Current, First
    <3> QED
      BY <3>4, <3>5, <3>6, <3>7 DEF TInv
  <2> QED
    BY <2>3, <2>4
<1>2. Spin => TInv'
  <2> SUFFICES ASSUME Spin PROVE TInv'
    OBVIOUS
  <2>1. /\ pc[Shell] = "spin" /\ First /\ ~Last /\ length > 1
        /\ Assigned(local[Shell], 1, TRUE)
        /\ local[Shell].pgid = 1
        /\ NextCommand /\ Goto(Shell, "loop")
        /\ UNCHANGED << options, table, content, groups, written, outcome >>
    <3>1. /\ pc[Shell] = "spin" /\ First /\ length > 1
          /\ Assigned(local[Shell], 1, TRUE)
          /\ local[Shell].pgid = 1
      BY <1>0 DEF Spin, ShellOK, Launching
    <3>2. ~Last
      BY <3>1, TFacts DEF First, Last
    <3> QED
      BY <3>1, <3>2 DEF Spin
  <2>2. /\ local' \in [Processes -> Locals]
        /\ local'[Shell].i = 2
        /\ 2 \in Members
        /\ local'[Shell].inputFd \in Fds
        /\ local'[Shell].pgid = 1
        /\ local'[Shell].pgidPipe = local[Shell].pgidPipe
        /\ \A p \in Children : local'[p] = local[p]
    BY <2>1, NextCommandT DEF First, Assigned
  <2>3. /\ pc' \in [Processes -> Points]
        /\ pc'[Shell] = "loop"
        /\ \A p \in Children : pc'[p] = pc[p]
        /\ \A p \in Commands : pc'[p] = pc[p]
    BY <2>1, ShellStepT DEF ShellPoints, Launching
  <2>4. Typed'
    BY <1>0, <2>1, <2>2, <2>3 DEF Typed, options, groups, outcome
  <2>5. ShellOK'
    BY <1>0, <2>1, <2>2, <2>3
    DEF ShellOK, options, Members, Current, ShellPoints, Launching, Assigned
  <2>6. \A p \in Children : ChildOK(p)'
    BY <1>0, <2>1, <2>2, <2>3, ChildKept DEF options
  <2>7. ForkedOK'
    <3>1. \A p \in Commands : p <= 1 <=> p < 2
      BY Constants
    <3> QED
      BY <1>0, <2>1, <2>2, <2>3, <3>1 DEF ForkedOK, outcome, Current, First
  <2> QED
    BY <2>4, <2>5, <2>6, <2>7 DEF TInv
<1> QED
  BY <1>1, <1>2

\* The parent puts a command into the process group.
LEMMA JoinGroupT ==
  ASSUME TInv, pc[Shell] = "forked", Current > 1, JoinGroup
  PROVE  /\ group' \in [Processes -> {Shell, 1}]
         /\ monitor => group' = [group EXCEPT ![Current] = 1]
         /\ ~monitor => group' = group
<1>1. monitor => local[Shell].pgid = 1
  BY DEF TInv, ShellOK, Assigned
<1> QED
  BY <1>1 DEF TInv, Typed, JoinGroup

\* After the forks of the other commands.
LEMMA MiddleT ==
  ASSUME TInv
  PROVE  /\ ParentOfMiddle => TInv'
         /\ ParentOfLast => TInv'
         /\ AssertionFails => TInv'
         /\ Release => TInv'
<1>0. /\ Typed /\ ShellOK /\ ForkedOK
      /\ \A p \in Children : ChildOK(p)
      /\ Current \in Nat \ {0}
  BY TFacts DEF TInv
<1>1. ParentOfMiddle => TInv'
  <2> SUFFICES ASSUME ParentOfMiddle PROVE TInv'
    OBVIOUS
  <2>1. /\ pc[Shell] = "forked" /\ Current > 1 /\ ~Last /\ length > 1
        /\ Assigned(local[Shell], Current, TRUE)
        /\ JoinGroup /\ NextCommand /\ Goto(Shell, "loop")
        /\ UNCHANGED << options, content, foreground, written, outcome >>
    <3>1. /\ pc[Shell] = "forked" /\ Current > 1 /\ ~Last /\ length > 1
          /\ Assigned(local[Shell], Current, ~Last)
      BY <1>0 DEF ParentOfMiddle, ShellOK, First, Launching
    <3>2. Assigned(local[Shell], Current, TRUE)
      BY <3>1 DEF Assigned
    <3> QED
      BY <3>1, <3>2 DEF ParentOfMiddle
  <2>2. /\ local' \in [Processes -> Locals]
        /\ local'[Shell].i = Current + 1
        /\ Current + 1 \in Members
        /\ local'[Shell].inputFd \in Fds
        /\ local'[Shell].pgid = local[Shell].pgid
        /\ local'[Shell].pgidPipe = local[Shell].pgidPipe
        /\ \A p \in Children : local'[p] = local[p]
    BY <2>1, NextCommandT DEF Assigned
  <2>3. /\ pc' \in [Processes -> Points]
        /\ pc'[Shell] = "loop"
        /\ \A p \in Children : pc'[p] = pc[p]
        /\ \A p \in Commands : pc'[p] = pc[p]
    BY <2>1, ShellStepT DEF ShellPoints, Launching
  <2>4. /\ table' \in [Processes -> [Fds -> Values]]
        /\ group' \in [Processes -> {Shell, 1}]
    BY <1>0, <2>1, ParentClosesT, JoinGroupT DEF ParentOfMiddle
  <2>5. Typed'
    BY <1>0, <2>1, <2>2, <2>3, <2>4 DEF Typed, options, outcome
  <2>6. ShellOK'
    BY <1>0, <2>1, <2>2, <2>3
    DEF ShellOK, options, Members, Current, ShellPoints, Launching, Assigned
  <2>7. \A p \in Children : ChildOK(p)'
    BY <1>0, <2>1, <2>2, <2>3, ChildKept DEF options
  <2>8. ForkedOK'
    <3>1. \A p \in Commands : p <= Current <=> p < Current + 1
      BY <1>0, Constants
    <3>2. Current' = Current + 1
      BY <2>2 DEF Current
    <3> QED
      BY <1>0, <2>1, <2>3, <3>1, <3>2 DEF ForkedOK, outcome
  <2> QED
    BY <2>5, <2>6, <2>7, <2>8 DEF TInv
<1>2. ParentOfLast => TInv'
  <2> SUFFICES ASSUME ParentOfLast PROVE TInv'
    OBVIOUS
  <2>1. /\ pc[Shell] = "forked" /\ Current = length /\ Current > 1
        /\ Assigned(local[Shell], Current, FALSE)
        /\ JoinGroup
        /\ Goto(Shell, IF monitor THEN "release" ELSE "wait")
        /\ UNCHANGED << options, content, local, foreground, written, outcome >>
    BY <1>0 DEF ParentOfLast, ShellOK, Last, Launching
  <2>2. /\ pc' \in [Processes -> Points]
        /\ pc'[Shell] = IF monitor THEN "release" ELSE "wait"
        /\ \A p \in Children : pc'[p] = pc[p]
        /\ \A p \in Commands : pc'[p] = pc[p]
    BY <2>1, ShellStepT DEF ShellPoints
  <2>3. /\ table' \in [Processes -> [Fds -> Values]]
        /\ group' \in [Processes -> {Shell, 1}]
    BY <1>0, <2>1, ParentClosesT, JoinGroupT DEF ParentOfLast
  <2>4. Typed'
    BY <1>0, <2>1, <2>2, <2>3 DEF Typed, options, outcome
  <2>5. ShellOK'
    BY <1>0, <2>1, <2>2
    DEF ShellOK, options, Members, Current, ShellPoints, Launching, Assigned
  <2>6. \A p \in Children : ChildOK(p)'
    BY <1>0, <2>1, <2>2, ChildKept DEF options
  <2>7. ForkedOK'
    BY <1>0, <2>1, <2>2 DEF ForkedOK, options, outcome
  <2> QED
    BY <2>4, <2>5, <2>6, <2>7 DEF TInv
<1>3. AssertionFails => TInv'
  <2> SUFFICES ASSUME AssertionFails PROVE TInv'
    OBVIOUS
  <2>1. /\ pc[Shell] = "forked"
        /\ table' = [table EXCEPT ![Shell] = AllClosed]
        /\ Goto(Shell, "aborted")
        /\ UNCHANGED << options, content, local, groups, written, outcome >>
    BY DEF AssertionFails
  <2>2. /\ pc' \in [Processes -> Points]
        /\ pc'[Shell] = "aborted"
        /\ \A p \in Children : pc'[p] = pc[p]
        /\ \A p \in Commands : pc'[p] = pc[p]
    BY <2>1, ShellStepT DEF ShellPoints
  <2>3. Typed'
    BY <1>0, <2>1, <2>2, AllClosedIs
    DEF Typed, options, groups, outcome, Tables
  <2>4. ShellOK'
    BY <1>0, <2>1, <2>2
    DEF ShellOK, options, Members, Current, ShellPoints, Launching
  <2>5. \A p \in Children : ChildOK(p)'
    BY <1>0, <2>1, <2>2, ChildKept DEF options
  <2>6. ForkedOK'
    BY <1>0, <2>1, <2>2 DEF ForkedOK, outcome
  <2> QED
    BY <2>3, <2>4, <2>5, <2>6 DEF TInv
<1>4. Release => TInv'
  <2> SUFFICES ASSUME Release PROVE TInv'
    OBVIOUS
  <2>1. /\ pc[Shell] = "release"
        /\ Goto(Shell, "wait")
        /\ UNCHANGED << options, content, local, groups, written, outcome >>
    BY DEF Release
  <2>2. /\ pc' \in [Processes -> Points]
        /\ pc'[Shell] = "wait"
        /\ \A p \in Children : pc'[p] = pc[p]
        /\ \A p \in Commands : pc'[p] = pc[p]
    BY <2>1, ShellStepT DEF ShellPoints
  <2>3. table' \in [Processes -> [Fds -> Values]]
    BY <1>0, ParentClosesT DEF Release
  <2>4. Typed'
    BY <1>0, <2>1, <2>2, <2>3 DEF Typed, options, groups, outcome
  <2>5. ShellOK'
    BY <1>0, <2>1, <2>2
    DEF ShellOK, options, Members, Current, ShellPoints, Launching
  <2>6. \A p \in Children : ChildOK(p)'
    BY <1>0, <2>1, <2>2, ChildKept DEF options
  <2>7. ForkedOK'
    BY <1>0, <2>1, <2>2 DEF ForkedOK, options, outcome
  <2> QED
    BY <2>4, <2>5, <2>6, <2>7 DEF TInv
<1> QED
  BY <1>1, <1>2, <1>3, <1>4

\* The shell waits.
LEMMA WaitT ==
  ASSUME TInv
  PROVE  /\ WaitForCommand => TInv'
         /\ Wait => TInv'
         /\ PipelineReturns => TInv'
<1>0. /\ Typed /\ ShellOK /\ ForkedOK
      /\ \A p \in Children : ChildOK(p)
      /\ length \in Children /\ length \in Nat \ {0}
      /\ \A p \in Commands : p \in Children
  BY TFacts, Constants DEF TInv
<1>1. WaitForCommand => TInv'
  <2> SUFFICES ASSUME WaitForCommand PROVE TInv'
    OBVIOUS
  <2> DEFINE point == IF length = 1 THEN "done" ELSE "reap"
  <2>1. /\ pc[Shell] = "wait" /\ pc[length] = "ended"
        /\ result' = status[length]
        /\ pc' = [pc EXCEPT ![length] = "reaped", ![Shell] = point]
        /\ foreground' \in {Shell, foreground}
        /\ UNCHANGED << options, table, content, local, group, written,
                        status, waited >>
    BY DEF WaitForCommand
  <2>2. /\ pc' \in [Processes -> Points]
        /\ pc'[Shell] = point
        /\ pc'[length] = "reaped"
        /\ \A p \in Children \ {length} : pc'[p] = pc[p]
    BY <1>0, <2>1, Constants DEF Typed, Points, Gone
  <2>3. Typed'
    BY <1>0, <2>1, <2>2, Constants DEF Typed, options
  <2>4. ShellOK'
    BY <1>0, <2>1, <2>2
    DEF ShellOK, options, Members, Current, ShellPoints, Launching
  <2>5. ASSUME NEW p \in Children PROVE ChildOK(p)'
    <3>1. CASE p = length
      BY <1>0, <2>1, <2>2, <3>1
      DEF ChildOK, options, Members, ShellPoints, Launching, Gone
    <3>2. CASE p # length
      BY <1>0, <2>1, <2>2, <3>2, ChildKept DEF options
    <3> QED
      BY <3>1, <3>2
  <2>6. ForkedOK'
    <3>1. waited' = 0 /\ (length = 1 => waited' = length - 1)
      BY <1>0, <2>1 DEF ForkedOK
    <3>2. \A p \in Commands : pc'[p] # "none" <=> p <= length
      <4>1. \A p \in Commands : pc[p] # "none" <=> p <= length
        BY <1>0, <2>1 DEF ForkedOK
      <4> QED
        BY <1>0, <2>1, <2>2, <4>1
    <3>3. /\ pc'[Shell] \in {"reap", "done"}
          /\ pc'[Shell] = "done" => length = 1
          /\ length' = length
          /\ result' = status'[length]
      BY <2>1, <2>2 DEF options
    <3> QED
      BY <2>2, <3>1, <3>2, <3>3 DEF ForkedOK
  <2> QED
    BY <2>3, <2>4, <2>5, <2>6 DEF TInv
<1>2. Wait => TInv'
  <2> SUFFICES ASSUME Wait PROVE TInv'
    OBVIOUS
  <2>1. PICK child \in Children : pc[child] = "ended" /\ Goto(child, "reaped")
    BY DEF Wait
  <2>2. /\ pc[Shell] = "reap" /\ waited # length - 1
        /\ waited' = waited + 1
        /\ UNCHANGED << options, table, content, local, groups, written,
                        status, result >>
    BY DEF Wait, AllWaited
  <2>3. /\ pc' \in [Processes -> Points]
        /\ pc'[Shell] = "reap"
        /\ pc'[child] = "reaped"
        /\ \A p \in Children \ {child} : pc'[p] = pc[p]
    BY <1>0, <2>1, <2>2, Constants DEF Typed, Goto, Points, Gone
  <2>4. Typed'
    BY <1>0, <2>2, <2>3 DEF Typed, options, groups
  <2>5. ShellOK'
    BY <1>0, <2>2, <2>3
    DEF ShellOK, options, Members, Current, ShellPoints, Launching
  <2>6. ASSUME NEW p \in Children PROVE ChildOK(p)'
    <3>1. CASE p = child
      BY <1>0, <2>1, <2>2, <2>3, <3>1
      DEF ChildOK, options, Members, ShellPoints, Launching, Gone
    <3>2. CASE p # child
      BY <1>0, <2>2, <2>3, <3>2, ChildKept DEF options
    <3> QED
      BY <3>1, <3>2
  <2>7. ForkedOK'
    <3>1. \A p \in Commands : pc'[p] # "none" <=> pc[p] # "none"
      BY <1>0, <2>1, <2>3
    <3>2. pc'[length] = "reaped"
      BY <1>0, <2>1, <2>2, <2>3 DEF ForkedOK
    <3> QED
      BY <1>0, <2>2, <2>3, <3>1, <3>2 DEF ForkedOK, options
  <2> QED
    BY <2>4, <2>5, <2>6, <2>7 DEF TInv
<1>3. PipelineReturns => TInv'
  <2> SUFFICES ASSUME PipelineReturns PROVE TInv'
    OBVIOUS
  <2>1. /\ pc[Shell] = "reap" /\ waited = length - 1
        /\ Goto(Shell, "done")
        /\ UNCHANGED << options, table, content, local, groups, written,
                        outcome >>
    BY DEF PipelineReturns, AllWaited
  <2>2. /\ pc' \in [Processes -> Points]
        /\ pc'[Shell] = "done"
        /\ \A p \in Children : pc'[p] = pc[p]
        /\ \A p \in Commands : pc'[p] = pc[p]
    BY <2>1, ShellStepT DEF ShellPoints
  <2>3. Typed'
    BY <1>0, <2>1, <2>2 DEF Typed, options, groups, outcome
  <2>4. ShellOK'
    BY <1>0, <2>1, <2>2
    DEF ShellOK, options, Members, Current, ShellPoints, Launching
  <2>5. \A p \in Children : ChildOK(p)'
    BY <1>0, <2>1, <2>2, ChildKept DEF options
  <2>6. ForkedOK'
    BY <1>0, <2>1, <2>2 DEF ForkedOK, options, outcome
  <2> QED
    BY <2>3, <2>4, <2>5, <2>6 DEF TInv
<1> QED
  BY <1>1, <1>2, <1>3

\* What the steps of a child have in common: it goes to another point and the
\* shell and the other children stay where they are.
ChildPoints == {"group", "foreground", "gate"} \cup Running \cup {"ended"}

Moves(p, point) ==
  /\ pc[p] \notin {"none", "reaped", "ended"}
  /\ point \in ChildPoints
  /\ Goto(p, point)
  /\ UNCHANGED << options, local, result, waited >>
  /\ \A q \in Processes \ {p} : written'[q] = written[q]

LEMMA MoveT ==
  ASSUME TInv, NEW p \in Children, NEW point, Moves(p, point),
         p \in Writers => point = "ended",
         point = "group" =>
           /\ monitor /\ p > 1 => local[p].pgid = 1
           /\ monitor /\ length > 1 => local[p].pgidPipe \in Fds \X Fds,
         point = "foreground" => /\ monitor /\ p = 1
                                 /\ length > 1 => local[p].pgidPipe \in Fds \X Fds,
         point = "gate" => /\ monitor /\ p = 1 /\ length > 1
                           /\ local[p].pgidPipe \in Fds \X Fds,
         point = "write" => written'[p] < MaxWrites,
         status' \in [Processes -> {0, 1}],
         \A q \in Processes \ {p} : status'[q] = status[q],
         written' \in [Processes -> 0..MaxWrites],
         table' \in [Processes -> [Fds -> Values]],
         content' \in [Pipes -> 0..Capacity],
         group' \in [Processes -> {Shell, 1}],
         foreground' \in {Shell, 1}
  PROVE  TInv'
<1>0. /\ Typed /\ ShellOK /\ ForkedOK
      /\ \A q \in Children : ChildOK(q)
      /\ length \in Children /\ length \in Nat \ {0}
      /\ \A q \in Commands : q \in Children
  BY TFacts, Constants DEF TInv
<1>1. /\ pc' \in [Processes -> Points]
      /\ pc'[Shell] = pc[Shell]
      /\ pc'[p] = point
      /\ \A q \in Children \ {p} : pc'[q] = pc[q]
      /\ UNCHANGED << options, local, result, waited >>
  BY <1>0, Constants
  DEF Typed, Moves, Goto, Points, ChildPoints, Running, Gone
<1>2. Typed'
  BY <1>0, <1>1 DEF Typed, options
<1>3. ShellOK'
  BY <1>0, <1>1
  DEF ShellOK, options, Members, Current, First, Last, ShellPoints, Launching,
      Assigned
<1>4. ASSUME NEW q \in Children PROVE ChildOK(q)'
  <2>1. CASE q = p
    <3>1. point \notin ShellPoints /\ point \notin {"none", "prepare"}
      BY DEF Moves, ChildPoints, Running, ShellPoints, Launching
    <3>2. p \in Commands => p \in Members
      BY <1>0 DEF ChildOK, Moves
    <3> QED
      BY <1>1, <2>1, <3>1, <3>2 DEF ChildOK, options, Members, Gone
  <2>2. CASE q # p
    <3>1. written'[q] = written[q]
      BY <2>2, Constants DEF Moves
    <3> QED
      BY <1>0, <1>1, <2>2, <3>1, ChildKept DEF options
  <2> QED
    BY <2>1, <2>2
<1>5. ForkedOK'
  <2>1. /\ \A q \in Commands : pc'[q] # "none" <=> pc[q] # "none"
        /\ \A q \in Commands : pc'[q] = "reaped" <=> pc[q] = "reaped"
    BY <1>0, <1>1 DEF Moves, ChildPoints, Running
  <2>2. pc[length] = "reaped" => status'[length] = status[length]
    BY <1>0, Constants DEF Moves
  <2>3. Current' = Current /\ length' = length /\ result' = result
        /\ waited' = waited
    BY <1>1 DEF Current, options
  <2>4. length \in Commands
    BY TFacts
  <2> QED
    BY <1>0, <1>1, <2>1, <2>2, <2>3, <2>4 DEF ForkedOK
<1> QED
  BY <1>2, <1>3, <1>4, <1>5 DEF TInv

\* A command that begins, or goes on, does what it may.
LEMMA BeginsMoves ==
  ASSUME NEW p \in Children, Begins(p)
  PROVE  \E point \in {"read", "write", "end"} :
           Goto(p, point) /\ (point = "write" => written[p] < MaxWrites)
BY DEF Begins, Choices

\* The descriptors of a command.
LEMMA ForCommandT ==
  ASSUME TInv, NEW p \in Children, pc[p] = "prepare"
  PROVE  /\ p \in Members
         /\ ForCommand(p) \in Tables
<1>1. /\ ChildOK(p)
      /\ table[p] \in Tables /\ local[p] \in Locals
      /\ length \in Nat \ {0}
  BY TFacts DEF TInv
<1>2. p \notin Writers /\ p \in Commands
  BY <1>1, Constants DEF ChildOK, Gone
<1>3. /\ p \in Members
      /\ p # 1 => local[p].inputFd \in Fds
      /\ p # length => local[p].pipeFds[2] \in Fds
  BY <1>1, <1>2, Constants DEF ChildOK, Assigned, Members
<1> DEFINE own == local[p]
           closed == Without(table[p],
                             (IF monitor THEN {own.pgidPipe[2]} ELSE {})
                             \cup IF p < length THEN {own.pipeFds[1]} ELSE {})
           input == IF p = 1 THEN closed ELSE Moved(closed, own.inputFd, 0)
<1>4. closed \in Tables
  BY <1>1, WithoutIs
<1> HIDE DEF closed
<1>5. input \in Tables
  BY <1>3, <1>4, MovedIs, Constants
<1> HIDE DEF input
<1>6. ForCommand(p) = IF p = length THEN input
                      ELSE Moved(input, own.pipeFds[2], 1)
  BY DEF ForCommand, input, closed
<1>7. p # length => Moved(input, own.pipeFds[2], 1) \in Tables
  <2>1. ASSUME NEW fd \in Fds PROVE Moved(input, fd, 1) \in Tables
    BY <1>5, MovedIs, Constants
  <2> QED
    BY <1>3, <2>1
<1> QED
  BY <1>3, <1>5, <1>6, <1>7

\* The types that a step of a child keeps.
LEMMA KeptT ==
  ASSUME TInv
  PROVE  /\ status \in [Processes -> {0, 1}]
         /\ written \in [Processes -> 0..MaxWrites]
         /\ table \in [Processes -> [Fds -> Values]]
         /\ content \in [Pipes -> 0..Capacity]
         /\ group \in [Processes -> {Shell, 1}]
         /\ foreground \in {Shell, 1}
BY DEF TInv, Typed

\* The steps of a child before the command.
LEMMA ChildStartsT ==
  ASSUME TInv, NEW p \in Children
  PROVE  /\ Prepare(p) => TInv'
         /\ SetGroup(p) => TInv'
         /\ TakeTerminal(p) => TInv'
         /\ PassGate(p) => TInv'
<1>0. /\ ChildOK(p) /\ p \in Processes
      /\ p \in Writers => pc[p] \in {"end", "ended", "reaped"}
  BY Constants DEF TInv, ChildOK, Gone
<1>1. Prepare(p) => TInv'
  <2> SUFFICES ASSUME Prepare(p) PROVE TInv'
    OBVIOUS
  <2>1. /\ pc[p] = "prepare"
        /\ table' = [table EXCEPT ![p] = ForCommand(p)]
        /\ UNCHANGED << options, content, local, groups, written, outcome >>
    BY DEF Prepare
  <2>2. PICK point \in {"group", "read", "write", "end"} :
          /\ Goto(p, point)
          /\ point = "write" => written[p] < MaxWrites
    BY BeginsMoves DEF Prepare
  <2>3. table' \in [Processes -> [Fds -> Values]]
    BY <2>1, ForCommandT, KeptT DEF Tables
  <2>4. Moves(p, point)
    BY <2>1, <2>2 DEF Moves, ChildPoints, Running, outcome
  <2>5. point = "group" =>
          /\ monitor /\ p > 1 => local[p].pgid = 1
          /\ monitor /\ length > 1 => local[p].pgidPipe \in Fds \X Fds
    BY <1>0, <2>1 DEF ChildOK, Assigned
  <2> QED
    BY <1>0, <2>1, <2>2, <2>3, <2>4, <2>5, KeptT, MoveT DEF groups, outcome
<1>2. SetGroup(p) => TInv'
  <2> SUFFICES ASSUME SetGroup(p) PROVE TInv'
    OBVIOUS
  <2>1. /\ pc[p] = "group"
        /\ group' = IF ~monitor THEN group
                    ELSE [group EXCEPT ![p] = IF p = 1 THEN p ELSE local[p].pgid]
        /\ UNCHANGED << options, table, content, local, foreground, written,
                        outcome >>
    BY DEF SetGroup
  <2>2. PICK point \in {"foreground", "gate", "read", "write", "end"} :
          /\ Goto(p, point)
          /\ point = "write" => written[p] < MaxWrites
          /\ point \in {"foreground", "gate"} => monitor /\ p = 1
          /\ point = "gate" => length > 1
    BY BeginsMoves DEF SetGroup
  <2>3. group' \in [Processes -> {Shell, 1}]
    <3>1. monitor /\ p # 1 => local[p].pgid = 1
      BY <1>0, <2>1, Constants DEF ChildOK
    <3> QED
      BY <2>1, <3>1, KeptT
  <2>4. Moves(p, point)
    BY <2>1, <2>2 DEF Moves, ChildPoints, Running, outcome
  <2>5. monitor /\ length > 1 => local[p].pgidPipe \in Fds \X Fds
    BY <1>0, <2>1 DEF ChildOK
  <2> QED
    BY <1>0, <2>1, <2>2, <2>3, <2>4, <2>5, KeptT, MoveT DEF outcome
<1>3. TakeTerminal(p) => TInv'
  <2> SUFFICES ASSUME TakeTerminal(p) PROVE TInv'
    OBVIOUS
  <2>1. /\ pc[p] = "foreground" /\ monitor /\ p = 1
        /\ foreground' = group[p]
        /\ length > 1 => local[p].pgidPipe \in Fds \X Fds
        /\ UNCHANGED << options, table, content, local, group, written,
                        outcome >>
    BY <1>0 DEF TakeTerminal, ChildOK
  <2>2. PICK point \in {"gate", "read", "write", "end"} :
          /\ Goto(p, point)
          /\ point = "write" => written[p] < MaxWrites
          /\ point = "gate" => length > 1
    BY BeginsMoves DEF TakeTerminal
  <2>3. foreground' \in {Shell, 1}
    BY <1>0, <2>1, KeptT
  <2>4. Moves(p, point)
    BY <2>1, <2>2 DEF Moves, ChildPoints, Running, outcome
  <2> QED
    BY <1>0, <2>1, <2>2, <2>3, <2>4, KeptT, MoveT DEF outcome
<1>4. PassGate(p) => TInv'
  <2> SUFFICES ASSUME PassGate(p) PROVE TInv'
    OBVIOUS
  <2>1. /\ pc[p] = "gate"
        /\ table' = [table EXCEPT ![p] = Without(@, {local[p].pgidPipe[1]})]
        /\ UNCHANGED << options, content, local, groups, written, outcome >>
    BY DEF PassGate
  <2>2. PICK point \in {"read", "write", "end"} :
          /\ Goto(p, point)
          /\ point = "write" => written[p] < MaxWrites
    BY BeginsMoves DEF PassGate
  <2>3. table' \in [Processes -> [Fds -> Values]]
    <3>1. Without(table[p], {local[p].pgidPipe[1]}) \in [Fds -> Values]
      BY TFacts, WithoutIs DEF Tables
    <3> QED
      BY <2>1, <3>1, KeptT
  <2>4. Moves(p, point)
    BY <2>1, <2>2 DEF Moves, ChildPoints, Running, outcome
  <2> QED
    BY <1>0, <2>1, <2>2, <2>3, <2>4, KeptT, MoveT DEF groups, outcome
<1> QED
  BY <1>1, <1>2, <1>3, <1>4

\* A process that has ended.
LEMMA EndedT ==
  ASSUME TInv, NEW p \in Children, NEW s \in {0, 1}, Ended(p, s)
  PROVE  /\ table' \in [Processes -> [Fds -> Values]]
         /\ status' \in [Processes -> {0, 1}]
         /\ \A q \in Processes \ {p} : status'[q] = status[q]
         /\ Goto(p, "ended")
BY KeptT, AllClosedIs DEF Ended, Tables

\* The steps of a command.
LEMMA CommandT ==
  ASSUME TInv, NEW p \in Children
  PROVE  /\ ReadFromPipe(p) => TInv'
         /\ Stops(p) \/ Continues(p) \/ ReadsEnd(p) => TInv'
         /\ Write(p) => TInv'
         /\ WriteFails(p) \/ End(p) \/ PreparationFails(p) => TInv'
<1>0. /\ ChildOK(p) /\ p \in Processes
      /\ p \in Writers => pc[p] \in {"end", "ended", "reaped"}
  BY Constants DEF TInv, ChildOK, Gone
<1>1. ReadFromPipe(p) => TInv'
  <2> SUFFICES ASSUME ReadFromPipe(p) PROVE TInv'
    OBVIOUS
  <2>1. /\ pc[p] = "read"
        /\ UNCHANGED << options, table, local, groups, written, outcome >>
    BY DEF ReadFromPipe
  <2>2. PICK point \in {"read", "write", "end"} :
          /\ Goto(p, point)
          /\ point = "write" => written[p] < MaxWrites
    BY BeginsMoves DEF ReadFromPipe
  <2>3. content' \in [Pipes -> 0..Capacity]
    BY KeptT, Constants DEF ReadFromPipe
  <2>4. Moves(p, point)
    BY <2>1, <2>2 DEF Moves, ChildPoints, Running, outcome
  <2> QED
    BY <1>0, <2>1, <2>2, <2>3, <2>4, KeptT, MoveT DEF groups, outcome
<1>2. Stops(p) \/ Continues(p) \/ ReadsEnd(p) => TInv'
  <2> SUFFICES ASSUME Stops(p) \/ Continues(p) \/ ReadsEnd(p) PROVE TInv'
    OBVIOUS
  <2>1. /\ pc[p] \in {"read", "stopped"}
        /\ UNCHANGED << options, table, content, local, groups, written,
                        outcome >>
    BY DEF Stops, Continues, ReadsEnd
  <2>2. PICK point \in {"read", "stopped", "write", "end"} :
          /\ Goto(p, point)
          /\ point = "write" => written[p] < MaxWrites
    BY DEF Stops, Continues, ReadsEnd, Choices
  <2>3. Moves(p, point)
    BY <2>1, <2>2 DEF Moves, ChildPoints, Running, outcome
  <2> QED
    BY <1>0, <2>1, <2>2, <2>3, KeptT, MoveT DEF groups, outcome
<1>3. Write(p) => TInv'
  <2> SUFFICES ASSUME Write(p) PROVE TInv'
    OBVIOUS
  <2>1. /\ pc[p] = "write" /\ written[p] < MaxWrites
        /\ written' = [written EXCEPT ![p] = @ + 1]
        /\ UNCHANGED << options, table, local, groups, outcome >>
    BY <1>0 DEF Write, ChildOK
  <2>2. PICK point \in {"read", "write", "end"} :
          /\ Goto(p, point)
          /\ point = "write" => written[p] + 1 < MaxWrites
    BY DEF Write
  <2>3. /\ written' \in [Processes -> 0..MaxWrites]
        /\ written'[p] = written[p] + 1
        /\ \A q \in Processes \ {p} : written'[q] = written[q]
    BY <1>0, <2>1, KeptT, Constants
  <2>4. content' \in [Pipes -> 0..Capacity]
    <3>1. \A pipe \in Pipes :
            table[p][1] = WriteEnd(pipe) => content[pipe] < Capacity
      BY DEF Write
    <3>2. content' = [pipe \in Pipes |->
                        IF table[p][1] = WriteEnd(pipe) THEN content[pipe] + 1
                        ELSE content[pipe]]
      BY DEF Write
    <3> QED
      BY <3>1, <3>2, KeptT, Constants
  <2>5. Moves(p, point)
    BY <2>1, <2>2, <2>3 DEF Moves, ChildPoints, Running, outcome
  <2> QED
    BY <1>0, <2>1, <2>2, <2>3, <2>4, <2>5, KeptT, MoveT DEF groups, outcome
<1>4. WriteFails(p) \/ End(p) \/ PreparationFails(p) => TInv'
  <2> SUFFICES ASSUME WriteFails(p) \/ End(p) \/ PreparationFails(p) PROVE TInv'
    OBVIOUS
  <2>1. /\ pc[p] \in {"write", "end", "prepare"}
        /\ UNCHANGED << options, content, local, groups, written, result,
                        waited >>
    BY DEF WriteFails, End, PreparationFails
  <2>2. PICK s \in {0, 1} : Ended(p, s)
    BY DEF WriteFails, End, PreparationFails
  <2>3. Moves(p, "ended")
    BY <2>1, <2>2, EndedT DEF Moves, ChildPoints, Running
  <2> QED
    BY <2>1, <2>2, <2>3, EndedT, KeptT, MoveT DEF groups
<1> QED
  BY <1>1, <1>2, <1>3, <1>4

\* Every step preserves the types and the places of the processes.
LEMMA NextT == TInv /\ [Next]_vars => TInv'
<1> SUFFICES ASSUME TInv, [Next]_vars PROVE TInv'
  OBVIOUS
<1>1. CASE UNCHANGED vars
  BY <1>1
  DEF vars, options, groups, outcome, TInv, Typed, ShellOK, ChildOK, ForkedOK,
      Current, First, Last, Members, Assigned
<1>2. CASE Parent \/ Fails
  BY <1>2, StartT, ForkT, FirstT, MiddleT, WaitT DEF Parent
<1>3. CASE \E p \in Children : Child(p) \/ Continues(p) \/ PreparationFails(p)
  BY <1>3, ChildStartsT, CommandT DEF Child
<1> QED
  BY <1>1, <1>2, <1>3 DEF Next, SpinsOn, Terminated

\* The inductive invariant implies those the runs check.
LEMMA TImplies == TInv => TypeOK /\ StatusIsTheLast
<1> SUFFICES ASSUME TInv PROVE TypeOK /\ StatusIsTheLast
  OBVIOUS
<1>1. \A p \in Processes :
        /\ local[p].i \in Commands
        /\ local[p].inputFd \in Fds \cup {-1}
        /\ local[p].pgid \in {-1, 1}
  BY DEF TInv, Typed, Locals
<1>2. waited \in 0..MaxCommands - 1
  BY TFacts, Constants DEF TInv, Typed
<1>3. TypeOK
  BY <1>1, <1>2 DEF TypeOK, TInv, Typed
<1>4. StatusIsTheLast
  BY DEF TInv, ForkedOK, StatusIsTheLast
<1> QED
  BY <1>3, <1>4

\* Whatever the number of commands and however they run, every variable of a
\* pipeline has its type.
THEOREM TypeCorrect == Spec => []TypeOK
<1>1. Init => TInv
  BY InitT
<1>2. TInv /\ [Next]_vars => TInv'
  BY NextT
<1>3. TInv => TypeOK
  BY TImplies
<1> QED
  BY <1>1, <1>2, <1>3, PTL DEF Spec

\* A pipeline's status is that of its last command, whichever command ends
\* first.
THEOREM StatusIsLast == Spec => []StatusIsTheLast
<1>1. Init => TInv
  BY InitT
<1>2. TInv /\ [Next]_vars => TInv'
  BY NextT
<1>3. TInv => StatusIsTheLast
  BY TImplies
<1> QED
  BY <1>1, <1>2, <1>3, PTL DEF Spec

(***************************************************************************)
(* The end of the commands.                                                *)
(***************************************************************************)
\* A child's step changes nothing of the shell's or of another child's.
LEMMA ChildMoves ==
  ASSUME TInv, NEW p \in Children,
         Child(p) \/ Continues(p) \/ PreparationFails(p)
  PROVE  /\ \A q \in Processes \ {p} : /\ table'[q] = table[q]
                                       /\ group'[q] = group[q]
         /\ \E point : Moves(p, point)
<1>0. /\ ChildOK(p) /\ p \in Processes
      /\ pc[p] \notin {"none", "reaped", "ended"}
      /\ UNCHANGED << options, local, result, waited >>
      /\ \A q \in Processes \ {p} : /\ table'[q] = table[q]
                                    /\ group'[q] = group[q]
                                    /\ written'[q] = written[q]
  <2>1. p \in Processes /\ ChildOK(p) /\ Typed
    BY Constants DEF TInv
  <2>2. CASE Prepare(p) \/ SetGroup(p) \/ TakeTerminal(p) \/ PassGate(p)
    BY <2>1, <2>2 DEF Prepare, SetGroup, TakeTerminal, PassGate, Typed, groups,
                      outcome
  <2>3. CASE ReadFromPipe(p) \/ Stops(p) \/ Continues(p) \/ ReadsEnd(p)
    BY <2>1, <2>3 DEF ReadFromPipe, Stops, Continues, ReadsEnd, groups, outcome
  <2>4. CASE Write(p) \/ WriteFails(p) \/ End(p) \/ PreparationFails(p)
    BY <2>1, <2>4 DEF Write, WriteFails, End, PreparationFails, Ended, Typed,
                      groups, outcome
  <2> QED
    BY <2>2, <2>3, <2>4, <2>1 DEF Child
<1>1. \E point \in ChildPoints : Goto(p, point)
  <2>1. CASE Prepare(p) \/ SetGroup(p) \/ TakeTerminal(p) \/ PassGate(p)
    BY <2>1, BeginsMoves
    DEF Prepare, SetGroup, TakeTerminal, PassGate, ChildPoints, Running
  <2>2. CASE ReadFromPipe(p) \/ Stops(p) \/ Continues(p) \/ ReadsEnd(p)
    BY <2>2, BeginsMoves
    DEF ReadFromPipe, Stops, Continues, ReadsEnd, Choices, ChildPoints, Running
  <2>3. CASE Write(p) \/ WriteFails(p) \/ End(p) \/ PreparationFails(p)
    BY <2>3 DEF Write, WriteFails, End, PreparationFails, Ended, ChildPoints,
                Running
  <2> QED
    BY <2>1, <2>2, <2>3 DEF Child
<1> QED
  BY <1>0, <1>1 DEF Moves

\* What a child's step leaves as it is.
LEMMA MovesKeeps ==
  ASSUME TInv, NEW p \in Children, NEW point, Moves(p, point)
  PROVE  /\ pc'[Shell] = pc[Shell]
         /\ pc'[p] = point
         /\ \A q \in Children \ {p} : pc'[q] = pc[q]
         /\ \A q \in Children : (pc'[q] = "reaped") = (pc[q] = "reaped")
         /\ length' = length /\ monitor' = monitor
         /\ inputIsTerminal' = inputIsTerminal
         /\ local' = local /\ waited' = waited
         /\ Current' = Current /\ Members' = Members
         /\ pc[p] \notin {"none", "reaped", "ended"} /\ point \in ChildPoints
<1>1. /\ p \in Processes /\ Shell \in Processes /\ p # Shell
      /\ Children \subseteq Processes
      /\ DOMAIN pc = Processes
  BY Constants, TFacts
<1>2. /\ pc'[Shell] = pc[Shell]
      /\ pc'[p] = point
      /\ \A q \in Children \ {p} : pc'[q] = pc[q]
  BY <1>1 DEF Moves, Goto
<1>3. point # "reaped" /\ pc[p] # "reaped"
  BY DEF Moves, ChildPoints, Running
<1> QED
  BY <1>2, <1>3 DEF Moves, options, Current, Members

\* The commands that have been waited for are finitely many.
LEMMA ReapedFinite ==
  ASSUME TInv
  PROVE  /\ IsFiniteSet(Members) /\ Cardinality(Members) = length
         /\ IsFiniteSet(Reaped)
<1>1. IsFiniteSet(Members) /\ Cardinality(Members) = length
  BY TFacts, FS_Interval DEF Members
<1> QED
  BY <1>1, FS_Subset DEF Reaped

\* Each wait takes one more command.
LEMMA ReapedStep ==
  ASSUME HereDocuments = 0, TInv, ReapedOK, [Next]_vars
  PROVE  ReapedOK'
<1>0. /\ Children = Commands /\ Members \subseteq Children
      /\ length \in Members /\ length \in Children /\ length \in Nat \ {0}
      /\ \A p \in Children : ChildOK(p)
      /\ ForkedOK
      /\ waited \in 0..length - 1
      /\ DOMAIN pc = Processes
      /\ Shell \in Processes /\ Shell \notin Children
      /\ Children \subseteq Processes
  BY TFacts, Constants DEF TInv, Typed, Children, Writers
<1>1. CASE UNCHANGED vars \/ SpinsOn \/ Terminated
  BY <1>1
  DEF vars, options, outcome, SpinsOn, Terminated, ReapedOK, Reaped, Members
<1>2. CASE WaitForCommand
  <2>1. /\ pc[Shell] = "wait" /\ waited' = waited /\ length' = length
        /\ pc' = [pc EXCEPT ![length] = "reaped",
                            ![Shell] = IF length = 1 THEN "done" ELSE "reap"]
    BY <1>2 DEF WaitForCommand, options
  <2>2. waited = 0 /\ \A p \in Commands : pc[p] # "reaped"
    BY <1>0, <2>1 DEF ForkedOK
  <2>3. Reaped' = {length}
    BY <1>0, <2>1, <2>2 DEF Reaped, Members
  <2>4. Cardinality({length}) = 1
    BY FS_Singleton
  <2> QED
    BY <2>1, <2>2, <2>3, <2>4 DEF ReapedOK
<1>3. CASE Wait
  <2>1. PICK child \in Children :
          pc[child] = "ended" /\ pc' = [pc EXCEPT ![child] = "reaped"]
    BY <1>3 DEF Wait, Goto
  <2>2. pc[Shell] = "reap" /\ waited' = waited + 1 /\ length' = length
    BY <1>3 DEF Wait, options
  <2>3. child \in Members
    BY <1>0, <2>1 DEF ChildOK
  <2>4. Reaped' = Reaped \cup {child} /\ child \notin Reaped
    BY <1>0, <2>1, <2>2, <2>3 DEF Reaped, Members
  <2>5. Cardinality(Reaped \cup {child}) = Cardinality(Reaped) + 1
    BY <2>4, ReapedFinite, FS_AddElement
  <2> QED
    BY <1>0, <2>2, <2>4, <2>5 DEF ReapedOK
<1>4. CASE PipelineReturns
  <2>1. /\ pc[Shell] = "reap" /\ waited' = waited /\ length' = length
        /\ pc' = [pc EXCEPT ![Shell] = "done"]
    BY <1>4 DEF PipelineReturns, Goto, options, outcome
  <2>2. Reaped' = Reaped
    BY <1>0, <2>1 DEF Reaped, Members
  <2> QED
    BY <2>1, <2>2 DEF ReapedOK
<1>5. CASE \E p \in Children : Child(p) \/ Continues(p) \/ PreparationFails(p)
  <2>1. PICK p \in Children : \E point : Moves(p, point)
    BY <1>5, ChildMoves
  <2>2. /\ pc'[Shell] = pc[Shell] /\ waited' = waited /\ length' = length
        /\ \A q \in Children : pc'[q] = "reaped" <=> pc[q] = "reaped"
    BY <2>1, MovesKeeps
  <2>3. Reaped' = Reaped
    BY <1>0, <2>2 DEF Reaped, Members
  <2> QED
    BY <2>2, <2>3 DEF ReapedOK
<1>6. CASE \/ ForkUtility \/ CreateGate \/ ForkCommand \/ Fails
           \/ ParentOfFirst \/ Spin \/ ParentOfMiddle \/ AssertionFails
           \/ ParentOfLast \/ Release
  <2>1. Current \in Children
    BY TFacts
  <2>2. pc'[Shell] \notin {"reap", "done"}
    BY <1>0, <1>6, <2>1, Constants
    DEF ForkUtility, CreateGate, ForkCommand, Fails, ParentOfFirst, Spin,
        ParentOfMiddle, AssertionFails, ParentOfLast, Release, Goto
  <2> QED
    BY <2>2 DEF ReapedOK
<1> QED
  BY <1>1, <1>2, <1>3, <1>4, <1>5, <1>6 DEF Next, Parent

\* When the shell goes on, all commands of the pipeline have ended and have
\* been waited for, if no here-document has left another child.
THEOREM CommandsEnd ==
  ASSUME HereDocuments = 0
  PROVE  Spec => []CommandsHaveEnded
<1> DEFINE Inv == TInv /\ ReapedOK
<1>1. Init => Inv
  <2> SUFFICES ASSUME Init PROVE Inv
    OBVIOUS
  <2>1. pc[Shell] = "start"
    BY Constants DEF Init
  <2> QED
    BY <2>1, InitT DEF ReapedOK
<1>2. Inv /\ [Next]_vars => Inv'
  BY NextT, ReapedStep
<1>3. Inv => CommandsHaveEnded
  <2> SUFFICES ASSUME Inv, pc[Shell] = "done" PROVE Reaped = Members
    BY DEF CommandsHaveEnded, Reaped
  <2>1. Cardinality(Reaped) = length
    BY TFacts DEF ReapedOK, TInv, ForkedOK
  <2> QED
    BY <2>1, ReapedFinite, FS_Subset DEF Reaped
<1> QED
  BY <1>1, <1>2, <1>3, PTL DEF Spec


(***************************************************************************)
(* The pipes.                                                              *)
(***************************************************************************)
\* A child whose descriptors stay has the ends it has had.
LEMMA TableKept ==
  ASSUME NEW p \in Commands, ChildTable(p), UNCHANGED << length, monitor >>,
         pc'[p] = pc[p], local'[p] = local[p], table'[p] = table[p]
  PROVE  ChildTable(p)'
BY DEF ChildTable, Holding, Connected, Gated

\* What a step of the shell that closes descriptors leaves.
LEMMA ParentClosesIs ==
  ASSUME TInv, NEW closing, ParentCloses(closing)
  PROVE  /\ \A fd \in Fds : table'[Shell][fd] =
              IF fd \in closing THEN Closed ELSE table[Shell][fd]
         /\ \A p \in Children : table'[p] = table[p]
<1>1. table[Shell] \in Tables /\ Shell \notin Children
  BY TFacts, Constants
<1>2. table' = [table EXCEPT ![Shell] = Without(table[Shell], closing)]
  BY DEF ParentCloses
<1>3. DOMAIN table = Processes /\ Children \subseteq Processes
      /\ Shell \in Processes
  BY Constants DEF TInv, Typed
<1> QED
  BY <1>1, <1>2, <1>3, WithoutIs

\* Initially nobody has an end of a pipe, and descriptor 1 is open.
LEMMA InitTable ==
  ASSUME 1 \notin NotOpen
  PROVE  Init => TableInv
<1> SUFFICES ASSUME Init PROVE TableInv
  OBVIOUS
<1>1. PICK closed \in SUBSET NotOpen :
        table = [p \in Processes |->
                   [fd \in Fds |->
                      IF p = Shell /\ fd \in {0, 1} \ closed THEN File
                      ELSE Closed]]
  BY DEF Init
<1>2. pc[Shell] = "start" /\ \A p \in Commands : pc[p] = "none"
  BY Constants DEF Init
<1>3. table[Shell][1] = File
  BY <1>1, Constants
<1>4. HoldsNothing(table[Shell])
  BY <1>1, Constants, EndsDiffer DEF HoldsNothing
<1>5. ShellTable
  BY <1>2, <1>3, <1>4 DEF ShellTable
<1>6. \A p \in Members : ChildTable(p)
  BY <1>2, InitT, TFacts DEF ChildTable, Running
<1> QED
  BY <1>5, <1>6 DEF TableInv

\* The steps of the shell before the first fork.
LEMMA StartTable ==
  ASSUME TInv, TableInv
  PROVE  /\ ForkUtility => TableInv'
         /\ CreateGate => TableInv'
         /\ Fails => TableInv'
<1>0. /\ ShellTable /\ (\A p \in Members : ChildTable(p))
      /\ DOMAIN table = Processes
      /\ \A p \in Members : p \in Commands /\ p \in Children
      /\ Shell \in Processes /\ Shell \notin Children
      /\ Children \subseteq Processes
  BY TFacts, Constants DEF TableInv, TInv, Typed
<1>1. ForkUtility => TableInv'
  <2> SUFFICES ASSUME ForkUtility PROVE TableInv'
    OBVIOUS
  <2>1. /\ pc[Shell] = "start" /\ length = 1
        /\ table'[1] = table[Shell] /\ table'[Shell] = table[Shell]
        /\ pc'[Shell] = "wait" /\ pc'[1] = "group"
        /\ UNCHANGED << length, monitor, local >>
        /\ Members = {1}
    BY <1>0, TFacts, Constants DEF ForkUtility, options, Members
  <2>2. HoldsNothing(table[Shell])
    BY <1>0, <2>1 DEF ShellTable
  <2>3. ShellTable'
    BY <2>1, <2>2 DEF ShellTable, HoldsNothing
  <2>4. ChildTable(1)'
    BY <2>1, <2>2 DEF ChildTable, Connected, Gated, HoldsNothing
  <2>5. Members' = {1}
    BY <2>1 DEF Members
  <2> QED
    BY <2>3, <2>4, <2>5 DEF TableInv
<1>2. CreateGate => TableInv'
  <2> SUFFICES ASSUME CreateGate PROVE TableInv'
    OBVIOUS
  <2>1. /\ pc[Shell] = "start"
        /\ pc'[Shell] = "loop" /\ \A p \in Children : pc'[p] = pc[p]
        /\ UNCHANGED << length, monitor >>
        /\ Current = 1
    <3>1. pc[Shell] = "start" /\ Goto(Shell, "loop")
          /\ UNCHANGED << length, monitor >>
      BY DEF CreateGate, options
    <3> QED
      BY <3>1, ShellStepT DEF ShellPoints, Launching, TInv, ShellOK, First
  <2>2. table[Shell][1] = File /\ HoldsNothing(table[Shell])
    BY <1>0, <2>1 DEF ShellTable
  <2>3. CASE monitor
    <3> DEFINE fds == NewPipe(table[Shell])
               open == WithPipe(table[Shell], fds, Gate)
    <3>1. /\ fds \in Fds \X Fds /\ fds[1] # fds[2]
          /\ fds[1] \in Fds /\ fds[2] \in Fds
          /\ table[Shell][fds[1]] = Closed /\ table[Shell][fds[2]] = Closed
          /\ table' = [table EXCEPT ![Shell] = open]
          /\ local' = [local EXCEPT ![Shell].pgidPipe = fds]
      BY <2>3, TFacts, NewPipeIs DEF CreateGate, CanPipe
    <3>2. /\ open[fds[1]] = ReadEnd(Gate)
          /\ open[fds[2]] = WriteEnd(Gate)
          /\ \A fd \in Fds \ {fds[1], fds[2]} : open[fd] = table[Shell][fd]
      <4>1. Gate \in 0..MaxCommands - 1
        BY Constants DEF Gate
      <4> QED
        BY <3>1, <4>1, TFacts, WithPipeIs
    <3> HIDE DEF fds, open
    <3>3. open[1] = File
      BY <2>2, <3>1, <3>2, Constants
    <3>4. /\ local'[Shell].pgidPipe = fds /\ Current' = 1
          /\ table'[Shell] = open
          /\ \A p \in Children : local'[p] = local[p] /\ table'[p] = table[p]
      BY <1>0, <2>1, <3>1, TFacts DEF Current, Locals
    <3>5. Holding(table[Shell], local[Shell], Current, Current > 1, FALSE)'
      <4>1. /\ monitor' /\ ~(Current' > 1) /\ Current' = 1
            /\ local'[Shell].pgidPipe = fds
            /\ table'[Shell] = open
        BY <2>1, <2>3, <3>4
      <4>2. \A fd \in Fds : open[fd] \in Ends => fd \in {fds[1], fds[2]}
        BY <2>2, <3>2 DEF HoldsNothing
      <4> QED
        BY <3>2, <3>3, <4>1, <4>2 DEF Holding
    <3>6. ShellTable'
      BY <2>1, <3>5 DEF ShellTable
    <3>7. ASSUME NEW p \in Members PROVE ChildTable(p)'
      BY <1>0, <2>1, <3>4, TableKept
    <3> QED
      BY <2>1, <3>6, <3>7 DEF TableInv, Members
  <2>4. CASE ~monitor
    <3>1. table' = table /\ local' = local /\ Current' = 1
      BY <2>1, <2>4 DEF CreateGate, Current
    <3>2. ShellTable'
      BY <2>1, <2>2, <2>4, <3>1 DEF ShellTable, Holding, HoldsNothing
    <3>3. ASSUME NEW p \in Members PROVE ChildTable(p)'
      BY <1>0, <2>1, <3>1, TableKept
    <3> QED
      BY <2>1, <3>2, <3>3 DEF TableInv, Members
  <2> QED
    BY <2>3, <2>4
<1>3. Fails => TableInv'
  <2> SUFFICES ASSUME Fails PROVE TableInv'
    OBVIOUS
  <2>1. /\ Goto(Shell, "failed")
        /\ table'[Shell] = AllClosed
        /\ \A p \in Children : table'[p] = table[p]
        /\ UNCHANGED << length, monitor, local >>
    BY <1>0 DEF Fails, options
  <2>2. pc'[Shell] = "failed" /\ \A p \in Children : pc'[p] = pc[p]
    BY <2>1, ShellStepT DEF ShellPoints
  <2>3. ShellTable'
    BY <2>1, <2>2, AllClosedIs, EndsDiffer DEF ShellTable, HoldsNothing
  <2>4. ASSUME NEW p \in Members PROVE ChildTable(p)'
    BY <1>0, <2>1, <2>2, TableKept
  <2> QED
    BY <2>1, <2>3, <2>4 DEF TableInv, Members
<1> QED
  BY <1>1, <1>2, <1>3

\* The fork of a command: it has the ends that the shell has.
LEMMA ForkTable ==
  ASSUME TInv, TableInv, ForkCommand
  PROVE  TableInv'
<1> DEFINE k == Current
           t == table[Shell]
           own == local[Shell]
           fds == IF Last THEN own.pipeFds ELSE NewPipe(t)
           open == IF Last THEN t ELSE WithPipe(t, fds, k)
           now == [own EXCEPT !.pipeFds = fds]
<1>1. /\ pc[Shell] = "loop"
      /\ Last \/ Cardinality(Free(t)) >= 2
      /\ table' = [table EXCEPT ![Shell] = open, ![k] = open]
      /\ local' = [local EXCEPT ![Shell] = now, ![k] = now]
      /\ pc' = [pc EXCEPT ![Shell] = "forked", ![k] = "prepare"]
      /\ UNCHANGED << length, monitor >>
  BY DEF ForkCommand, CanPipe, options
<1>2. /\ k \in Members /\ k \in Children /\ k # Shell
      /\ Last <=> k = length
      /\ ~Last => k < length /\ k \in 0..MaxCommands - 1
      /\ t \in Tables
  BY TFacts, Constants DEF Last, Members
<1>3. /\ own \in Locals /\ now.pipeFds = fds /\ now.i = k
      /\ now.inputFd = own.inputFd /\ now.pgidPipe = own.pgidPipe
      /\ k > 1 => own.inputFd \in Fds
      /\ monitor => own.pgidPipe \in Fds \X Fds
  BY <1>1, TFacts DEF Locals, Current, TInv, ShellOK, Assigned
<1>4. Holding(t, own, k, k > 1, FALSE)
  BY <1>1 DEF TableInv, ShellTable
<1>5. ~Last => /\ fds \in Fds \X Fds /\ fds[1] \in Fds /\ fds[2] \in Fds
               /\ t[fds[1]] = Closed /\ t[fds[2]] = Closed
               /\ open[fds[1]] = ReadEnd(k) /\ open[fds[2]] = WriteEnd(k)
               /\ \A fd \in Fds \ {fds[1], fds[2]} : open[fd] = t[fd]
  BY <1>1, <1>2, NewPipeIs, WithPipeIs
<1>6. Last => open = t
  OBVIOUS
<1> HIDE DEF fds, open, now, k, t, own
<1>7. Holding(open, now, k, k > 1, k < length)
  <2>1. /\ 1 \in Fds /\ 0 \in Nat
        /\ k - 1 \in Nat /\ k \in Nat /\ Gate \in Nat
    BY <1>2, TFacts, Constants DEF Gate, Members
  <2>2. CASE Last
    BY <1>2, <1>3, <1>4, <1>6, <2>1, <2>2, TFacts DEF Holding
  <2>3. CASE ~Last
    <3>1. \A fd \in Fds : t[fd] # Closed => open[fd] = t[fd]
      BY <1>5, <2>3
    <3>2. open[1] = File /\ (k > 1 => open[own.inputFd] = ReadEnd(k - 1))
      <4>1. t[1] = File /\ (k > 1 => t[own.inputFd] = ReadEnd(k - 1))
        BY <1>4 DEF Holding
      <4>2. File # Closed /\ ReadEnd(k - 1) # Closed
        BY <2>1, Constants, EndsDiffer
      <4> QED
        BY <1>3, <2>1, <3>1, <4>1, <4>2
    <3>3. /\ monitor => open[own.pgidPipe[2]] = WriteEnd(Gate)
          /\ monitor /\ k = 1 => open[own.pgidPipe[1]] = ReadEnd(Gate)
      <4>1. monitor => own.pgidPipe[1] \in Fds /\ own.pgidPipe[2] \in Fds
        BY <1>3
      <4> QED
        BY <1>4, <2>1, <3>1, <4>1, EndsDiffer DEF Holding
    <3>4. ASSUME NEW fd \in Fds, open[fd] \in Ends
          PROVE  \/ k > 1 /\ fd = now.inputFd
                 \/ fd \in {now.pipeFds[1], now.pipeFds[2]}
                 \/ monitor /\ fd = now.pgidPipe[2]
                 \/ monitor /\ k = 1 /\ fd = now.pgidPipe[1]
      BY <1>3, <1>4, <1>5, <2>3, <3>4 DEF Holding
    <3> QED
      BY <1>2, <1>3, <1>5, <2>3, <3>2, <3>3, <3>4 DEF Holding
  <2> QED
    BY <2>2, <2>3
<1>8. /\ pc'[Shell] = "forked" /\ pc'[k] = "prepare"
      /\ table'[Shell] = open /\ table'[k] = open
      /\ local'[Shell] = now /\ local'[k] = now
      /\ \A p \in Children \ {k} : /\ pc'[p] = pc[p] /\ local'[p] = local[p]
                                   /\ table'[p] = table[p]
  BY <1>1, <1>2, Constants DEF TInv, Typed
<1>9. /\ Current' = k /\ Members' = Members /\ length' = length
      /\ monitor' = monitor
  BY <1>1, <1>3, <1>8 DEF Current, Members
<1>10. ShellTable'
  <2>1. Holding(table[Shell], local[Shell], Current, Current > 1, ~Last)'
    <3>1. (~Last)' <=> k < length
      BY <1>2, <1>9, TFacts DEF Last
    <3> QED
      BY <1>7, <1>8, <1>9, <3>1 DEF Holding
  <2> QED
    BY <1>8, <2>1 DEF ShellTable
<1>11. ASSUME NEW p \in Members PROVE ChildTable(p)'
  <2>1. CASE p = k
    BY <1>7, <1>8, <1>9, <2>1 DEF ChildTable, Holding, Running
  <2>2. CASE p # k
    <3>1. p \in Commands /\ p \in Children /\ ChildTable(p)
      BY TFacts, Constants DEF TableInv
    <3> QED
      BY <1>8, <1>9, <2>2, <3>1, TableKept
  <2> QED
    BY <2>1, <2>2
<1> QED
  BY <1>9, <1>10, <1>11 DEF TableInv

\* What the shell holds of its variables between two forks.
LEMMA LaunchFacts ==
  ASSUME TInv, TableInv, pc[Shell] = "forked"
  PROVE  /\ Holding(table[Shell], local[Shell], Current, Current > 1, ~Last)
         /\ ~Last => /\ local[Shell].pipeFds \in Fds \X Fds
                     /\ local[Shell].pipeFds[1] \in Fds
                     /\ local[Shell].pipeFds[2] \in Fds
         /\ Current > 1 => local[Shell].inputFd \in Fds
         /\ monitor => /\ local[Shell].pgidPipe[1] \in Fds
                       /\ local[Shell].pgidPipe[2] \in Fds
         /\ 1 \in Fds
         /\ Current \in Nat \ {0} /\ length > 1
<1>1. Assigned(local[Shell], Current, ~Last) /\ length > 1
  BY DEF TInv, ShellOK, Launching
<1>2. /\ monitor => local[Shell].pgidPipe \in Fds \X Fds
      /\ ~Last => local[Shell].pipeFds \in Fds \X Fds
      /\ Current > 1 => local[Shell].inputFd \in Fds
  BY <1>1 DEF Assigned
<1>3. Holding(table[Shell], local[Shell], Current, Current > 1, ~Last)
  BY DEF TableInv, ShellTable
<1> QED
  BY <1>1, <1>2, <1>3, TFacts, Constants

\* A step of the shell that neither forks nor waits leaves the commands their
\* ends.
LEMMA ParentTable ==
  ASSUME TInv, TableInv, UNCHANGED << length, monitor >>,
         NEW point \in ShellPoints, Goto(Shell, point),
         \A p \in Children : table'[p] = table[p] /\ local'[p] = local[p],
         ShellTable'
  PROVE  TableInv'
<1>1. ASSUME NEW p \in Members PROVE ChildTable(p)'
  <2>1. p \in Commands /\ p \in Children /\ ChildTable(p)
    BY TFacts, Constants DEF TableInv
  <2> QED
    BY <2>1, ShellStepT, TableKept
<1> QED
  BY <1>1 DEF TableInv, Members

\* After the fork of the first command.
LEMMA FirstTable ==
  ASSUME TInv, TableInv
  PROVE  /\ ParentOfFirst => TableInv'
         /\ Spin => TableInv'
<1>1. ParentOfFirst => TableInv'
  <2> SUFFICES ASSUME ParentOfFirst PROVE TableInv'
    OBVIOUS
  <2> DEFINE t == table[Shell]
             own == local[Shell]
             next == table'[Shell]
  <2>1. /\ pc[Shell] = "forked" /\ Current = 1
        /\ UNCHANGED << length, monitor >>
    BY DEF ParentOfFirst, options, First
  <2>2. ~Last
    BY <2>1, LaunchFacts DEF Last
  <2>3. /\ own.pipeFds \in Fds \X Fds
        /\ own.pipeFds[1] \in Fds /\ own.pipeFds[2] \in Fds
        /\ monitor => own.pgidPipe[1] \in Fds /\ own.pgidPipe[2] \in Fds
        /\ 1 \in Fds
    BY <2>1, <2>2, LaunchFacts
  <2>4. /\ t[1] = File
        /\ t[own.pipeFds[1]] = ReadEnd(1) /\ t[own.pipeFds[2]] = WriteEnd(1)
        /\ monitor => /\ t[own.pgidPipe[2]] = WriteEnd(Gate)
                      /\ t[own.pgidPipe[1]] = ReadEnd(Gate)
        /\ \A fd \in Fds :
             t[fd] \in Ends =>
               \/ fd \in {own.pipeFds[1], own.pipeFds[2]}
               \/ monitor /\ fd \in {own.pgidPipe[1], own.pgidPipe[2]}
    <3>1. Holding(t, own, Current, Current > 1, ~Last)
      BY <2>1, LaunchFacts
    <3> QED
      BY <2>1, <2>2, <3>1 DEF Holding
  <2>5. /\ File # WriteEnd(1) /\ File # ReadEnd(Gate) /\ File # Closed
        /\ ReadEnd(1) # ReadEnd(Gate) /\ ReadEnd(1) # WriteEnd(1)
        /\ WriteEnd(Gate) # WriteEnd(1) /\ WriteEnd(Gate) # ReadEnd(Gate)
        /\ Closed \notin Ends
    BY EndsDiffer, Constants DEF Gate
  <2>6. CASE monitor
    <3>1. /\ ParentCloses({own.pipeFds[2], own.pgidPipe[1]})
          /\ local' = [local EXCEPT ![Shell].pgid = 1]
          /\ Goto(Shell, "spin")
      BY <2>6 DEF ParentOfFirst
    <3>2. /\ \A fd \in Fds : next[fd] =
               IF fd \in {own.pipeFds[2], own.pgidPipe[1]} THEN Closed ELSE t[fd]
          /\ \A p \in Children : table'[p] = table[p]
      BY <3>1, ParentClosesIs
    <3>3. /\ \A p \in Children : local'[p] = local[p]
          /\ local'[Shell].pipeFds = own.pipeFds
          /\ local'[Shell].pgidPipe = own.pgidPipe
      BY <3>1, TFacts, Constants DEF Locals
    <3> HIDE DEF t, own, next
    <3>4. /\ next[1] = File
          /\ next[own.pipeFds[1]] = ReadEnd(1)
          /\ next[own.pgidPipe[2]] = WriteEnd(Gate)
      BY <2>3, <2>4, <2>5, <2>6, <3>2
    <3>5. \A fd \in Fds :
            next[fd] \in Ends => fd \in {own.pipeFds[1], own.pgidPipe[2]}
      BY <2>4, <2>5, <3>2
    <3>6. HoldingFirst(table[Shell], local[Shell])'
      BY <3>3, <3>4, <3>5 DEF HoldingFirst, next
    <3>7. "spin" \in ShellPoints
      BY DEF ShellPoints, Launching
    <3>8. ShellTable'
      BY <3>1, <3>6, <3>7, ShellStepT DEF ShellTable
    <3> QED
      BY <2>1, <3>1, <3>2, <3>3, <3>7, <3>8, ParentTable
  <2>7. CASE ~monitor
    <3>1. /\ ParentCloses({own.pipeFds[2]})
          /\ NextCommand /\ Goto(Shell, "loop")
      BY <2>7 DEF ParentOfFirst
    <3>2. /\ \A fd \in Fds : next[fd] =
               IF fd \in {own.pipeFds[2]} THEN Closed ELSE t[fd]
          /\ \A p \in Children : table'[p] = table[p]
      BY <3>1, ParentClosesIs
    <3>3. /\ \A p \in Children : local'[p] = local[p]
          /\ local'[Shell].i = 2
          /\ local'[Shell].inputFd = own.pipeFds[1]
      BY <2>1, <2>2, <2>3, <3>1, NextCommandT
    <3> HIDE DEF t, own, next
    <3>4. next[1] = File /\ next[own.pipeFds[1]] = ReadEnd(1)
      BY <2>3, <2>4, <2>5, <3>2
    <3>5. \A fd \in Fds : next[fd] \in Ends => fd = own.pipeFds[1]
      BY <2>4, <2>5, <2>7, <3>2
    <3>6. Current' = 2 /\ ~monitor' /\ 2 > 1 /\ 2 - 1 = 1
      BY <2>1, <2>7, <3>3 DEF Current
    <3>7. Holding(table[Shell], local[Shell], Current, Current > 1, FALSE)'
      BY <3>3, <3>4, <3>5, <3>6 DEF Holding, next
    <3>8. "loop" \in ShellPoints
      BY DEF ShellPoints, Launching
    <3>9. ShellTable'
      BY <3>1, <3>7, <3>8, ShellStepT DEF ShellTable
    <3> QED
      BY <2>1, <3>1, <3>2, <3>3, <3>8, <3>9, ParentTable
  <2> QED
    BY <2>6, <2>7
<1>2. Spin => TableInv'
  <2> SUFFICES ASSUME Spin PROVE TableInv'
    OBVIOUS
  <2>1. /\ pc[Shell] = "spin" /\ Current = 1 /\ ~Last /\ monitor
        /\ Assigned(local[Shell], 1, TRUE)
        /\ NextCommand /\ Goto(Shell, "loop")
        /\ UNCHANGED << length, monitor, table >>
    <3>1. /\ pc[Shell] = "spin" /\ Current = 1 /\ length > 1 /\ monitor
          /\ Assigned(local[Shell], 1, TRUE)
      BY DEF Spin, TInv, ShellOK, Launching, First
    <3>2. ~Last
      BY <3>1, TFacts DEF Last
    <3> QED
      BY <3>1, <3>2 DEF Spin, options
  <2>2. /\ local'[Shell].i = 2
        /\ local'[Shell].inputFd = local[Shell].pipeFds[1]
        /\ local'[Shell].pgidPipe = local[Shell].pgidPipe
        /\ \A p \in Children : local'[p] = local[p]
    BY <2>1, NextCommandT DEF Assigned
  <2>3. HoldingFirst(table[Shell], local[Shell])
    BY <2>1 DEF TableInv, ShellTable
  <2>4. Current' = 2 /\ monitor' /\ 2 > 1 /\ 2 - 1 = 1 /\ 2 # 1
        /\ table'[Shell] = table[Shell]
    BY <2>1, <2>2 DEF Current
  <2>5. Holding(table[Shell], local[Shell], Current, Current > 1, FALSE)'
    BY <2>2, <2>3, <2>4 DEF Holding, HoldingFirst
  <2>6. "loop" \in ShellPoints
    BY DEF ShellPoints, Launching
  <2>7. ShellTable'
    BY <2>1, <2>5, <2>6, ShellStepT DEF ShellTable
  <2> QED
    BY <2>1, <2>2, <2>6, <2>7, ParentTable
<1> QED
  BY <1>1, <1>2

\* After the forks of the other commands.
LEMMA MiddleTable ==
  ASSUME TInv, TableInv
  PROVE  /\ ParentOfMiddle => TableInv'
         /\ ParentOfLast => TableInv'
<1> DEFINE t == table[Shell]
           own == local[Shell]
           next == table'[Shell]
           k == Current
<1>1. ParentOfMiddle => TableInv'
  <2> SUFFICES ASSUME ParentOfMiddle PROVE TableInv'
    OBVIOUS
  <2>1. /\ pc[Shell] = "forked" /\ k # 1 /\ ~Last
        /\ ParentCloses({own.pipeFds[2], own.inputFd})
        /\ NextCommand /\ Goto(Shell, "loop")
        /\ UNCHANGED << length, monitor >>
    BY DEF ParentOfMiddle, options, First
  <2>2. /\ k > 1 /\ k \in Nat /\ k - 1 \in Nat /\ k - 1 # k
        /\ own.pipeFds \in Fds \X Fds
        /\ own.pipeFds[1] \in Fds /\ own.pipeFds[2] \in Fds
        /\ own.inputFd \in Fds
        /\ monitor => own.pgidPipe[1] \in Fds /\ own.pgidPipe[2] \in Fds
        /\ 1 \in Fds
    BY <2>1, LaunchFacts
  <2>3. /\ t[1] = File /\ t[own.inputFd] = ReadEnd(k - 1)
        /\ t[own.pipeFds[1]] = ReadEnd(k) /\ t[own.pipeFds[2]] = WriteEnd(k)
        /\ monitor => t[own.pgidPipe[2]] = WriteEnd(Gate)
        /\ \A fd \in Fds :
             t[fd] \in Ends =>
               \/ fd \in {own.inputFd, own.pipeFds[1], own.pipeFds[2]}
               \/ monitor /\ fd = own.pgidPipe[2]
    <3>1. Holding(t, own, k, k > 1, ~Last)
      BY <2>1, LaunchFacts
    <3> QED
      BY <2>1, <2>2, <3>1 DEF Holding
  <2>4. /\ File # WriteEnd(k) /\ File # ReadEnd(k - 1) /\ File # Closed
        /\ ReadEnd(k) # ReadEnd(k - 1) /\ ReadEnd(k) # WriteEnd(k)
        /\ WriteEnd(Gate) # WriteEnd(k) /\ WriteEnd(Gate) # ReadEnd(k - 1)
        /\ Closed \notin Ends
    BY <2>2, EndsDiffer, Constants DEF Gate
  <2>5. /\ \A fd \in Fds : next[fd] =
             IF fd \in {own.pipeFds[2], own.inputFd} THEN Closed ELSE t[fd]
        /\ \A p \in Children : table'[p] = table[p]
    BY <2>1, ParentClosesIs
  <2>6. /\ \A p \in Children : local'[p] = local[p]
        /\ local'[Shell].i = k + 1
        /\ local'[Shell].inputFd = own.pipeFds[1]
        /\ local'[Shell].pgidPipe = own.pgidPipe
    BY <2>1, <2>2, NextCommandT
  <2> HIDE DEF t, own, next, k
  <2>7. /\ next[1] = File
        /\ next[own.pipeFds[1]] = ReadEnd(k)
        /\ monitor => next[own.pgidPipe[2]] = WriteEnd(Gate)
    BY <2>2, <2>3, <2>4, <2>5
  <2>8. \A fd \in Fds :
          next[fd] \in Ends =>
            fd = own.pipeFds[1] \/ (monitor /\ fd = own.pgidPipe[2])
    <3> SUFFICES ASSUME NEW fd \in Fds, next[fd] \in Ends
                 PROVE  fd = own.pipeFds[1] \/ (monitor /\ fd = own.pgidPipe[2])
      OBVIOUS
    <3>1. fd \notin {own.pipeFds[2], own.inputFd} /\ next[fd] = t[fd]
      BY <2>4, <2>5
    <3>2. t[fd] \in Ends
      BY <3>1
    <3>3. \/ fd \in {own.inputFd, own.pipeFds[1], own.pipeFds[2]}
          \/ monitor /\ fd = own.pgidPipe[2]
      BY <2>3, <3>2, Zenon
    <3> QED
      BY <3>1, <3>3
  <2>9. /\ Current' = k + 1 /\ monitor' = monitor
        /\ k + 1 > 1 /\ k + 1 - 1 = k /\ k + 1 # 1
    BY <2>1, <2>2, <2>6 DEF Current
  <2>10. Holding(table[Shell], local[Shell], Current, Current > 1, FALSE)'
    <3>1. /\ Current' > 1 /\ Current' - 1 = k /\ Current' # 1
          /\ monitor' = monitor
          /\ local'[Shell].inputFd = own.pipeFds[1]
          /\ local'[Shell].pgidPipe = own.pgidPipe
          /\ table'[Shell] = next
      BY <2>2, <2>6, <2>9 DEF next
    <3> QED
      BY <2>7, <2>8, <3>1 DEF Holding
  <2>11. "loop" \in ShellPoints
    BY DEF ShellPoints, Launching
  <2>12. ShellTable'
    BY <2>1, <2>10, <2>11, ShellStepT DEF ShellTable
  <2> QED
    BY <2>1, <2>5, <2>6, <2>11, <2>12, ParentTable
<1>2. ParentOfLast => TableInv'
  <2> SUFFICES ASSUME ParentOfLast PROVE TableInv'
    OBVIOUS
  <2> DEFINE point == IF monitor THEN "release" ELSE "wait"
  <2>1. /\ pc[Shell] = "forked" /\ Last /\ k > 1
        /\ ParentCloses({own.inputFd})
        /\ Goto(Shell, point)
        /\ UNCHANGED << length, monitor, local >>
    BY LaunchFacts DEF ParentOfLast, options, Last
  <2>2. /\ own.inputFd \in Fds
        /\ monitor => own.pgidPipe[1] \in Fds /\ own.pgidPipe[2] \in Fds
        /\ k \in Nat /\ k # 1
    BY <2>1, LaunchFacts
  <2>3. /\ t[own.inputFd] = ReadEnd(k - 1)
        /\ monitor => t[own.pgidPipe[2]] = WriteEnd(Gate)
        /\ \A fd \in Fds :
             t[fd] \in Ends =>
               fd = own.inputFd \/ (monitor /\ fd = own.pgidPipe[2])
    <3>1. Holding(t, own, k, k > 1, ~Last)
      BY <2>1, LaunchFacts
    <3>2. /\ t[own.inputFd] = ReadEnd(k - 1)
          /\ monitor => t[own.pgidPipe[2]] = WriteEnd(Gate)
      BY <2>1, <3>1 DEF Holding
    <3>3. ASSUME NEW fd \in Fds, t[fd] \in Ends
          PROVE  fd = own.inputFd \/ (monitor /\ fd = own.pgidPipe[2])
      <4>1. \/ k > 1 /\ fd = own.inputFd
            \/ ~Last /\ fd \in {own.pipeFds[1], own.pipeFds[2]}
            \/ monitor /\ fd = own.pgidPipe[2]
            \/ monitor /\ k = 1 /\ fd = own.pgidPipe[1]
        BY <3>1, <3>3, Zenon DEF Holding
      <4> QED
        BY <2>1, <2>2, <4>1
    <3> QED
      BY <3>2, <3>3
  <2>4. /\ \A fd \in Fds : next[fd] =
             IF fd \in {own.inputFd} THEN Closed ELSE t[fd]
        /\ \A p \in Children : table'[p] = table[p]
    BY <2>1, ParentClosesIs
  <2>5. WriteEnd(Gate) # ReadEnd(k - 1) /\ Closed \notin Ends
    BY EndsDiffer
  <2> HIDE DEF t, own, next, k
  <2>6. /\ monitor => next[own.pgidPipe[2]] = WriteEnd(Gate)
        /\ \A fd \in Fds :
             next[fd] \in Ends => monitor /\ fd = own.pgidPipe[2]
    BY <2>2, <2>3, <2>4, <2>5
  <2>7. point \in ShellPoints /\ pc'[Shell] = point
    BY <2>1, ShellStepT DEF ShellPoints
  <2>8. local'[Shell].pgidPipe = own.pgidPipe
    BY <2>1 DEF own
  <2>9. ShellTable'
    <3>1. CASE monitor
      BY <2>6, <2>7, <2>8, <3>1 DEF ShellTable, HoldingGate, next
    <3>2. CASE ~monitor
      BY <2>6, <2>7, <3>2 DEF ShellTable, HoldsNothing, next
    <3> QED
      BY <3>1, <3>2
  <2> QED
    BY <2>1, <2>4, <2>7, <2>9, ParentTable
<1> QED
  BY <1>1, <1>2

\* The shell lets go of the gate, or of everything.
LEMMA EndTable ==
  ASSUME TInv, TableInv
  PROVE  /\ AssertionFails => TableInv'
         /\ Release => TableInv'
<1>1. AssertionFails => TableInv'
  <2> SUFFICES ASSUME AssertionFails PROVE TableInv'
    OBVIOUS
  <2>1. /\ Goto(Shell, "aborted")
        /\ table'[Shell] = AllClosed
        /\ \A p \in Children : table'[p] = table[p] /\ local'[p] = local[p]
        /\ UNCHANGED << length, monitor >>
    BY Constants DEF AssertionFails, options, TInv, Typed
  <2>2. "aborted" \in ShellPoints
    BY DEF ShellPoints
  <2>3. ShellTable'
    BY <2>1, <2>2, ShellStepT, AllClosedIs, EndsDiffer
    DEF ShellTable, HoldsNothing
  <2> QED
    BY <2>1, <2>2, <2>3, ParentTable
<1>2. Release => TableInv'
  <2> SUFFICES ASSUME Release PROVE TableInv'
    OBVIOUS
  <2>1. /\ pc[Shell] = "release"
        /\ Goto(Shell, "wait")
        /\ ParentCloses({local[Shell].pgidPipe[2]})
        /\ UNCHANGED << length, monitor, local >>
    BY DEF Release, options
  <2>2. HoldingGate(table[Shell], local[Shell])
    BY <2>1 DEF TableInv, ShellTable
  <2>3. HoldsNothing(table[Shell])'
    BY <2>1, <2>2, ParentClosesIs, EndsDiffer DEF HoldingGate, HoldsNothing
  <2>4. "wait" \in ShellPoints
    BY DEF ShellPoints
  <2>5. ShellTable'
    BY <2>1, <2>3, <2>4, ShellStepT DEF ShellTable
  <2>6. \A p \in Children : table'[p] = table[p] /\ local'[p] = local[p]
    BY <2>1, ParentClosesIs
  <2> QED
    BY <2>1, <2>4, <2>5, <2>6, ParentTable
<1> QED
  BY <1>1, <1>2

\* The shell waits without any end.
LEMMA WaitTable ==
  ASSUME TInv, TableInv, WaitForCommand \/ Wait \/ PipelineReturns
  PROVE  TableInv'
<1>1. /\ pc[Shell] \in {"wait", "reap"}
      /\ UNCHANGED << length, monitor, table, local >>
  BY DEF WaitForCommand, Wait, PipelineReturns, options
<1>2. /\ pc'[Shell] \in {"reap", "done"}
      /\ \A p \in Children : pc'[p] = pc[p] \/ pc'[p] = "reaped"
  <2>1. DOMAIN pc = Processes /\ Shell \in Processes /\ Shell \notin Children
        /\ Children \subseteq Processes /\ length \in Children
    BY TFacts, Constants
  <2>2. CASE WaitForCommand
    BY <2>1, <2>2 DEF WaitForCommand
  <2>3. CASE Wait
    BY <2>1, <2>3 DEF Wait, Goto
  <2>4. CASE PipelineReturns
    BY <2>1, <2>4 DEF PipelineReturns, Goto
  <2> QED
    BY <2>2, <2>3, <2>4
<1>3. ShellTable'
  BY <1>1, <1>2 DEF TableInv, ShellTable, HoldsNothing
<1>4. ASSUME NEW p \in Members PROVE ChildTable(p)'
  <2>1. p \in Commands /\ p \in Children /\ ChildTable(p)
    BY TFacts, Constants DEF TableInv
  <2>2. CASE pc'[p] = pc[p]
    BY <1>1, <2>1, <2>2, TableKept
  <2>3. CASE pc'[p] = "reaped"
    BY <2>3 DEF ChildTable, Running
  <2> QED
    BY <1>2, <2>1, <2>2, <2>3
<1> QED
  BY <1>1, <1>3, <1>4 DEF TableInv, Members

\* A command's descriptors: its pipes as 0 and 1, and the gate of the first.
LEMMA ForCommandIs ==
  ASSUME TInv, TableInv, NEW p \in Children, pc[p] = "prepare"
  PROVE  /\ p > 1 => ForCommand(p)[0] = ReadEnd(p - 1)
         /\ p < length => ForCommand(p)[1] = WriteEnd(p)
         /\ monitor /\ p = 1 =>
              ForCommand(p)[local[p].pgidPipe[1]] = ReadEnd(Gate)
         /\ \A fd \in Fds :
              ForCommand(p)[fd] \in Ends =>
                \/ p > 1 /\ fd = 0
                \/ p < length /\ fd = 1
                \/ monitor /\ p = 1 /\ fd = local[p].pgidPipe[1]
<1> DEFINE t == table[p]
           own == local[p]
           closing == (IF monitor THEN {own.pgidPipe[2]} ELSE {})
                      \cup IF p < length THEN {own.pipeFds[1]} ELSE {}
           closed == Without(t, closing)
           input == IF p = 1 THEN closed ELSE Moved(closed, own.inputFd, 0)
<1>1. /\ p \in Members /\ p \in Nat /\ p - 1 \in Nat /\ p <= length
      /\ p # p - 1 /\ (p # 1 => p > 1) /\ (p # length => p < length)
      /\ length \in Nat
      /\ t \in Tables
      /\ Holding(t, own, p, p > 1, p < length)
      /\ Assigned(own, p, p < length)
  BY ForCommandT, TFacts DEF TInv, ChildOK, TableInv, ChildTable, Members
<1>2. /\ p > 1 => own.inputFd \in Fds
      /\ p < length => /\ own.pipeFds[1] \in Fds /\ own.pipeFds[2] \in Fds
                       /\ own.pipeFds[2] # 0
      /\ monitor => own.pgidPipe[1] \in Fds /\ own.pgidPipe[2] \in Fds
      /\ 0 \in Fds /\ 1 \in Fds /\ 0 # 1
  BY <1>1, Constants DEF Assigned
<1>3. /\ t[1] = File
      /\ p > 1 => t[own.inputFd] = ReadEnd(p - 1)
      /\ p < length => /\ t[own.pipeFds[1]] = ReadEnd(p)
                       /\ t[own.pipeFds[2]] = WriteEnd(p)
      /\ monitor => t[own.pgidPipe[2]] = WriteEnd(Gate)
      /\ monitor /\ p = 1 => t[own.pgidPipe[1]] = ReadEnd(Gate)
  BY <1>1 DEF Holding
<1>4. \A fd \in Fds :
        t[fd] \in Ends =>
          \/ p > 1 /\ fd = own.inputFd
          \/ p < length /\ fd \in {own.pipeFds[1], own.pipeFds[2]}
          \/ monitor /\ fd = own.pgidPipe[2]
          \/ monitor /\ p = 1 /\ fd = own.pgidPipe[1]
  BY <1>1, Zenon DEF Holding
<1>5. /\ File # ReadEnd(p) /\ File # WriteEnd(p) /\ File # ReadEnd(p - 1)
      /\ File # WriteEnd(Gate) /\ File # ReadEnd(Gate) /\ File # Closed
      /\ ReadEnd(p) # ReadEnd(p - 1) /\ ReadEnd(p) # WriteEnd(p)
      /\ ReadEnd(p - 1) # WriteEnd(p) /\ ReadEnd(p - 1) # WriteEnd(Gate)
      /\ WriteEnd(p) # WriteEnd(Gate) /\ WriteEnd(p) # ReadEnd(Gate)
      /\ ReadEnd(Gate) # ReadEnd(p) /\ ReadEnd(Gate) # WriteEnd(Gate)
      /\ Closed \notin Ends
  <2>1. Gate \in Nat /\ Gate # p
    BY <1>1, Constants DEF Gate
  <2> QED
    BY <1>1, <2>1, EndsDiffer, Constants
<1>6. /\ closed \in Tables
      /\ \A fd \in Fds : closed[fd] = IF fd \in closing THEN Closed ELSE t[fd]
  BY <1>1, WithoutIs
<1>7. /\ \A fd \in Fds :
           fd \in closing <=> \/ monitor /\ fd = own.pgidPipe[2]
                              \/ p < length /\ fd = own.pipeFds[1]
  OBVIOUS
<1> HIDE DEF closing, closed, t
<1>8. /\ closed[1] = File
      /\ p > 1 => closed[own.inputFd] = ReadEnd(p - 1)
      /\ p < length => closed[own.pipeFds[2]] = WriteEnd(p)
      /\ monitor /\ p = 1 => closed[own.pgidPipe[1]] = ReadEnd(Gate)
  <2>1. 1 \notin closing
    BY <1>2, <1>3, <1>5, <1>7
  <2>2. p > 1 => own.inputFd \notin closing
    BY <1>2, <1>3, <1>5, <1>7
  <2>3. p < length => own.pipeFds[2] \notin closing
    BY <1>2, <1>3, <1>5, <1>7
  <2>4. monitor /\ p = 1 => own.pgidPipe[1] \notin closing
    BY <1>2, <1>3, <1>5, <1>7
  <2> QED
    BY <1>2, <1>3, <1>6, <2>1, <2>2, <2>3, <2>4
<1>9. \A fd \in Fds :
        closed[fd] \in Ends =>
          \/ p > 1 /\ fd = own.inputFd
          \/ p < length /\ fd = own.pipeFds[2]
          \/ monitor /\ p = 1 /\ fd = own.pgidPipe[1]
  BY <1>4, <1>5, <1>6, <1>7
<1>10. p > 1 => /\ input \in Tables
                /\ input[0] = closed[own.inputFd]
                /\ \A fd \in Fds \ {0} :
                     input[fd] = IF fd = own.inputFd THEN Closed ELSE closed[fd]
  <2>1. ASSUME NEW fd \in Fds, NEW new \in Fds
        PROVE  /\ Moved(closed, fd, new) \in Tables
               /\ Moved(closed, fd, new)[new] = closed[fd]
               /\ \A other \in Fds \ {new} :
                    Moved(closed, fd, new)[other] =
                      IF other = fd THEN Closed ELSE closed[other]
    BY <1>6, MovedIs
  <2>2. p > 1 => input = Moved(closed, own.inputFd, 0)
    BY <1>1
  <2> HIDE DEF input, own
  <2> QED
    BY <1>2, <2>1, <2>2
<1>11. p = 1 => input = closed
  OBVIOUS
<1>12. ForCommand(p) = IF p = length THEN input
                       ELSE Moved(input, own.pipeFds[2], 1)
  BY DEF ForCommand, input, closed, closing, t
<1> HIDE DEF input
<1>13. /\ input[1] = File
       /\ p > 1 => input[0] = ReadEnd(p - 1)
       /\ p < length => input[own.pipeFds[2]] = WriteEnd(p)
       /\ monitor /\ p = 1 => input[own.pgidPipe[1]] = ReadEnd(Gate)
       /\ input \in Tables
  <2>1. CASE p = 1
    BY <1>6, <1>8, <1>11, <2>1
  <2>2. CASE p # 1
    BY <1>1, <1>2, <1>5, <1>8, <1>10, <2>2
  <2> QED
    BY <2>1, <2>2
<1>14. \A fd \in Fds :
         input[fd] \in Ends =>
           \/ p > 1 /\ fd = 0
           \/ p < length /\ fd = own.pipeFds[2]
           \/ monitor /\ p = 1 /\ fd = own.pgidPipe[1]
  <2>1. CASE p = 1
    BY <1>9, <1>11, <2>1
  <2>2. CASE p # 1
    <3>1. ASSUME NEW fd \in Fds, input[fd] \in Ends, fd # 0
          PROVE  fd # own.inputFd /\ closed[fd] \in Ends
      BY <1>1, <1>5, <1>10, <2>2, <3>1
    <3> QED
      BY <1>1, <1>9, <2>2, <3>1
  <2> QED
    BY <2>1, <2>2
<1>15. CASE p = length
  BY <1>12, <1>13, <1>14, <1>15, TFacts
<1>16. CASE p # length
  <2> DEFINE out == own.pipeFds[2]
             last == ForCommand(p)
  <2>1. p < length /\ out \in Fds /\ out # 0
    BY <1>1, <1>2, <1>16
  <2>2. /\ last[1] = input[out]
        /\ \A fd \in Fds \ {1} :
             last[fd] = IF fd = out THEN Closed ELSE input[fd]
    <3>1. last = Moved(input, out, 1)
      BY <1>12, <1>16
    <3>2. ASSUME NEW fd \in Fds
          PROVE  /\ Moved(input, fd, 1)[1] = input[fd]
                 /\ \A other \in Fds \ {1} :
                      Moved(input, fd, 1)[other] =
                        IF other = fd THEN Closed ELSE input[other]
      BY <1>2, <1>13, MovedIs
    <3> HIDE DEF out, last
    <3> QED
      BY <2>1, <3>1, <3>2
  <2>3. last[1] = WriteEnd(p) /\ (p > 1 => last[0] = ReadEnd(p - 1))
    BY <1>2, <1>13, <2>1, <2>2
  <2>4. monitor /\ p = 1 => last[own.pgidPipe[1]] = ReadEnd(Gate)
    BY <1>2, <1>5, <1>13, <2>1, <2>2
  <2>5. ASSUME NEW fd \in Fds, last[fd] \in Ends, fd # 1
        PROVE  (p > 1 /\ fd = 0) \/ (monitor /\ p = 1 /\ fd = own.pgidPipe[1])
    <3>1. fd # out /\ input[fd] \in Ends
      BY <1>5, <2>2, <2>5
    <3> QED
      BY <1>14, <3>1
  <2> QED
    BY <2>1, <2>3, <2>4, <2>5
<1> QED
  BY <1>15, <1>16

\* What a step of a child makes of its own ends.
LEMMA OwnTable ==
  ASSUME TInv, TableInv, NEW p \in Children, p \in Members,
         Child(p) \/ Continues(p) \/ PreparationFails(p)
  PROVE  ChildTable(p)'
<1>0. /\ p \in Processes /\ DOMAIN pc = Processes /\ DOMAIN table = Processes
      /\ table[p] \in Tables
      /\ ChildTable(p) /\ ChildOK(p)
      /\ p \in Nat /\ length \in Nat /\ p <= length
      /\ UNCHANGED << length, monitor, local >>
  <2>1. UNCHANGED << length, monitor, local >>
    BY ChildMoves DEF Moves, options
  <2> QED
    BY <2>1, TFacts, Constants DEF TInv, Typed, TableInv, Members
<1>1. CASE Prepare(p)
  <2>1. /\ pc[p] = "prepare" /\ length > 1
        /\ table'[p] = ForCommand(p)
    BY <1>0, <1>1 DEF Prepare, ChildOK
  <2>2. IF monitor THEN pc'[p] = "group" ELSE pc'[p] \in Running
    BY <1>0, <1>1, BeginsMoves DEF Prepare, Goto, Running
  <2>3. /\ pc'[p] \in {"group"} \cup Running
        /\ Gated(p)' <=> monitor /\ p = 1
    BY <1>0, <2>1, <2>2 DEF Gated, Running
  <2>4. Connected(p)'
    <3>1. /\ p > 1 => table'[p][0] = ReadEnd(p - 1)
          /\ p < length => table'[p][1] = WriteEnd(p)
          /\ Gated(p)' => table'[p][local[p].pgidPipe[1]] = ReadEnd(Gate)
      BY <2>1, <2>3, ForCommandIs
    <3>2. \A fd \in Fds :
            table'[p][fd] \in Ends =>
              \/ p > 1 /\ fd = 0
              \/ p < length /\ fd = 1
              \/ Gated(p)' /\ fd = local[p].pgidPipe[1]
      BY <2>1, <2>3, ForCommandIs
    <3> QED
      BY <1>0, <3>1, <3>2 DEF Connected
  <2> QED
    BY <2>3, <2>4 DEF ChildTable, Running
<1>2. CASE SetGroup(p) \/ TakeTerminal(p)
  <2>1. /\ pc[p] \in {"group", "foreground"}
        /\ pc[p] = "foreground" => monitor /\ p = 1
        /\ table' = table
    BY <1>0, <1>2 DEF SetGroup, TakeTerminal, ChildOK
  <2>2. /\ pc'[p] \in {"foreground", "gate"} \cup Running
        /\ pc'[p] \in Running => ~(monitor /\ p = 1 /\ length > 1)
    <3>1. CASE SetGroup(p)
      BY <1>0, <3>1, BeginsMoves DEF SetGroup, Goto, Running
    <3>2. CASE TakeTerminal(p)
      BY <1>0, <3>2, BeginsMoves DEF TakeTerminal, Goto, Running
    <3> QED
      BY <1>2, <3>1, <3>2
  <2>3. Gated(p)' <=> Gated(p)
    BY <1>0, <2>1, <2>2 DEF Gated, Running
  <2>4. Connected(p)
    BY <1>0, <2>1 DEF ChildTable
  <2>5. Connected(p)'
    BY <1>0, <2>1, <2>3, <2>4 DEF Connected
  <2> QED
    BY <2>2, <2>5 DEF ChildTable, Running
<1>3. CASE PassGate(p)
  <2> DEFINE fd == local[p].pgidPipe[1]
  <2>1. /\ pc[p] = "gate" /\ monitor /\ p = 1 /\ length > 1
        /\ table'[p] = Without(table[p], {fd})
        /\ pc'[p] \in Running
    BY <1>0, <1>3, BeginsMoves DEF PassGate, Goto, Running, ChildOK
  <2>2. Connected(p) /\ Gated(p) /\ ~Gated(p)'
    BY <1>0, <2>1 DEF ChildTable, Gated, Running
  <2>3. \A other \in Fds :
          table'[p][other] = IF other = fd THEN Closed ELSE table[p][other]
    BY <1>0, <2>1, WithoutIs
  <2>4. /\ table[p][1] = WriteEnd(1) /\ table[p][fd] = ReadEnd(Gate)
        /\ \A other \in Fds : table[p][other] \in Ends => other \in {1, fd}
    BY <2>1, <2>2 DEF Connected
  <2>5. /\ table'[p][1] = WriteEnd(1)
        /\ \A other \in Fds : table'[p][other] \in Ends => other = 1
    BY <2>3, <2>4, EndsDiffer, Constants
  <2>6. Connected(p)'
    BY <1>0, <2>1, <2>2, <2>5 DEF Connected
  <2> QED
    BY <2>1, <2>6 DEF ChildTable, Running
<1>4. CASE ReadFromPipe(p) \/ Stops(p) \/ Continues(p) \/ ReadsEnd(p) \/ Write(p)
  <2>1. pc[p] \in Running /\ table' = table
    BY <1>4 DEF ReadFromPipe, Stops, Continues, ReadsEnd, Write, Running
  <2>2. pc'[p] \in Running
    <3>1. CASE ReadFromPipe(p) \/ Stops(p) \/ Continues(p)
      BY <1>0, <3>1, BeginsMoves
      DEF ReadFromPipe, Stops, Continues, Goto, Running
    <3>2. CASE ReadsEnd(p) \/ Write(p)
      BY <1>0, <3>2 DEF ReadsEnd, Write, Choices, Goto, Running
    <3> QED
      BY <1>4, <3>1, <3>2
  <2>3. Connected(p) /\ ~Gated(p) /\ ~Gated(p)'
    BY <1>0, <2>1, <2>2 DEF ChildTable, Gated, Running
  <2>4. Connected(p)'
    BY <1>0, <2>1, <2>3 DEF Connected
  <2> QED
    BY <2>2, <2>4 DEF ChildTable, Running
<1>5. CASE WriteFails(p) \/ End(p) \/ PreparationFails(p)
  <2>1. pc'[p] = "ended"
    BY <1>0, <1>5 DEF WriteFails, End, PreparationFails, Ended, Goto
  <2> QED
    BY <2>1 DEF ChildTable, Running
<1> QED
  BY <1>1, <1>2, <1>3, <1>4, <1>5 DEF Child

\* Every step keeps the ends where they belong.
LEMMA NextTable ==
  ASSUME TInv, TableInv, [Next]_vars
  PROVE  TableInv'
<1>1. CASE UNCHANGED vars
  BY <1>1
  DEF vars, options, groups, outcome, TableInv, ShellTable, ChildTable, Holding,
      HoldingFirst, HoldingGate, HoldsNothing, Connected, Gated, Current, Last,
      Members
<1>2. CASE Parent \/ Fails
  BY <1>2, StartTable, ForkTable, FirstTable, MiddleTable, EndTable, WaitTable
  DEF Parent
<1>3. CASE \E p \in Children : Child(p) \/ Continues(p) \/ PreparationFails(p)
  <2>1. PICK p \in Children : Child(p) \/ Continues(p) \/ PreparationFails(p)
    BY <1>3
  <2>2. /\ \A q \in Processes \ {p} : table'[q] = table[q]
        /\ \E point : Moves(p, point)
    BY <2>1, ChildMoves
  <2>3. /\ pc'[Shell] = pc[Shell]
        /\ \A q \in Children \ {p} : pc'[q] = pc[q]
        /\ length' = length /\ monitor' = monitor /\ local' = local
        /\ Current' = Current /\ Members' = Members
    BY <2>2, MovesKeeps
  <2>4. ShellTable'
    <3>1. table'[Shell] = table[Shell] /\ (Last' <=> Last)
      BY <2>2, <2>3, Constants DEF Last
    <3> QED
      BY <2>3, <3>1
      DEF TableInv, ShellTable, Holding, HoldingFirst, HoldingGate, HoldsNothing
  <2>5. ASSUME NEW q \in Members PROVE ChildTable(q)'
    <3>1. q \in Commands /\ q \in Children /\ q \in Processes /\ ChildTable(q)
      BY TFacts, Constants DEF TableInv
    <3>2. CASE q = p
      BY <2>1, <3>2, OwnTable
    <3>3. CASE q # p
      BY <2>2, <2>3, <3>1, <3>3, TableKept
    <3> QED
      BY <3>2, <3>3
  <2> QED
    BY <2>3, <2>4, <2>5 DEF TableInv
<1> QED
  BY <1>1, <1>2, <1>3 DEF Next, SpinsOn, Terminated

\* The inductive invariant says what the pipes connect.
LEMMA TableImplies == TInv /\ TableInv => PipesConnect
<1> SUFFICES ASSUME TInv, TableInv PROVE PipesConnect
  OBVIOUS
<1>1. ShellKeepsNothing
  BY DEF TableInv, ShellTable, ShellKeepsNothing, HoldsNothing
<1>2. ASSUME NEW p \in Members, pc[p] \in Running, NEW fd \in Fds
      PROVE  /\ table[p][fd] = ReadEnd(p - 1) <=> fd = 0 /\ p > 1
             /\ table[p][fd] = WriteEnd(p) <=> fd = 1 /\ p < length
             /\ table[p][fd] \in Ends =>
                  table[p][fd] \in {ReadEnd(p - 1), WriteEnd(p)}
  <2>1. /\ p \in Nat /\ p - 1 \in 0..MaxCommands - 1 /\ p >= 1
        /\ p <= length /\ length \in Nat /\ p - 1 \in Nat
        /\ table[p][fd] \in Values
    BY TFacts, Constants DEF Members, Tables
  <2>2. Connected(p) /\ ~Gated(p)
    BY <1>2 DEF TableInv, ChildTable, Gated, Running
  <2>3. /\ p > 1 => table[p][0] = ReadEnd(p - 1)
        /\ p < length => table[p][1] = WriteEnd(p)
        /\ table[p][fd] \in Ends => \/ p > 1 /\ fd = 0
                                    \/ p < length /\ fd = 1
    BY <2>2 DEF Connected
  <2>4. ReadEnd(p - 1) # WriteEnd(p) /\ ReadEnd(p - 1) \in Ends
    BY <2>1, EndsDiffer
  <2>5. table[p][fd] = WriteEnd(p) => table[p][fd] \in Ends
    BY <2>1, EndsDiffer DEF Values
  <2> QED
    BY <2>3, <2>4, <2>5
<1>3. CommandsAreConnected
  BY <1>2 DEF CommandsAreConnected
<1> QED
  BY <1>1, <1>3 DEF PipesConnect

\* If the shell has descriptor 1, then whatever the number of commands and of
\* descriptors, and whether 0 is open or not, each command runs with its ends
\* of its pipes and with no other end, and the shell waits with none.
THEOREM PipesAreConnected ==
  ASSUME 1 \notin NotOpen
  PROVE  Spec => []PipesConnect
<1>1. Init => TInv /\ TableInv
  BY InitT, InitTable
<1>2. TInv /\ TableInv /\ [Next]_vars => (TInv /\ TableInv)'
  BY NextT, NextTable
<1>3. TInv /\ TableInv => PipesConnect
  BY TableImplies
<1> QED
  BY <1>1, <1>2, <1>3, PTL DEF Spec

(***************************************************************************)
(* The process group and the terminal.                                     *)
(***************************************************************************)
\* What the invariant says while there is job control.
LEMMA GroupIs ==
  ASSUME TInv, GroupInv, monitor
  PROVE  /\ pc[1] \in {"foreground", "gate"} \cup Running => group[1] = 1
         /\ pc[Shell] \in {"loop", "forked"} =>
              \A p \in 2..length : p < Current => group[p] = 1
         /\ pc[Shell] \in {"release", "wait", "reap", "done"} =>
              \A p \in 2..length : group[p] = 1
         /\ length > 1 /\ pc[Shell] \in Launching \cup {"start", "release"} =>
              pc[1] \notin Running
         /\ /\ inputIsTerminal
            /\ pc[Shell] \notin {"reap", "done"}
            /\ pc[1] \in {"gate"} \cup Running
            => foreground = 1
BY Zenon DEF GroupInv

\* A step of the shell that leaves the commands and their groups alone.
LEMMA QuietGroup ==
  ASSUME TInv, GroupInv, UNCHANGED << options, groups >>,
         NEW point \in ShellPoints, Goto(Shell, point),
         pc[Shell] \in {"reap", "done"} => point \in {"reap", "done"},
         point \in Launching \cup {"start", "release"} =>
           pc[Shell] \in Launching \cup {"start", "release"},
         point \in {"loop", "forked"} => Current' \in {1, 2},
         point \in {"release", "wait", "reap", "done"} =>
           pc[Shell] \in {"release", "wait", "reap", "done"}
  PROVE  GroupInv'
<1> SUFFICES ASSUME monitor PROVE GroupInv'
  BY DEF GroupInv, options
<1>1. /\ pc'[Shell] = point /\ pc'[1] = pc[1]
      /\ UNCHANGED << length, monitor, inputIsTerminal, group, foreground >>
  BY ShellStepT, Constants DEF options, groups
<1>2. length \in Nat /\ \A p \in 2..length : ~(p < 1) /\ ~(p < 2)
  BY TFacts
<1> QED
  BY <1>1, <1>2, GroupIs DEF GroupInv

\* The steps of the shell.
LEMMA ParentGroup ==
  ASSUME TInv, GroupInv, Parent \/ Fails
  PROVE  GroupInv'
<1> SUFFICES ASSUME monitor PROVE GroupInv'
  <2>1. monitor' = monitor
    BY DEF Parent, ForkUtility, CreateGate, ForkCommand, Fails, ParentOfFirst,
           Spin, ParentOfMiddle, AssertionFails, ParentOfLast, Release,
           WaitForCommand, Wait, PipelineReturns, options
  <2> QED
    BY <2>1 DEF GroupInv
<1>0. /\ DOMAIN pc = Processes /\ Shell \in Processes /\ Shell \notin Children
      /\ 1 \in Children /\ 1 \in Commands /\ Children \subseteq Processes
      /\ \A p \in 2..length : p \in Children /\ p \in Processes
      /\ DOMAIN group = Processes
      /\ length \in Nat \ {0} /\ Current \in Nat \ {0}
      /\ Current \in Children /\ Current \in Members /\ Current <= length
  BY TFacts, Constants DEF TInv, Typed, Members
<1>1. CASE ForkUtility
  <2>1. /\ length = 1 /\ UNCHANGED << length, monitor, inputIsTerminal >>
        /\ pc'[1] = "group" /\ pc'[Shell] = "wait"
    BY <1>0, <1>1 DEF ForkUtility, options
  <2> QED
    BY <2>1 DEF GroupInv, Running, Launching
<1>2. CASE CreateGate \/ ParentOfFirst \/ Spin
  <2>1. CASE CreateGate
    <3>1. /\ Goto(Shell, "loop") /\ UNCHANGED << options, groups >>
          /\ pc[Shell] = "start"
      BY <2>1 DEF CreateGate
    <3>2. local'[Shell].i = 1
      <4>1. Current = 1 /\ local[Shell] \in Locals /\ DOMAIN local = Processes
        BY <3>1, TFacts DEF TInv, ShellOK, First
      <4> QED
        BY <1>0, <2>1, <4>1 DEF CreateGate, Locals, Current
    <3> QED
      BY <3>1, <3>2, QuietGroup DEF ShellPoints, Launching, Current
  <2>2. CASE ParentOfFirst
    <3>1. /\ Goto(Shell, "spin") /\ UNCHANGED << options, groups >>
          /\ pc[Shell] = "forked"
      BY <2>2 DEF ParentOfFirst
    <3> QED
      BY <3>1, QuietGroup DEF ShellPoints, Launching
  <2>3. CASE Spin
    <3>1. /\ Goto(Shell, "loop") /\ UNCHANGED << options, groups >>
          /\ pc[Shell] = "spin" /\ NextCommand /\ Current = 1 /\ length > 1
          /\ Assigned(local[Shell], 1, TRUE)
      BY <2>3 DEF Spin, TInv, ShellOK, First, Launching
    <3>2. Current' = 2
      BY <3>1, TFacts, NextCommandT DEF Last, Assigned, Current
    <3> QED
      BY <3>1, <3>2, QuietGroup DEF ShellPoints, Launching
  <2> QED
    BY <1>2, <2>1, <2>2, <2>3
<1>3. CASE Fails \/ AssertionFails
  <2>1. PICK point \in {"failed", "aborted"} : Goto(Shell, point)
    BY <1>3 DEF Fails, AssertionFails
  <2>2. /\ pc[Shell] \in {"start", "loop", "forked"}
        /\ UNCHANGED << options, groups >>
    BY <1>3 DEF Fails, AssertionFails
  <2> QED
    BY <2>1, <2>2, QuietGroup DEF ShellPoints, Launching
<1>4. CASE Release
  <2>1. /\ Goto(Shell, "wait") /\ UNCHANGED << options, groups >>
        /\ pc[Shell] = "release"
    BY <1>4 DEF Release
  <2> QED
    BY <2>1, QuietGroup DEF ShellPoints, Launching
<1>5. CASE PipelineReturns
  <2>1. /\ Goto(Shell, "done") /\ UNCHANGED << options, groups >>
        /\ pc[Shell] = "reap"
    BY <1>5 DEF PipelineReturns
  <2> QED
    BY <2>1, QuietGroup DEF ShellPoints, Launching
<1>6. CASE ForkCommand
  <2>1. /\ pc[Shell] = "loop" /\ pc'[Shell] = "forked"
        /\ pc'[1] \in {pc[1], "prepare"}
        /\ UNCHANGED << length, monitor, inputIsTerminal, group, foreground >>
    BY <1>0, <1>6 DEF ForkCommand, options, groups
  <2>2. Current' = Current
    <3>1. local[Shell] \in Locals /\ DOMAIN local = Processes
      BY TFacts
    <3>2. /\ local' = [local EXCEPT ![Shell] = local'[Shell],
                                    ![Current] = local'[Current]]
          /\ \E fds : local'[Shell] = [local[Shell] EXCEPT !.pipeFds = fds]
      BY <1>0, <1>6, <3>1 DEF ForkCommand
    <3> QED
      BY <1>0, <3>1, <3>2 DEF Current, Locals
  <2> QED
    BY <2>1, <2>2, GroupIs DEF GroupInv, Running, Launching
<1>7. CASE ParentOfMiddle \/ ParentOfLast
  <2>1. /\ pc[Shell] = "forked" /\ JoinGroup /\ Current > 1
        /\ UNCHANGED << length, monitor, inputIsTerminal, foreground >>
    <3>1. ParentOfLast => length > 1
      BY DEF ParentOfLast, TInv, ShellOK, Launching
    <3>2. CASE ParentOfMiddle
      BY <1>0, <3>2 DEF ParentOfMiddle, options, First
    <3>3. CASE ParentOfLast
      BY <1>0, <3>1, <3>3 DEF ParentOfLast, options, Last
    <3> QED
      BY <1>7, <3>2, <3>3
  <2>2. group' = [group EXCEPT ![Current] = 1]
    BY <2>1, JoinGroupT
  <2>3. /\ group'[1] = group[1]
        /\ \A p \in 2..length : p < Current + 1 => group'[p] = 1
    <3>1. /\ \A p \in 2..length : p < Current => group[p] = 1
          /\ \A p \in 2..length : p < Current + 1 => p < Current \/ p = Current
      BY <1>0, <2>1, GroupIs
    <3> QED
      BY <1>0, <2>1, <2>2, <3>1
  <2>4. \/ ~Last /\ Goto(Shell, "loop") /\ Current' = Current + 1
        \/ Last /\ Goto(Shell, "release")
    <3>1. CASE ParentOfMiddle
      <4>1. /\ ~Last /\ Goto(Shell, "loop") /\ NextCommand
            /\ Assigned(local[Shell], Current, ~Last)
        BY <2>1, <3>1 DEF ParentOfMiddle, TInv, ShellOK
      <4> QED
        BY <4>1, NextCommandT DEF Assigned, Current
    <3>2. CASE ParentOfLast
      BY <3>2 DEF ParentOfLast
    <3> QED
      BY <1>7, <3>1, <3>2
  <2>5. \/ pc'[Shell] = "loop" /\ Current' = Current + 1
        \/ pc'[Shell] = "release" /\ Current = length
    BY <1>0, <2>4 DEF Goto, Last
  <2>6. pc'[1] = pc[1]
    BY <1>0, <2>4 DEF Goto
  <2>7. \A p \in 2..length : Current = length => p < Current + 1
    BY <1>0
  <2> QED
    BY <2>1, <2>3, <2>5, <2>6, <2>7, GroupIs DEF GroupInv, Launching
<1>8. CASE WaitForCommand \/ Wait
  <2>1. /\ pc[Shell] \in {"wait", "reap"} /\ pc'[Shell] \in {"reap", "done"}
        /\ UNCHANGED << length, monitor, group >>
        /\ pc'[1] = pc[1] \/ pc'[1] = "reaped"
    <3>1. CASE WaitForCommand
      BY <1>0, <3>1, TFacts DEF WaitForCommand, options
    <3>2. CASE Wait
      BY <1>0, <3>2 DEF Wait, Goto, options, groups
    <3> QED
      BY <1>8, <3>1, <3>2
  <2> QED
    BY <2>1, GroupIs DEF GroupInv, Launching, Running
<1> QED
  BY <1>1, <1>2, <1>3, <1>4, <1>5, <1>6, <1>7, <1>8 DEF Parent

\* The gate is closed while the shell forks: it has the writing end itself.
LEMMA GateIsClosed ==
  ASSUME TInv, TableInv, pc[1] = "gate",
         pc[Shell] \in Launching \cup {"start", "release"}
  PROVE  ~PassGate(1)
<1>1. /\ 1 \in Children /\ 1 \in Members /\ 1 \in Commands
      /\ ChildOK(1) /\ ForkedOK
  BY TFacts, Constants DEF TInv
<1>2. monitor /\ length > 1 /\ pc[Shell] # "start"
  BY <1>1 DEF ChildOK, ForkedOK
<1>3. Gated(1)
  BY <1>2 DEF Gated
<1>4. table[1][local[1].pgidPipe[1]] = ReadEnd(Gate)
  BY <1>1, <1>3 DEF TableInv, ChildTable, Connected
<1>5. local[Shell].pgidPipe \in Fds \X Fds
  BY <1>2 DEF TInv, ShellOK, Launching, Assigned
<1>6. table[Shell][local[Shell].pgidPipe[2]] = WriteEnd(Gate)
  BY <1>2
  DEF TableInv, ShellTable, Holding, HoldingFirst, HoldingGate, Launching
<1>7. Shell \in Holders(WriteEnd(Gate))
  BY <1>5, <1>6, Constants DEF Holders
<1> QED
  BY <1>4, <1>7 DEF PassGate

\* The steps of the children.
LEMMA ChildGroup ==
  ASSUME TInv, TableInv, GroupInv, NEW p \in Children,
         Child(p) \/ Continues(p) \/ PreparationFails(p)
  PROVE  GroupInv'
<1>1. /\ pc'[Shell] = pc[Shell]
      /\ \A q \in Children \ {p} : pc'[q] = pc[q]
      /\ length' = length /\ monitor' = monitor
      /\ inputIsTerminal' = inputIsTerminal
      /\ Current' = Current
      /\ \A q \in Processes \ {p} : group'[q] = group[q]
      /\ pc[p] # "none" /\ pc'[p] \in ChildPoints
  BY ChildMoves, MovesKeeps
<1> SUFFICES ASSUME monitor PROVE GroupInv'
  BY <1>1 DEF GroupInv
<1>0. /\ DOMAIN pc = Processes /\ Shell \in Processes /\ p \in Processes
      /\ 1 \in Children /\ 1 \in Processes
      /\ \A q \in 2..length : q \in Processes /\ q # 1
      /\ DOMAIN group = Processes
      /\ ChildOK(p)
  BY TFacts, Constants DEF TInv, Typed
<1>2. \/ group'[p] = group[p] /\ pc[p] # "group"
      \/ pc[p] = "group" /\ (p \in Commands => group'[p] = 1)
  <2>1. CASE SetGroup(p)
    <3>1. p \in Commands /\ p # 1 => p > 1
      BY Constants
    <3> QED
      BY <1>0, <2>1, <3>1 DEF SetGroup, ChildOK
  <2>2. CASE Prepare(p) \/ TakeTerminal(p) \/ PassGate(p) \/ ReadFromPipe(p)
             \/ Stops(p) \/ Continues(p) \/ ReadsEnd(p)
    BY <2>2 DEF Prepare, TakeTerminal, PassGate, ReadFromPipe, Stops, Continues,
                ReadsEnd, groups
  <2>3. CASE Write(p) \/ WriteFails(p) \/ End(p) \/ PreparationFails(p)
    BY <2>3 DEF Write, WriteFails, End, PreparationFails, groups
  <2> QED
    BY <2>1, <2>2, <2>3 DEF Child
<1>3. p # 1 => foreground' = foreground
  <2>1. ~TakeTerminal(p) => foreground' = foreground
    BY DEF Child, Prepare, SetGroup, PassGate, ReadFromPipe, Stops, Continues,
           ReadsEnd, Write, WriteFails, End, PreparationFails, groups
  <2>2. TakeTerminal(p) => p = 1
    BY <1>0 DEF TakeTerminal, ChildOK
  <2> QED
    BY <2>1, <2>2
<1>4. \A q \in 2..length : group[q] = 1 => group'[q] = 1
  <2>1. \A q \in 2..length : q \in Commands
    BY TFacts, Constants
  <2> QED
    BY <1>0, <1>1, <1>2, <2>1
<1>5. CASE p # 1
  <2>1. pc'[1] = pc[1] /\ group'[1] = group[1]
    BY <1>0, <1>1, <1>5
  <2> QED
    BY <1>1, <1>3, <1>4, <1>5, <2>1, GroupIs DEF GroupInv
<1>6. CASE p = 1
  <2>1. pc'[1] \in {"foreground", "gate"} \cup Running => group'[1] = 1
    <3>1. 1 \in Commands
      BY Constants
    <3>2. pc[1] = "prepare" => pc'[1] \in {"group", "ended"}
      BY <1>0, <1>6 DEF Child, Prepare, SetGroup, TakeTerminal, PassGate,
                        ReadFromPipe, Stops, Continues, ReadsEnd, Write,
                        WriteFails, End, PreparationFails, Ended,
                        Goto
    <3>3. pc[1] \in {"prepare", "group", "foreground", "gate"} \cup Running
      BY <1>0, <1>6 DEF Child, Prepare, SetGroup, TakeTerminal, PassGate,
                        ReadFromPipe, Stops, Continues, ReadsEnd, Write,
                        WriteFails, End, PreparationFails, Running
    <3> QED
      BY <1>1, <1>2, <1>6, <3>1, <3>2, <3>3, GroupIs DEF Running
  <2>2. length > 1 /\ pc[Shell] \in Launching \cup {"start", "release"} =>
          pc'[1] \notin Running
    <3> SUFFICES ASSUME length > 1,
                        pc[Shell] \in Launching \cup {"start", "release"}
                 PROVE  pc'[1] \notin Running
      OBVIOUS
    <3>1. pc[1] \notin Running
      BY GroupIs
    <3>2. ~PassGate(1)
      BY GateIsClosed DEF PassGate
    <3>3. pc[1] \in {"prepare", "group", "foreground"} \/ pc'[1] \notin Running
      BY <1>6, <3>1, <3>2
      DEF Child, Prepare, SetGroup, TakeTerminal, ReadFromPipe, Stops,
          Continues, ReadsEnd, Write, WriteFails, End, PreparationFails, Running
    <3>4. Prepare(1) \/ SetGroup(1) \/ TakeTerminal(1) \/ PreparationFails(1) =>
            pc'[1] \in {"group", "foreground", "gate", "ended"}
      BY <1>0 DEF Prepare, SetGroup, TakeTerminal, PreparationFails, Ended, Goto
    <3>5. pc[1] \in {"prepare", "group", "foreground"} =>
            Prepare(1) \/ SetGroup(1) \/ TakeTerminal(1) \/ PreparationFails(1)
      BY <1>6 DEF Child, PassGate, ReadFromPipe, Stops, Continues, ReadsEnd,
                  Write, WriteFails, End
    <3> QED
      BY <3>3, <3>4, <3>5 DEF Running
  <2>3. /\ inputIsTerminal
        /\ pc[Shell] \notin {"reap", "done"}
        /\ pc'[1] \in {"gate"} \cup Running
        => foreground' = 1
    <3> SUFFICES ASSUME inputIsTerminal, pc[Shell] \notin {"reap", "done"},
                        pc'[1] \in {"gate"} \cup Running
                 PROVE  foreground' = 1
      OBVIOUS
    <3>1. CASE TakeTerminal(1)
      BY <3>1, GroupIs DEF TakeTerminal
    <3>2. CASE Prepare(1) \/ SetGroup(1) \/ PreparationFails(1)
      <4>1. pc'[1] \in {"group", "foreground", "ended"}
        BY <1>0, <3>2 DEF Prepare, SetGroup, PreparationFails, Ended, Goto
      <4> QED
        BY <4>1 DEF Running
    <3>3. CASE PassGate(1) \/ ReadFromPipe(1) \/ Stops(1) \/ Continues(1)
               \/ ReadsEnd(1) \/ Write(1) \/ WriteFails(1) \/ End(1)
      <4>1. pc[1] \in {"gate"} \cup Running /\ foreground' = foreground
        BY <3>3 DEF PassGate, ReadFromPipe, Stops, Continues, ReadsEnd, Write,
                    WriteFails, End, groups, Running
      <4> QED
        BY <4>1, GroupIs
    <3> QED
      BY <1>6, <3>1, <3>2, <3>3 DEF Child
  <2> QED
    BY <1>1, <1>4, <2>1, <2>2, <2>3, GroupIs DEF GroupInv
<1> QED
  BY <1>5, <1>6

\* Every step keeps the groups.
LEMMA NextGroup ==
  ASSUME TInv, TableInv, GroupInv, [Next]_vars
  PROVE  GroupInv'
<1>1. CASE UNCHANGED vars
  BY <1>1 DEF vars, options, groups, outcome, GroupInv, Current
<1>2. CASE Parent \/ Fails
  BY <1>2, ParentGroup
<1>3. CASE \E p \in Children : Child(p) \/ Continues(p) \/ PreparationFails(p)
  BY <1>3, ChildGroup
<1> QED
  BY <1>1, <1>2, <1>3 DEF Next, SpinsOn, Terminated

\* The inductive invariant implies the one the runs check.
LEMMA GroupImplies == TInv /\ GroupInv => GroupIsReady
<1> SUFFICES ASSUME TInv, GroupInv PROVE GroupIsReady
  OBVIOUS
<1>1. GroupIsComplete
  <2> SUFFICES ASSUME monitor, pc[1] \in Running,
                      pc[Shell] \notin {"failed", "aborted"},
                      NEW p \in Members
               PROVE  pc[p] # "none" /\ group[p] = 1
    BY DEF GroupIsComplete
  <2>1. group[1] = 1
    BY GroupIs DEF Running
  <2>2. CASE p = 1
    BY <2>1, <2>2 DEF Running
  <2>3. CASE p # 1
    <3>1. p \in 2..length /\ length > 1 /\ p \in Commands /\ p <= length
      BY <2>3, TFacts DEF Members
    <3>2. pc[Shell] \in {"wait", "reap", "done"}
      <4>1. pc[Shell] \notin Launching \cup {"start", "release"}
        BY <3>1, GroupIs
      <4>2. pc[Shell] \in ShellPoints
        BY DEF TInv, ShellOK
      <4> QED
        BY <4>1, <4>2 DEF ShellPoints
    <3>3. group[p] = 1
      BY <3>1, <3>2, GroupIs
    <3>4. pc[p] # "none"
      BY <3>1, <3>2 DEF TInv, ForkedOK
    <3> QED
      BY <3>3, <3>4
  <2> QED
    BY <2>2, <2>3
<1>2. TerminalIsTheCommands
  <2> SUFFICES ASSUME monitor, inputIsTerminal, pc[1] \in Running,
                      pc[Shell] = "wait"
               PROVE  foreground = group[1]
    BY DEF TerminalIsTheCommands
  <2>1. group[1] = 1 /\ foreground = 1
    BY GroupIs DEF Running
  <2> QED
    BY <2>1
<1> QED
  BY <1>1, <1>2 DEF GroupIsReady

\* With job control, and if the shell has descriptor 1, the first command of
\* any pipeline runs only in a complete process group that has the terminal.
THEOREM FirstCommandRunsLast ==
  ASSUME 1 \notin NotOpen
  PROVE  Spec => []GroupIsReady
<1>1. Init => TInv /\ TableInv /\ GroupInv
  <2> SUFFICES ASSUME Init PROVE GroupInv
    BY InitT, InitTable
  <2>1. pc[Shell] = "start" /\ pc[1] = "none"
    BY Constants DEF Init
  <2> QED
    BY <2>1 DEF GroupInv, Running
<1>2. TInv /\ TableInv /\ GroupInv /\ [Next]_vars
      => (TInv /\ TableInv /\ GroupInv)'
  BY NextT, NextTable, NextGroup
<1>3. TInv /\ GroupInv => GroupIsReady
  BY GroupImplies
<1> QED
  BY <1>1, <1>2, <1>3, PTL DEF Spec
=============================================================================
