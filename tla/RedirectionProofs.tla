------------------------- MODULE RedirectionProofs -------------------------
(***************************************************************************)
(* The invariants of Redirection, for any number of descriptors, files,    *)
(* commands and redirections.                                              *)
(***************************************************************************)
EXTENDS Redirection, SequenceTheorems, TLAPS

Values == Files \cup {Script, Closed}
Entries == [fd : Low \cup {-1}, saved : High \cup {-1}]
Frames == [count : Nat, start : Nat]

(***************************************************************************)
(* The list savedFds.                                                      *)
(***************************************************************************)
SavedIn(s) == {s[i].saved : i \in 1..Len(s)} \ {-1}
Distinct(s) ==
  \A i, j \in 1..Len(s) : s[i].saved = s[j].saved /\ i # j => s[i].saved = -1

\* What is saved after a push.
LEMMA SavedOfAppend ==
  ASSUME NEW s \in Seq(Entries), NEW e \in Entries
  PROVE  /\ Append(s, e) \in Seq(Entries)
         /\ SavedIn(Append(s, e)) = SavedIn(s) \cup ({e.saved} \ {-1})
         /\ Distinct(s) /\ e.saved \notin SavedIn(s) => Distinct(Append(s, e))
<1> DEFINE t == Append(s, e)
<1>1. /\ t \in Seq(Entries) /\ Len(t) = Len(s) + 1 /\ Len(s) \in Nat
      /\ \A i \in 1..Len(s) : t[i] = s[i]
      /\ t[Len(s) + 1] = e
  OBVIOUS
<1> HIDE DEF t
<1>2. SavedIn(t) = SavedIn(s) \cup ({e.saved} \ {-1})
  BY <1>1 DEF SavedIn
<1>3. ASSUME Distinct(s), e.saved \notin SavedIn(s) PROVE Distinct(t)
  <2> SUFFICES ASSUME NEW i \in 1..Len(t), NEW j \in 1..Len(t),
                      t[i].saved = t[j].saved, i # j
               PROVE  t[i].saved = -1
    BY DEF Distinct
  <2>1. CASE i \in 1..Len(s) /\ j \in 1..Len(s)
    BY <1>1, <1>3, <2>1 DEF Distinct
  <2>2. CASE i = Len(s) + 1 /\ j \in 1..Len(s)
    BY <1>1, <1>3, <2>2 DEF SavedIn
  <2>3. CASE j = Len(s) + 1 /\ i \in 1..Len(s)
    BY <1>1, <1>3, <2>3 DEF SavedIn
  <2> QED BY <1>1, <2>1, <2>2, <2>3
<1> QED BY <1>1, <1>2, <1>3 DEF t

\* A sequence without its last element.
LEMMA FrontOfSeq ==
  ASSUME NEW S, NEW s \in Seq(S), s # <<>>
  PROVE  /\ AllButLast(s) \in Seq(S)
         /\ Len(AllButLast(s)) = Len(s) - 1
         /\ Len(s) \in Nat \ {0}
         /\ \A i \in 1..Len(s) - 1 : AllButLast(s)[i] = s[i]
         /\ s[Len(s)] \in S
<1> DEFINE k == Len(s) - 1
<1>1. /\ k \in Nat /\ Len(s) = k + 1 /\ Len(s) \in Nat \ {0}
      /\ \A i \in 1..k : s[i] \in S
      /\ s[Len(s)] \in S
  OBVIOUS
<1> HIDE DEF k
<1>2. /\ SubSeq(s, 1, k) \in Seq(S)
      /\ Len(SubSeq(s, 1, k)) = k
      /\ \A i \in 1..k : SubSeq(s, 1, k)[i] = s[i]
  BY <1>1, SubSeqProperties
<1>3. AllButLast(s) = SubSeq(s, 1, k)
  BY DEF AllButLast, k
<1> QED BY <1>1, <1>2, <1>3, Zenon DEF k

\* What is saved after a pop.
LEMMA SavedOfFront ==
  ASSUME NEW s \in Seq(Entries), s # <<>>
  PROVE  /\ s[Len(s)] \in Entries
         /\ AllButLast(s) \in Seq(Entries)
         /\ Len(AllButLast(s)) = Len(s) - 1
         /\ Distinct(s) =>
              /\ Distinct(AllButLast(s))
              /\ SavedIn(AllButLast(s)) = SavedIn(s) \ {s[Len(s)].saved}
<1> DEFINE t == AllButLast(s)
<1>1. /\ t \in Seq(Entries) /\ Len(t) = Len(s) - 1 /\ Len(s) \in Nat \ {0}
      /\ \A i \in 1..Len(s) - 1 : t[i] = s[i]
      /\ s[Len(s)] \in Entries
  BY FrontOfSeq
<1> HIDE DEF t
<1>2. ASSUME Distinct(s) PROVE Distinct(t)
  BY <1>1, <1>2 DEF Distinct
<1>3. ASSUME Distinct(s) PROVE SavedIn(t) = SavedIn(s) \ {s[Len(s)].saved}
  <2>1. ASSUME NEW x \in SavedIn(t)
        PROVE  x \in SavedIn(s) \ {s[Len(s)].saved}
    <3>1. PICK i \in 1..Len(s) - 1 : x = s[i].saved /\ x # -1
      BY <1>1 DEF SavedIn
    <3> QED BY <1>1, <1>3, <3>1 DEF SavedIn, Distinct
  <2>2. ASSUME NEW x \in SavedIn(s) \ {s[Len(s)].saved}
        PROVE  x \in SavedIn(t)
    <3>1. PICK i \in 1..Len(s) : x = s[i].saved /\ x # -1
      BY DEF SavedIn
    <3>2. i # Len(s)
      BY <3>1
    <3> QED BY <1>1, <3>1, <3>2 DEF SavedIn
  <2> QED BY <2>1, <2>2
<1> QED BY <1>1, <1>2, <1>3 DEF t

(***************************************************************************)
(* The inductive invariant.  As long as the process runs, the descriptors  *)
(* it owns are those of the list and of the script, and all are marked for *)
(* execv; and the list is divided into the redirections of the commands.   *)
(***************************************************************************)
Own ==
  /\ High \ Free(table) = Saved \cup ({inputFd} \ {0})
  /\ inputFd \notin Saved
  /\ Distinct(savedFds)
  /\ inputFd # 0 => table[inputFd] = Script
  /\ High \ Free(table) \subseteq cloexec

Balance ==
  \A i \in 1..Len(frames) :
    frames[i].start + frames[i].count =
      IF i = Len(frames) THEN Len(savedFds) ELSE frames[i + 1].start

Redirecting == pc \in {"performing", "undoing"} => frames # <<>>

IInv ==
  /\ TypeOK
  /\ ~Ended => Own /\ Balance
  /\ Redirecting
  /\ UtilitiesInheritLow

\* The invariant is at least as strong as each of the properties.
LEMMA IInvImplies ==
  IInv => NothingLeaks /\ InputIntact /\ PopsAreBalanced
BY DEF IInv, Own, Balance, NothingLeaks, InputIntact, PopsAreBalanced, Distinct

\* The numbers of the descriptors.
LEMMA FdFacts ==
  /\ Low \subseteq Fds /\ High \subseteq Fds /\ Low \cap High = {}
  /\ Fds = Low \cup High
  /\ 0 \in Low /\ 1 \in Low /\ 0 \notin High /\ -1 \notin Fds
BY RedirectionAssumption DEF Fds, Low, High

\* A step that leaves the shell's own descriptors alone.
LEMMA OwnUntouched ==
  ASSUME TypeOK, Own, UNCHANGED << cloexec, savedFds, inputFd >>,
         \A d \in High : table'[d] = table[d]
  PROVE  Own'
<1>1. High \ Free(table') = High \ Free(table)
  BY FdFacts DEF Free
<1>2. inputFd # 0 => table'[inputFd] = Script
  BY DEF Own, TypeOK
<1> QED BY <1>1, <1>2 DEF Own, Saved, Distinct

\* Another redirection of the innermost command is done or undone.
LEMMA Counted ==
  ASSUME frames \in Seq(Frames), frames # <<>>, Balance,
         savedFds \in Seq(Entries), savedFds' \in Seq(Entries),
         NEW count \in Nat,
         count - LastFrame.count = Len(savedFds') - Len(savedFds),
         frames' = [frames EXCEPT ![Len(frames)].count = count]
  PROVE  /\ frames' \in Seq(Frames) /\ frames' # <<>>
         /\ Balance'
<1>1. /\ Len(frames) \in Nat \ {0}
      /\ \A i \in 1..Len(frames) : frames[i] \in Frames
      /\ Len(savedFds) \in Nat /\ Len(savedFds') \in Nat
  OBVIOUS
<1> DEFINE last == [LastFrame EXCEPT !.count = count]
<1>2. last \in Frames
  <2>1. LastFrame \in Frames
    BY <1>1 DEF LastFrame
  <2> QED BY <2>1 DEF Frames
<1>3. frames' \in Seq(Frames) /\ Len(frames') = Len(frames)
  BY <1>1, <1>2 DEF LastFrame
<1>4. \A i \in 1..Len(frames) :
        frames'[i] = IF i = Len(frames) THEN last ELSE frames[i]
  BY <1>1 DEF LastFrame
<1>5. \A i \in 1..Len(frames) : frames'[i].start = frames[i].start
  BY <1>1, <1>4 DEF Frames, LastFrame
<1>6. ASSUME NEW i \in 1..Len(frames')
      PROVE  frames'[i].start + frames'[i].count =
               IF i = Len(frames') THEN Len(savedFds')
               ELSE frames'[i + 1].start
  <2>1. CASE i = Len(frames)
    <3>1. frames'[i].count = count
      BY <1>1, <1>4, <2>1 DEF Frames, LastFrame
    <3>2. frames[i].start + frames[i].count = Len(savedFds)
      BY <1>1, <2>1 DEF Balance
    <3>3. frames[i].start \in Nat /\ frames[i].count \in Nat
      BY <1>1, <2>1 DEF Frames
    <3> QED BY <1>1, <1>3, <1>5, <2>1, <3>1, <3>2, <3>3 DEF LastFrame
  <2>2. CASE i # Len(frames)
    <3>1. i + 1 \in 1..Len(frames) /\ i \in 1..Len(frames)
      BY <1>1, <1>3, <2>2
    <3>2. frames'[i] = frames[i] /\ frames'[i + 1].start = frames[i + 1].start
      BY <1>4, <1>5, <2>2, <3>1
    <3> QED BY <1>3, <2>2, <3>1, <3>2 DEF Balance
  <2> QED BY <2>1, <2>2
<1> QED BY <1>1, <1>3, <1>6 DEF Balance

\* A redirection opens a descriptor that was closed, or none, and afterwards
\* has changed none but the one it names.
LEMMA InstalledFacts ==
  ASSUME TypeOK, NEW fd \in Low, NEW source \in Obtained
  PROVE  /\ With(source) \in [Fds -> Values]
         /\ Installed(fd, source) \in [Fds -> Values]
         /\ \A d \in High : Installed(fd, source)[d] = table[d]
         /\ Free(With(source)) \subseteq Free(table)
<1>1. /\ table \in [Fds -> Values]
      /\ \/ /\ source.dup = FALSE /\ source.file \in Files
            /\ source.fd \in Fds /\ table[source.fd] = Closed
         \/ /\ source.dup = TRUE
            /\ source.fd \in Low \cup {-1}
  BY DEF TypeOK, Values, Obtained, Namable, Lowest, Free
<1>2. Files \subseteq Values /\ Closed \in Values /\ Closed \notin Files
  BY RedirectionAssumption DEF Values
<1>3. With(source) \in [Fds -> Values]
  BY <1>1, <1>2 DEF With
<1>4. ValueOf(source) \in Values
  BY <1>1, <1>2, <1>3, FdFacts DEF ValueOf
<1>5. Installed(fd, source) \in [Fds -> Values]
  BY <1>2, <1>3, <1>4 DEF Installed
<1>6. \A d \in High : Installed(fd, source)[d] = table[d]
  BY <1>1, FdFacts DEF Installed, With
<1>7. Free(With(source)) \subseteq Free(table)
  BY <1>1, <1>2 DEF With, Free
<1> QED BY <1>3, <1>5, <1>6, <1>7

(***************************************************************************)
(* The actions.                                                            *)
(***************************************************************************)

\* The empty lists.
LEMMA NoFrames == <<>> \in Seq(Frames)
OBVIOUS

LEMMA NoEntries == <<>> \in Seq(Entries)
OBVIOUS

\* Init.
LEMMA InitIInv == Init => IInv
<1> SUFFICES ASSUME Init PROVE IInv
  OBVIOUS
<1>1. PICK low \in [Low -> Files \cup {Closed}] :
        LET given == [d \in Fds |-> IF d \in Low THEN low[d] ELSE Closed] IN
        \/ table = given /\ inputFd = 0
        \/ \E fds \in ScriptFds(given) :
             table = [given EXCEPT ![fds[2]] = Script] /\ inputFd = fds[2]
  BY DEF Init
<1> DEFINE given == [d \in Fds |-> IF d \in Low THEN low[d] ELSE Closed]
<1>2. /\ table \in [Fds -> Values]
      /\ inputFd \in High \cup {0}
      /\ High \ Free(table) = {inputFd} \ {0}
      /\ inputFd # 0 => table[inputFd] = Script
  <2>1. Closed # Script /\ Script \in Values /\ Closed \in Values
        /\ Files \subseteq Values
    BY RedirectionAssumption DEF Values
  <2>2. given \in [Fds -> Values] /\ \A d \in High : given[d] = Closed
    BY FdFacts, <2>1
  <2>3. CASE table = given /\ inputFd = 0
    BY <2>2, <2>3, FdFacts DEF Free
  <2>4. ASSUME NEW fds \in ScriptFds(given),
               table = [given EXCEPT ![fds[2]] = Script], inputFd = fds[2]
        PROVE  <1>2
    <3>1. inputFd \in High /\ inputFd # 0
      BY <2>4, FdFacts DEF ScriptFds
    <3> HIDE DEF given
    <3> QED BY <2>1, <2>2, <2>4, <3>1, FdFacts DEF Free
  <2> QED BY <1>1, <2>3, <2>4
<1>3. cloexec = {inputFd} \ {0} /\ savedFds = <<>> /\ frames = <<>>
      /\ utility = FALSE /\ pc = "list"
  BY DEF Init
<1>4. Saved = {} /\ Distinct(savedFds) /\ Balance
  BY <1>3 DEF Saved, Distinct, Balance
<1>5. TypeOK
  BY <1>2, <1>3, FdFacts, SMTT(30) DEF TypeOK, Values, Points, Entries
<1>6. Own
  BY <1>2, <1>3, <1>4, FdFacts DEF Own
<1> QED BY <1>3, <1>4, <1>5, <1>6 DEF IInv, Redirecting, UtilitiesInheritLow

\* A step that goes from one point of the program to another.
LEMMA Control ==
  ASSUME IInv, ~Ended, UNCHANGED << table, cloexec, own >>,
         pc' \in Points \ {"replaced"},
         pc' \in {"performing", "undoing"} => frames # <<>>
  PROVE  IInv'
<1>1. TypeOK'
  BY DEF IInv, TypeOK, own
<1>2. Own'
  BY OwnUntouched DEF IInv, own
<1>3. Balance'
  BY DEF IInv, Balance, own
<1> QED BY <1>1, <1>2, <1>3 DEF IInv, Redirecting, UtilitiesInheritLow, own

\* BeginCommand and ForkUtility.
LEMMA PushFrame ==
  ASSUME IInv, ~Ended, UNCHANGED << table, cloexec, savedFds, inputFd >>,
         NEW outer \in {frames, <<>>},
         outer = frames => pc = "list",
         frames' = Append(outer, [count |-> 0, start |-> Len(savedFds)]),
         utility' \in BOOLEAN, pc' = "performing"
  PROVE  IInv'
<1> DEFINE frame == [count |-> 0, start |-> Len(savedFds)]
<1>1. frames \in Seq(Frames) /\ Len(savedFds) \in Nat
  BY DEF IInv, TypeOK, Frames
<1>2. outer \in Seq(Frames) /\ frame \in Frames
  <2>1. outer \in Seq(Frames)
    BY <1>1, NoFrames, Zenon
  <2>2. frame \in Frames
    BY <1>1 DEF Frames
  <2> QED BY <2>1, <2>2
<1>3. /\ frames' \in Seq(Frames) /\ frames' # <<>>
      /\ Len(frames') = Len(outer) + 1 /\ Len(outer) \in Nat
      /\ frames'[Len(outer) + 1] = frame
      /\ \A i \in 1..Len(outer) : frames'[i] = outer[i]
  BY <1>2
<1>4. TypeOK'
  BY <1>3 DEF IInv, TypeOK, Frames, Points
<1>5. Own'
  BY OwnUntouched DEF IInv
<1>6. Balance'
  <2> SUFFICES ASSUME NEW i \in 1..Len(frames')
               PROVE  frames'[i].start + frames'[i].count =
                        IF i = Len(frames') THEN Len(savedFds')
                        ELSE frames'[i + 1].start
    BY DEF Balance
  <2>1. CASE i = Len(outer) + 1
    BY <1>1, <1>3, <2>1
  <2>2. CASE i \in 1..Len(outer)
    <3>1. outer = frames
      BY <2>2
    <3>2. frames[i].start + frames[i].count =
            IF i = Len(frames) THEN Len(savedFds) ELSE frames[i + 1].start
      BY <2>2, <3>1 DEF IInv, Balance
    <3>3. CASE i = Len(frames)
      BY <1>3, <2>2, <3>1, <3>2, <3>3
    <3>4. CASE i # Len(frames)
      <4>1. i + 1 \in 1..Len(frames) /\ i # Len(frames')
        BY <1>3, <2>2, <3>1, <3>4
      <4> QED BY <1>3, <2>2, <3>1, <3>2, <3>4, <4>1
    <3> QED BY <3>3, <3>4
  <2> QED BY <1>3, <2>1, <2>2
<1> QED BY <1>3, <1>4, <1>5, <1>6 DEF IInv, Redirecting, UtilitiesInheritLow

\* ExecRedirection and Fork.
LEMMA Untouched ==
  ASSUME IInv, ~Ended, UNCHANGED << cloexec, savedFds, inputFd, utility >>,
         table' \in [Fds -> Values], \A d \in High : table'[d] = table[d],
         frames' \in {frames, <<>>}, pc' \in {"list", "exec"}
  PROVE  IInv'
<1>1. TypeOK'
  <2>1. frames \in Seq(Frames)
    BY DEF IInv, TypeOK, Frames
  <2>2. frames' \in Seq(Frames)
    BY <2>1, NoFrames, Zenon
  <2> QED BY <2>2 DEF IInv, TypeOK, Values, Points, Frames
<1>2. Own'
  BY OwnUntouched DEF IInv
<1>3. Balance'
  BY DEF IInv, Balance
<1> QED BY <1>1, <1>2, <1>3 DEF IInv, Redirecting, UtilitiesInheritLow

\* PerformRedirection.
LEMMA Performed ==
  ASSUME IInv, PerformRedirection
  PROVE  IInv'
<1>1. PICK fd \in Low, source \in Obtained :
        \/ RedirectUnsaved(fd, source)
        \/ RedirectSaved(fd, source)
        \/ SaveFails(fd, source)
  BY DEF PerformRedirection, Namable
<1>2. /\ TypeOK /\ pc = "performing" /\ Own /\ Balance /\ ~Ended /\ frames # <<>>
      /\ UNCHANGED << inputFd, utility >>
      /\ frames \in Seq(Frames) /\ savedFds \in Seq(Entries)
  BY DEF IInv, PerformRedirection, Ended, Ends, Redirecting, TypeOK, Frames, Entries
<1>3. /\ With(source) \in [Fds -> Values]
      /\ Installed(fd, source) \in [Fds -> Values]
      /\ \A d \in High : Installed(fd, source)[d] = table[d]
      /\ Free(With(source)) \subseteq Free(table)
  BY <1>2, InstalledFacts
<1> DEFINE count == LastFrame.count + 1
<1>4. count \in Nat /\ count - LastFrame.count = 1
  <2>1. LastFrame \in Frames
    BY <1>2 DEF LastFrame
  <2> QED BY <2>1 DEF Frames
<1>5. ASSUME NEW e \in Entries, savedFds' = Append(savedFds, e),
             frames' = [frames EXCEPT ![Len(frames)].count = @ + 1]
      PROVE  /\ savedFds' \in Seq(Entries)
             /\ Saved' = Saved \cup ({e.saved} \ {-1})
             /\ e.saved \notin Saved => Distinct(savedFds')
             /\ frames' \in Seq(Frames) /\ frames' # <<>> /\ Balance'
  <2>1. /\ savedFds' \in Seq(Entries)
        /\ Saved' = Saved \cup ({e.saved} \ {-1})
        /\ e.saved \notin Saved => Distinct(savedFds')
    BY <1>2, <1>5, SavedOfAppend, SMTT(30) DEF Saved, SavedIn, Own
  <2>2. Len(savedFds') - Len(savedFds) = 1
    BY <1>2, <1>5
  <2>3. frames' = [frames EXCEPT ![Len(frames)].count = count]
    BY <1>5 DEF LastFrame
  <2> HIDE DEF count
  <2>4. frames' \in Seq(Frames) /\ frames' # <<>> /\ Balance'
    BY <1>2, <1>4, <2>1, <2>2, <2>3, Counted
  <2> QED BY <2>1, <2>4
<1>6. CASE RedirectUnsaved(fd, source)
  <2>1. PICK name \in Low \cup {-1} : Push(name, -1)
    BY <1>6 DEF RedirectUnsaved
  <2> DEFINE e == [fd |-> name, saved |-> -1]
  <2>2. e \in Entries /\ e.saved = -1 /\ -1 \notin Saved
    BY DEF Entries, Saved
  <2>3. /\ savedFds' = Append(savedFds, e)
        /\ frames' = [frames EXCEPT ![Len(frames)].count = @ + 1]
    BY <2>1 DEF Push
  <2> HIDE DEF e
  <2>4. /\ savedFds' \in Seq(Entries) /\ Saved' = Saved /\ Distinct(savedFds')
        /\ frames' \in Seq(Frames) /\ frames' # <<>> /\ Balance'
    BY <1>5, <2>2, <2>3
  <2>5. table' = Installed(fd, source) /\ UNCHANGED << cloexec, pc >>
    BY <1>6 DEF RedirectUnsaved
  <2>6. TypeOK'
    BY <1>2, <1>3, <2>4, <2>5 DEF TypeOK, Values, Frames, Entries
  <2>7. Own'
    <3>1. High \ Free(table') = High \ Free(table)
      BY <1>3, <2>5, FdFacts DEF Free
    <3>2. inputFd # 0 => table'[inputFd] = Script
      BY <1>2, <1>3, <2>5 DEF Own, TypeOK
    <3> QED BY <1>2, <2>4, <2>5, <3>1, <3>2 DEF Own
  <2> QED
    BY <1>2, <2>4, <2>5, <2>6, <2>7
       DEF IInv, Redirecting, UtilitiesInheritLow, Ended, Ends
<1>7. CASE RedirectSaved(fd, source)
  <2>1. PICK saved \in Free(With(source)) \cap High :
          /\ table' = [Installed(fd, source) EXCEPT ![saved] = With(source)[fd]]
          /\ cloexec' = cloexec \cup {saved}
          /\ Push(fd, saved)
    BY <1>7 DEF RedirectSaved, Lowest
  <2>2. With(source)[fd] \in Values \ {Closed} /\ UNCHANGED pc
    BY <1>3, <1>7, FdFacts DEF RedirectSaved
  <2>3. /\ saved \in High /\ saved \in Fds /\ saved # -1 /\ saved # 0
        /\ table[saved] = Closed
    BY <1>3, <2>1, FdFacts DEF Free
  <2>4. saved \notin Saved /\ saved # inputFd
    BY <1>2, <2>3 DEF Own, Free
  <2> DEFINE e == [fd |-> fd, saved |-> saved]
  <2>5. e \in Entries /\ e.saved = saved
    BY <2>3 DEF Entries
  <2>6. /\ savedFds' = Append(savedFds, e)
        /\ frames' = [frames EXCEPT ![Len(frames)].count = @ + 1]
    BY <2>1 DEF Push
  <2> HIDE DEF e
  <2>7. /\ savedFds' \in Seq(Entries) /\ Saved' = Saved \cup {saved}
        /\ Distinct(savedFds')
        /\ frames' \in Seq(Frames) /\ frames' # <<>> /\ Balance'
    <3>1. {saved} \ {-1} = {saved}
      BY <2>3
    <3> QED BY <1>5, <2>4, <2>5, <2>6, <3>1
  <2>8. table' \in [Fds -> Values]
    BY <1>3, <2>1, <2>2, <2>3
  <2>9. \A d \in High :
          table'[d] = IF d = saved THEN With(source)[fd] ELSE table[d]
    BY <1>3, <2>1, FdFacts
  <2>10. TypeOK'
    BY <1>2, <2>1, <2>2, <2>3, <2>7, <2>8 DEF TypeOK, Values, Frames, Entries
  <2>11. Own'
    <3>1. High \ Free(table') = (High \ Free(table)) \cup {saved}
      BY <2>2, <2>3, <2>9, FdFacts DEF Free
    <3>2. inputFd # 0 => table'[inputFd] = Script
      BY <1>2, <2>4, <2>9 DEF Own, TypeOK
    <3> QED BY <1>2, <2>1, <2>4, <2>7, <3>1, <3>2 DEF Own
  <2> QED
    BY <1>2, <2>2, <2>7, <2>10, <2>11
       DEF IInv, Redirecting, UtilitiesInheritLow, Ended, Ends
<1>8. CASE SaveFails(fd, source)
  <2>1. UNCHANGED << table, cloexec, own >> /\ pc' = "undoing"
    BY <1>2, <1>8 DEF SaveFails, own
  <2> QED BY <1>2, <2>1, Control DEF Points, Ends
<1> QED BY <1>1, <1>6, <1>7, <1>8

\* PopRedirection.
LEMMA Popped ==
  ASSUME IInv, PopRedirection
  PROVE  IInv'
<1>1. /\ TypeOK /\ pc = "undoing" /\ Own /\ Balance /\ ~Ended /\ frames # <<>>
      /\ UNCHANGED << inputFd, utility, pc >>
      /\ frames \in Seq(Frames) /\ savedFds \in Seq(Entries)
  BY DEF IInv, PopRedirection, Ended, Ends, Redirecting, TypeOK, Frames, Entries
<1> DEFINE count == LastFrame.count - 1
<1>2. count \in Nat /\ count - LastFrame.count = -1
  <2>1. LastFrame \in Frames
    BY <1>1 DEF LastFrame
  <2> QED BY <2>1 DEF Frames, PopRedirection
<1>3. savedFds # <<>>
  <2>1. LastFrame \in Frames /\ Len(frames) \in 1..Len(frames)
    BY <1>1 DEF LastFrame
  <2>2. LastFrame.start + LastFrame.count = Len(savedFds)
    BY <1>1, <2>1 DEF Balance, LastFrame
  <2>3. LastFrame.start \in Nat /\ LastFrame.count \in Nat /\ LastFrame.count > 0
    BY <2>1 DEF Frames, PopRedirection
  <2> QED BY <1>1, <2>2, <2>3
<1> DEFINE sfd == savedFds[Len(savedFds)]
<1>4. /\ sfd \in Entries
      /\ savedFds' \in Seq(Entries) /\ Len(savedFds') = Len(savedFds) - 1
      /\ Distinct(savedFds') /\ Saved' = Saved \ {sfd.saved}
  <2>1. savedFds' = AllButLast(savedFds)
    BY DEF PopRedirection
  <2>2. Distinct(savedFds)
    BY <1>1 DEF Own
  <2> QED BY <1>1, <1>3, <2>1, <2>2, SavedOfFront DEF Saved, SavedIn
<1>5. sfd.saved # -1 => sfd.saved \in Saved /\ sfd.saved \in High
  <2>1. Len(savedFds) \in 1..Len(savedFds)
    BY <1>1, <1>3
  <2> QED BY <1>4, <2>1 DEF Saved, Entries
<1>6. /\ table' = [d \in Fds |->
                     IF d = sfd.fd
                       THEN IF sfd.saved = -1 THEN Closed ELSE table[sfd.saved]
                     ELSE IF d = sfd.saved THEN Closed
                     ELSE table[d]]
      /\ cloexec' = cloexec \ {sfd.saved}
      /\ frames' = [frames EXCEPT ![Len(frames)].count = count]
  BY DEF PopRedirection, LastFrame
<1>7. frames' \in Seq(Frames) /\ frames' # <<>> /\ Balance'
  <2>1. count - LastFrame.count = Len(savedFds') - Len(savedFds)
    BY <1>1, <1>2, <1>4
  <2> HIDE DEF count, sfd
  <2> QED BY <1>1, <1>2, <1>4, <1>6, <2>1, Counted
<1>8. sfd.fd \in Low \cup {-1} /\ sfd.saved \in High \cup {-1}
  BY <1>4 DEF Entries
<1> HIDE DEF sfd, count
<1>9. /\ table' \in [Fds -> Values]
      /\ \A d \in High : table'[d] = IF d = sfd.saved THEN Closed ELSE table[d]
  BY <1>1, <1>6, <1>8, FdFacts DEF TypeOK, Values
<1>10. TypeOK'
  BY <1>1, <1>4, <1>6, <1>7, <1>9 DEF TypeOK, Values, Frames, Entries
<1>11. Own'
  <2>1. High \ Free(table') = (High \ Free(table)) \ {sfd.saved}
    BY <1>9, FdFacts DEF Free
  <2>2. inputFd # 0 => table'[inputFd] = Script
    BY <1>1, <1>5, <1>8, <1>9, FdFacts DEF Own, TypeOK
  <2>3. ({inputFd} \ {0}) \ {sfd.saved} = {inputFd} \ {0}
    BY <1>1, <1>5, <1>8, FdFacts DEF Own, TypeOK
  <2> QED BY <1>1, <1>4, <1>6, <2>1, <2>2, <2>3 DEF Own
<1> QED
  BY <1>1, <1>7, <1>10, <1>11
     DEF IInv, Redirecting, UtilitiesInheritLow, Ended, Ends

\* Undone.
LEMMA Left ==
  ASSUME IInv, Undone
  PROVE  IInv'
<1>1. /\ TypeOK /\ pc = "undoing" /\ Own /\ Balance /\ ~Ended /\ frames # <<>>
      /\ UNCHANGED << table, cloexec, savedFds, inputFd, utility >>
      /\ frames \in Seq(Frames) /\ LastFrame.count = 0
      /\ pc' \in {"list", "exited"}
  BY DEF IInv, Undone, Ended, Ends, Redirecting, TypeOK, Frames
<1>2. /\ frames' \in Seq(Frames) /\ Len(frames) \in Nat \ {0}
      /\ Len(frames') = Len(frames) - 1
      /\ \A i \in 1..Len(frames) - 1 : frames'[i] = frames[i]
      /\ LastFrame \in Frames
  <2>1. frames' = AllButLast(frames)
    BY DEF Undone
  <2> QED BY <1>1, <2>1, FrontOfSeq DEF LastFrame
<1>3. TypeOK'
  BY <1>1, <1>2 DEF TypeOK, Frames, Points, Ends
<1>4. Own'
  BY <1>1, OwnUntouched
<1>5. Balance'
  <2> SUFFICES ASSUME NEW i \in 1..Len(frames')
               PROVE  frames'[i].start + frames'[i].count =
                        IF i = Len(frames') THEN Len(savedFds')
                        ELSE frames'[i + 1].start
    BY DEF Balance
  <2>1. /\ i \in 1..Len(frames) /\ i # Len(frames)
        /\ i + 1 \in 1..Len(frames) /\ frames'[i] = frames[i]
    BY <1>2
  <2>2. frames[i].start + frames[i].count = frames[i + 1].start
    BY <1>1, <2>1 DEF Balance
  <2>3. CASE i = Len(frames')
    <3>1. i + 1 = Len(frames) /\ Len(frames) \in 1..Len(frames)
      BY <1>2, <2>3
    <3>2. LastFrame.start + LastFrame.count = Len(savedFds)
      BY <1>1, <3>1 DEF Balance, LastFrame
    <3>3. LastFrame.start = Len(savedFds)
      BY <1>1, <1>2, <3>2 DEF Frames
    <3> QED BY <1>1, <2>1, <2>2, <2>3, <3>1, <3>3 DEF LastFrame
  <2>4. CASE i # Len(frames')
    <3>1. frames'[i + 1] = frames[i + 1]
      BY <1>2, <2>4
    <3> QED BY <2>1, <2>2, <2>4, <3>1
  <2> QED BY <2>3, <2>4
<1> QED
  BY <1>1, <1>3, <1>4, <1>5 DEF IInv, Redirecting, UtilitiesInheritLow

\* Execv.
LEMMA Executed ==
  ASSUME IInv, Execv
  PROVE  IInv'
<1>1. /\ TypeOK /\ Own /\ ~Ended /\ UNCHANGED own
      /\ table \in [Fds -> Values] /\ Closed \in Values
  BY DEF IInv, Execv, Ended, Ends, TypeOK, Values
<1>2. CASE pc' = "exited" /\ UNCHANGED << table, cloexec >>
  BY <1>1, <1>2, Control DEF Points, Ends
<1>3. CASE /\ pc' = "replaced" /\ cloexec' = {}
           /\ table' = [d \in Fds |-> IF d \in cloexec THEN Closed ELSE table[d]]
  <2>1. table' \in [Fds -> Values]
    BY <1>1, <1>3
  <2>2. TypeOK'
    BY <1>1, <1>3, <2>1 DEF TypeOK, Values, Points, Ends, own
  <2>3. High \subseteq Free(table')
    BY <1>1, <1>3, FdFacts DEF Free, Own
  <2> QED
    BY <1>3, <2>2, <2>3 DEF IInv, Redirecting, UtilitiesInheritLow, Ended, Ends
<1> QED BY <1>2, <1>3 DEF Execv

\* ExecuteScript.
LEMMA ScriptExecuted ==
  ASSUME IInv, ExecuteScript
  PROVE  IInv'
<1> DEFINE closed == Saved \cup ({inputFd} \ {0})
           kept == [d \in Fds |-> IF d \in closed THEN Closed ELSE table[d]]
<1>1. PICK fds \in ScriptFds(kept) :
        /\ table' = [kept EXCEPT ![fds[2]] = Script]
        /\ inputFd' = fds[2]
        /\ cloexec' = {fds[2]}
  BY DEF ExecuteScript
<1>2. /\ savedFds' = <<>> /\ frames' = <<>> /\ utility' = FALSE /\ pc' = "list"
      /\ TypeOK /\ Own /\ table \in [Fds -> Values] /\ inputFd' \in High
  BY <1>1 DEF ExecuteScript, IInv, TypeOK, Ended, Ends, Values, ScriptFds
<1>3. Closed # Script /\ Script \in Values /\ Closed \in Values
  BY RedirectionAssumption DEF Values
<1>4. kept \in [Fds -> Values] /\ \A d \in High : kept[d] = Closed
  BY <1>2, <1>3, FdFacts DEF Own, Free
<1> HIDE DEF kept
<1>5. table' \in [Fds -> Values] /\ table'[inputFd'] = Script
      /\ High \ Free(table') = {inputFd'}
  BY <1>1, <1>2, <1>3, <1>4, FdFacts DEF Free
<1>6. Saved' = {} /\ Distinct(savedFds)' /\ Balance'
  BY <1>2 DEF Saved, Distinct, Balance
<1>7. TypeOK'
  <2>1. frames' \in Seq(Frames) /\ savedFds' \in Seq(Entries)
    BY <1>2, NoFrames, NoEntries, Zenon
  <2>2. cloexec' \subseteq High
    BY <1>1, <1>2
  <2> QED
    BY <1>2, <1>5, <2>1, <2>2 DEF TypeOK, Values, Points, Entries, Frames
<1>8. Own'
  BY <1>1, <1>2, <1>5, <1>6, FdFacts DEF Own
<1> QED BY <1>2, <1>6, <1>7, <1>8 DEF IInv, Redirecting, UtilitiesInheritLow

(***************************************************************************)
(* The theorems.                                                           *)
(***************************************************************************)

\* No step of Next, and no stuttering step, breaks the invariant.
LEMMA StepIInv == IInv /\ [Next]_vars => IInv'
<1> SUFFICES ASSUME IInv, [Next]_vars PROVE IInv'
  OBVIOUS
<1>1. CASE BeginCommand
  <2>1. ~Ended /\ pc = "list"
    BY <1>1 DEF BeginCommand, Ended, Ends
  <2> QED BY <1>1, <2>1, PushFrame DEF BeginCommand, IInv, TypeOK
<1>2. CASE PerformRedirection
  BY <1>2, Performed
<1>3. CASE RedirectionFails
  BY <1>3, Control DEF RedirectionFails, Ended, Ends, Points, IInv, Redirecting
<1>4. CASE HereDocumentFails
  BY <1>4, Control DEF HereDocumentFails, Ended, Ends, Points
<1>5. CASE Redirected
  BY <1>5, Control DEF Redirected, Ended, Ends, Points
<1>6. CASE EndCommand
  BY <1>6, Control DEF EndCommand, Ended, Ends, Points
<1>7. CASE PopRedirection
  BY <1>7, Popped
<1>8. CASE Undone
  BY <1>8, Left
<1>9. CASE ExecBuiltin
  BY <1>9, Control DEF ExecBuiltin, Ended, Ends, Points
<1>10. CASE ExecRedirection
  <2>1. PICK fd \in Low, source \in Obtained : table' = Installed(fd, source)
    BY <1>10 DEF ExecRedirection, Namable
  <2>2. table' \in [Fds -> Values] /\ \A d \in High : table'[d] = table[d]
    BY <2>1, InstalledFacts DEF IInv
  <2> QED BY <1>10, <2>2, Untouched DEF ExecRedirection, own, Ended, Ends
<1>11. CASE ExecEnds
  BY <1>11, Control DEF ExecEnds, Ended, Ends, Points
<1>12. CASE Fork
  <2>1. PICK pipes \in SUBSET {0, 1}, file \in Files :
          table' = [d \in Fds |-> IF d \in pipes THEN file ELSE table[d]]
    BY <1>12 DEF Fork
  <2>2. table' \in [Fds -> Values] /\ \A d \in High : table'[d] = table[d]
    BY <2>1, FdFacts DEF IInv, TypeOK, Values
  <2> QED BY <1>12, <2>2, Untouched DEF Fork, Ended, Ends
<1>13. CASE ForkUtility
  <2>1. frames' = Append(<<>>, [count |-> 0, start |-> Len(savedFds)])
    BY <1>13 DEF ForkUtility
  <2>2. ~Ended /\ pc = "list"
    BY <1>13 DEF ForkUtility, Ended, Ends
  <2> QED BY <1>13, <2>1, <2>2, PushFrame DEF ForkUtility
<1>14. CASE Execv
  BY <1>14, Executed
<1>15. CASE ExecuteScript
  BY <1>15, ScriptExecuted
<1>16. CASE Exit
  BY <1>16, Control DEF Exit, Ended, Ends, Points
<1>17. CASE UNCHANGED vars
  <2>1. UNCHANGED << table, cloexec, savedFds, inputFd, frames, utility, pc >>
    BY <1>17 DEF vars
  <2>2. TypeOK'
    BY <2>1 DEF IInv, TypeOK
  <2>3. ~Ended => Own'
    BY <2>1, OwnUntouched DEF IInv
  <2>4. ~Ended => Balance'
    BY <2>1 DEF IInv, Balance
  <2>5. Redirecting' /\ UtilitiesInheritLow'
    BY <2>1 DEF IInv, Redirecting, UtilitiesInheritLow, Free
  <2> QED BY <2>1, <2>2, <2>3, <2>4, <2>5 DEF IInv, Ended
<1> QED
  BY <1>1, <1>2, <1>3, <1>4, <1>5, <1>6, <1>7, <1>8, <1>9, <1>10, <1>11,
     <1>12, <1>13, <1>14, <1>15, <1>16, <1>17 DEF Next, Terminated

\* The invariant holds always.
LEMMA Invariant == Spec => []IInv
<1>1. Init => IInv
  BY InitIInv
<1>2. IInv /\ [Next]_vars => IInv'
  BY StepIInv
<1> QED BY <1>1, <1>2, PTL DEF Spec

\* Redirections never name nor save a descriptor beyond those they may.
THEOREM RedirectionTypeCorrect == Spec => []TypeOK
<1>1. IInv => TypeOK
  BY DEF IInv
<1> QED BY <1>1, Invariant, PTL

\* performRedirection, popRedirection and executeScript leak no descriptor of
\* the shell, and close none that is needed.
THEOREM RedirectionLeaksNothing == Spec => []NothingLeaks
<1>1. IInv => NothingLeaks
  BY IInvImplies
<1> QED BY <1>1, Invariant, PTL

\* Whatever is redirected, the shell goes on reading the script.
THEOREM RedirectionKeepsInput == Spec => []InputIntact
<1>1. IInv => InputIntact
  BY IInvImplies
<1> QED BY <1>1, Invariant, PTL

\* execv leaves a utility nothing but the descriptors of the script.
THEOREM RedirectionUtilitiesInheritLow == Spec => []UtilitiesInheritLow
<1>1. IInv => UtilitiesInheritLow
  BY DEF IInv
<1> QED BY <1>1, Invariant, PTL

\* The commands pop what they have pushed, whichever of their redirections
\* fails.
THEOREM RedirectionPopsAreBalanced == Spec => []PopsAreBalanced
<1>1. IInv => PopsAreBalanced
  BY IInvImplies
<1> QED BY <1>1, Invariant, PTL

=============================================================================
