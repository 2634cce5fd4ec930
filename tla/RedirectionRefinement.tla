----------------------- MODULE RedirectionRefinement -----------------------
(***************************************************************************)
(* The list savedFds implements scopes, for any number of descriptors,     *)
(* files, commands and redirections.                                       *)
(***************************************************************************)
EXTENDS RedirectionProofs, WellFoundedInduction

(***************************************************************************)
(* The scope of a command, given the list and the descriptors.             *)
(***************************************************************************)
Naming(f, s, fd) == {j \in EntriesOf(f) : s[j].fd = fd}
Least(S) == CHOOSE i \in Lowest(S) : TRUE
First(f, s, fd) == Least(Naming(f, s, fd))
Restored(e, t) == IF e.saved = -1 THEN Closed ELSE t[e.saved]
Names(f, s) == {s[i].fd : i \in EntriesOf(f)} \ {-1}
Scope(f, s, t) == [fd \in Names(f, s) |-> Restored(s[First(f, s, fd)], t)]

\* The scope of Redirection is this one.
LEMMA ScopeIs ==
  /\ \A f : ScopeOf(f) = Scope(f, savedFds, table)
  /\ \A f : DOMAIN ScopeOf(f) = Names(f, savedFds)
BY DEF ScopeOf, FirstOf, Scope, First, Least, Restored, Names, Naming

\* A set of numbers that has an element has a least one.
LEMMA LeastOf ==
  ASSUME NEW R, IsWellFoundedOn(R, Nat), \A x, y \in Nat : y < x => << y, x >> \in R,
         NEW S, S \subseteq Nat, S # {}
  PROVE  Lowest(S) # {}
<1>1. PICK x \in S : \A y \in S : << y, x >> \notin R
  BY WFMin
<1>2. ASSUME NEW y \in S PROVE x <= y
  <2>1. x \in Nat /\ y \in Nat
    OBVIOUS
  <2>2. ~ (y < x)
    BY <1>1, <2>1, Zenon
  <2> QED BY <2>1, <2>2
<1> QED BY <1>2 DEF Lowest

LEMMA LowestExists ==
  ASSUME NEW S, S \subseteq Nat, S # {}
  PROVE  Lowest(S) # {}
<1> DEFINE R == OpToRel(<, Nat)
<1>1. IsWellFoundedOn(R, Nat)
  BY NatLessThanWellFounded
<1>2. \A x, y \in Nat : y < x => << y, x >> \in R
  BY DEF OpToRel
<1> HIDE DEF R
<1> QED BY <1>1, <1>2, LeastOf

\* The first entry of a name.
LEMMA FirstIs ==
  ASSUME NEW f \in Frames, NEW s, NEW fd \in Names(f, s)
  PROVE  /\ First(f, s, fd) \in EntriesOf(f)
         /\ s[First(f, s, fd)].fd = fd
         /\ \A j \in EntriesOf(f) : s[j].fd = fd => First(f, s, fd) <= j
<1> DEFINE S == Naming(f, s, fd)
<1>1. S \subseteq Nat /\ S # {}
  <2>1. f.start \in Nat /\ f.count \in Nat
    BY DEF Frames
  <2>2. EntriesOf(f) \subseteq Nat
    BY <2>1 DEF EntriesOf
  <2> QED BY <2>2 DEF Names, Naming
<1>2. Lowest(S) # {}
  BY <1>1, LowestExists
<1>3. First(f, s, fd) \in Lowest(S)
  BY <1>2 DEF First, Least
<1> QED BY <1>3 DEF Lowest, Naming

LEMMA FirstIsLeast ==
  ASSUME NEW f \in Frames, NEW s, NEW fd \in Names(f, s),
         NEW i \in EntriesOf(f), s[i].fd = fd,
         \A j \in EntriesOf(f) : s[j].fd = fd => i <= j
  PROVE  First(f, s, fd) = i
<1>1. f.start \in Nat /\ f.count \in Nat
  BY DEF Frames
<1>2. EntriesOf(f) \subseteq Nat
  BY <1>1 DEF EntriesOf
<1>3. First(f, s, fd) <= i /\ i <= First(f, s, fd) /\ First(f, s, fd) \in Nat
  BY <1>2, FirstIs
<1> QED BY <1>2, <1>3

\* The list s becomes r and the descriptors t become u: the entries of f and
\* what they restore are the same; the scope of g is that of f and the entry e.
Kept(f, s, t, r, u) ==
  \A i \in EntriesOf(f) : r[i] = s[i] /\ Restored(s[i], u) = Restored(s[i], t)
Extended(f, s, t, g, r, u, e) ==
  /\ Names(g, r) = Names(f, s) \cup ({e.fd} \ {-1})
  /\ \A fd \in Names(g, r) :
       Scope(g, r, u)[fd] = IF fd \in Names(f, s) THEN Scope(f, s, t)[fd]
                            ELSE Restored(e, u)

\* A scope depends on the entries of its command and on their copies only.
LEMMA ScopeSame ==
  ASSUME NEW f \in Frames, NEW s, NEW r, NEW t, NEW u,
         Kept(f, s, t, r, u)
  PROVE  Scope(f, r, u) = Scope(f, s, t)
<1>1. Names(f, r) = Names(f, s)
  BY DEF Names, Kept
<1>2. \A fd : Naming(f, r, fd) = Naming(f, s, fd)
  BY DEF Naming, Kept
<1>3. \A fd : First(f, r, fd) = First(f, s, fd)
  BY <1>2, Zenon DEF First
<1>4. ASSUME NEW fd \in Names(f, s)
      PROVE  Restored(r[First(f, r, fd)], u) = Restored(s[First(f, s, fd)], t)
  <2>1. First(f, s, fd) \in EntriesOf(f)
    BY FirstIs
  <2> QED BY <1>3, <2>1, Zenon DEF Kept
<1> QED BY <1>1, <1>4, Zenon DEF Scope

\* A command without redirections.
LEMMA ScopeEmpty ==
  ASSUME NEW f \in Frames, f.count = 0, NEW s, NEW t
  PROVE  Names(f, s) = {} /\ Scope(f, s, t) = [fd \in {} |-> fd]
<1>1. EntriesOf(f) = {}
  BY DEF EntriesOf, Frames
<1>2. Names(f, s) = {}
  BY <1>1 DEF Names
<1> QED BY <1>2 DEF Scope

\* What another entry adds to a scope: nothing, if its name is -1 or there is
\* an entry of the name already.
LEMMA ScopeExtended ==
  ASSUME NEW f \in Frames, NEW g \in Frames,
         g.start = f.start, g.count = f.count + 1,
         NEW s, NEW r, NEW t, NEW u,
         Kept(f, s, t, r, u), NEW e, e = r[f.start + f.count + 1]
  PROVE  Extended(f, s, t, g, r, u, e)
<1> DEFINE last == f.start + f.count + 1
<1>1. /\ f.start \in Nat /\ f.count \in Nat /\ last \in Nat
      /\ EntriesOf(g) = EntriesOf(f) \cup {last}
      /\ \A i \in EntriesOf(f) : i \in Nat /\ i < last
      /\ r[last] = e
  BY DEF Frames, EntriesOf
<1>2. \A i \in EntriesOf(f) : r[i] = s[i] /\ Restored(s[i], u) = Restored(s[i], t)
  BY DEF Kept
<1> HIDE DEF last
<1>3. Names(g, r) = Names(f, s) \cup ({e.fd} \ {-1})
  BY <1>1, <1>2 DEF Names
<1>4. ASSUME NEW fd \in Names(f, s)
      PROVE  Scope(g, r, u)[fd] = Scope(f, s, t)[fd]
  <2> DEFINE i == First(f, s, fd)
  <2>1. /\ i \in EntriesOf(f) /\ s[i].fd = fd
        /\ \A j \in EntriesOf(f) : s[j].fd = fd => i <= j
    BY FirstIs
  <2> HIDE DEF i
  <2>2. i \in EntriesOf(g) /\ r[i].fd = fd
    BY <1>1, <1>2, <2>1
  <2>3. \A j \in EntriesOf(g) : r[j].fd = fd => i <= j
    BY <1>1, <1>2, <2>1
  <2>4. First(g, r, fd) = i
    BY <1>3, <2>2, <2>3, FirstIsLeast
  <2>5. Restored(r[i], u) = Restored(s[i], t)
    BY <1>2, <2>1
  <2> QED BY <1>3, <2>4, <2>5 DEF Scope, i
<1>5. ASSUME NEW fd \in Names(g, r), fd \notin Names(f, s)
      PROVE  Scope(g, r, u)[fd] = Restored(e, u)
  <2>1. fd = r[last].fd /\ fd # -1
    BY <1>1, <1>3, <1>5
  <2>2. \A j \in EntriesOf(f) : r[j].fd # fd
    BY <1>5, <1>2, <2>1 DEF Names
  <2>3. /\ last \in EntriesOf(g)
        /\ \A j \in EntriesOf(g) : r[j].fd = fd => last <= j
    BY <1>1, <2>2
  <2>4. First(g, r, fd) = last
    BY <2>1, <2>3, FirstIsLeast
  <2> QED BY <1>1, <2>4 DEF Scope
<1> QED BY <1>3, <1>4, <1>5 DEF Extended

(***************************************************************************)
(* The commands' parts of the list follow each other.                      *)
(***************************************************************************)
Within ==
  /\ \A i, j \in 1..Len(frames) :
       i < j => frames[i].start + frames[i].count <= frames[j].start
  /\ \A i \in 1..Len(frames) :
       frames[i].start + frames[i].count <= Len(savedFds)

RInv == IInv /\ (~Ended => Within)

(***************************************************************************)
(* The scopes as a sequence.                                               *)
(***************************************************************************)
IsFunction(p, n) == p = [i \in 1..n |-> p[i]]

LEMMA FunctionIsSeq ==
  ASSUME NEW n \in Nat, NEW p, IsFunction(p, n), NEW S, \A i \in 1..n : p[i] \in S
  PROVE  p \in Seq(S) /\ Len(p) = n
<1>1. p \in [1..n -> S]
  BY Zenon DEF IsFunction
<1>2. p \in Seq(S)
  BY <1>1, SeqDef
<1>3. DOMAIN p = 1..n /\ DOMAIN p = 1..Len(p) /\ Len(p) \in Nat
  BY <1>1, <1>2, LenProperties
<1> QED BY <1>2, <1>3

LEMMA LenIs ==
  ASSUME NEW n \in Nat, NEW p, IsFunction(p, n)
  PROVE  Len(p) = n
<1> DEFINE S == {p[i] : i \in 1..n}
<1>1. \A i \in 1..n : p[i] \in S
  OBVIOUS
<1> HIDE DEF S
<1> QED BY <1>1, FunctionIsSeq

LEMMA AppendIs ==
  ASSUME NEW n \in Nat, NEW p, IsFunction(p, n), NEW q, IsFunction(q, n + 1),
         \A i \in 1..n : q[i] = p[i]
  PROVE  q = Append(p, q[n + 1])
<1> DEFINE S == {q[i] : i \in 1..n + 1}
<1>1. n + 1 \in Nat /\ n + 1 \in 1..n + 1 /\ \A i \in 1..n : i \in 1..n + 1
  OBVIOUS
<1>2. /\ \A i \in 1..n + 1 : q[i] \in S
      /\ \A i \in 1..n : p[i] \in S
  BY <1>1
<1> HIDE DEF S
<1>3. /\ p \in Seq(S) /\ Len(p) = n
      /\ q \in Seq(S) /\ Len(q) = n + 1
      /\ q[n + 1] \in S
  BY <1>1, <1>2, FunctionIsSeq
<1>4. /\ Append(p, q[n + 1]) \in Seq(S)
      /\ Len(Append(p, q[n + 1])) = n + 1
      /\ \A i \in 1..n : Append(p, q[n + 1])[i] = p[i]
      /\ Append(p, q[n + 1])[n + 1] = q[n + 1]
  BY <1>3, AppendProperties
<1>5. \A i \in 1..n + 1 : Append(p, q[n + 1])[i] = q[i]
  <2> SUFFICES ASSUME NEW i \in 1..n + 1 PROVE Append(p, q[n + 1])[i] = q[i]
    OBVIOUS
  <2>1. i \in 1..n \/ i = n + 1
    OBVIOUS
  <2> QED BY <1>4, <2>1
<1> QED BY <1>3, <1>4, <1>5, SeqEqual

LEMMA FrontIs ==
  ASSUME NEW n \in Nat, NEW p, IsFunction(p, n + 1), NEW q, IsFunction(q, n),
         \A i \in 1..n : q[i] = p[i]
  PROVE  q = SubSeq(p, 1, Len(p) - 1)
<1> DEFINE S == {p[i] : i \in 1..n + 1}
<1>1. n + 1 \in Nat /\ \A i \in 1..n : i \in 1..n + 1
  OBVIOUS
<1>2. /\ \A i \in 1..n + 1 : p[i] \in S
      /\ \A i \in 1..n : q[i] \in S
  BY <1>1
<1> HIDE DEF S
<1>3. /\ p \in Seq(S) /\ Len(p) = n + 1
      /\ q \in Seq(S) /\ Len(q) = n
  BY <1>1, <1>2, FunctionIsSeq
<1>4. p # <<>>
  BY <1>3
<1>5. /\ AllButLast(p) \in Seq(S) /\ Len(AllButLast(p)) = n
      /\ \A i \in 1..n : AllButLast(p)[i] = p[i]
  <2>1. Len(p) - 1 = n
    BY <1>3
  <2> QED BY <1>3, <1>4, <2>1, FrontOfSeq
<1>6. q = AllButLast(p)
  BY <1>3, <1>5, SeqEqual
<1> QED BY <1>6 DEF AllButLast

(***************************************************************************)
(* Within is invariant.                                                    *)
(***************************************************************************)
LEMMA TypesOf ==
  ASSUME IInv
  PROVE  /\ frames \in Seq(Frames) /\ Len(frames) \in Nat
         /\ savedFds \in Seq(Entries) /\ Len(savedFds) \in Nat
         /\ \A i \in 1..Len(frames) :
              /\ frames[i] \in Frames
              /\ frames[i].start \in Nat /\ frames[i].count \in Nat
         /\ \A i \in 1..Len(savedFds) : savedFds[i] \in Entries
<1>1. frames \in Seq(Frames) /\ savedFds \in Seq(Entries)
  BY DEF IInv, TypeOK, Frames, Entries
<1>2. \A i \in 1..Len(frames) : frames[i] \in Frames
  BY <1>1
<1>3. \A f \in Frames : f.start \in Nat /\ f.count \in Nat
  BY DEF Frames
<1> QED BY <1>1, <1>2, <1>3

\* A command begins, or the child that becomes a utility does.
LEMMA WithinPush ==
  ASSUME IInv, Within, UNCHANGED savedFds, NEW outer \in {frames, <<>>},
         frames' = Append(outer, [count |-> 0, start |-> Len(savedFds)])
  PROVE  Within'
<1> DEFINE frame == [count |-> 0, start |-> Len(savedFds)]
<1>1. frame.start = Len(savedFds) /\ frame.count = 0 /\ Len(savedFds) \in Nat
  BY TypesOf
<1>2. outer \in Seq(Frames) /\ frame \in Frames
  <2>1. outer \in Seq(Frames)
    BY TypesOf, NoFrames, Zenon
  <2>2. frame \in Frames
    BY <1>1 DEF Frames
  <2> QED BY <2>1, <2>2
<1>3. /\ Len(frames') = Len(outer) + 1 /\ Len(outer) \in Nat
      /\ frames'[Len(outer) + 1] = frame
      /\ \A i \in 1..Len(outer) : frames'[i] = outer[i]
  BY <1>2
<1>4. \A i \in 1..Len(outer) :
        /\ outer[i].start \in Nat /\ outer[i].count \in Nat
        /\ outer[i].start + outer[i].count <= Len(savedFds)
        /\ \A j \in 1..Len(outer) :
             i < j => outer[i].start + outer[i].count <= outer[j].start
  <2>1. CASE outer = frames
    BY <2>1, TypesOf DEF Within
  <2>2. CASE outer = <<>>
    BY <2>2
  <2> QED BY <2>1, <2>2
<1> HIDE DEF frame
<1>5. ASSUME NEW i \in 1..Len(frames')
      PROVE  frames'[i].start + frames'[i].count <= Len(savedFds')
  <2>1. CASE i = Len(outer) + 1
    BY <1>1, <1>3, <2>1
  <2>2. CASE i \in 1..Len(outer)
    BY <1>3, <1>4, <2>2
  <2> QED BY <1>3, <2>1, <2>2
<1>6. ASSUME NEW i \in 1..Len(frames'), NEW j \in 1..Len(frames'), i < j
      PROVE  frames'[i].start + frames'[i].count <= frames'[j].start
  <2>1. i \in 1..Len(outer)
    BY <1>3, <1>6
  <2>2. CASE j = Len(outer) + 1
    BY <1>1, <1>3, <1>4, <2>1, <2>2
  <2>3. CASE j \in 1..Len(outer)
    BY <1>3, <1>4, <1>6, <2>1, <2>3
  <2> QED BY <1>3, <2>2, <2>3
<1> QED BY <1>5, <1>6 DEF Within

\* A redirection is done or undone.
LEMMA WithinCount ==
  ASSUME IInv, IInv', ~Ended', Within, frames # <<>>, NEW count,
         frames' = [frames EXCEPT ![Len(frames)].count = count]
  PROVE  Within'
<1>1. /\ Len(frames) \in Nat /\ Len(frames') = Len(frames) /\ Len(frames) > 0
      /\ \A i \in 1..Len(frames) : frames'[i].start = frames[i].start
      /\ \A i \in 1..Len(frames) : i # Len(frames) => frames'[i] = frames[i]
  BY TypesOf DEF Frames
<1>2. frames'[Len(frames)].start + frames'[Len(frames)].count = Len(savedFds')
  <2>1. Balance'
    BY DEF IInv
  <2>2. Len(frames) \in 1..Len(frames') /\ Len(frames) = Len(frames')
    BY <1>1
  <2> QED BY <2>1, <2>2 DEF Balance
<1>3. /\ \A i \in 1..Len(frames) :
           frames'[i].start \in Nat /\ frames'[i].count \in Nat
      /\ Len(savedFds') \in Nat
  <2>1. /\ \A i \in 1..Len(frames') :
             frames'[i].start \in Nat /\ frames'[i].count \in Nat
        /\ Len(savedFds') \in Nat
    <3>1. frames' \in Seq(Frames) /\ savedFds' \in Seq(Entries)
      BY DEF IInv, TypeOK, Frames, Entries
    <3>2. \A i \in 1..Len(frames') : frames'[i] \in Frames
      BY <3>1
    <3>3. \A f \in Frames : f.start \in Nat /\ f.count \in Nat
      BY DEF Frames
    <3>4. Len(savedFds') \in Nat
      BY <3>1
    <3> QED BY <3>2, <3>3, <3>4, Zenon
  <2> QED BY <1>1, <2>1
<1>4. ASSUME NEW i \in 1..Len(frames'), NEW j \in 1..Len(frames'), i < j
      PROVE  frames'[i].start + frames'[i].count <= frames'[j].start
  <2>1. i \in 1..Len(frames) /\ j \in 1..Len(frames) /\ i # Len(frames)
    BY <1>1, <1>4
  <2> QED BY <1>1, <1>4, <2>1 DEF Within
<1>5. ASSUME NEW i \in 1..Len(frames')
      PROVE  frames'[i].start + frames'[i].count <= Len(savedFds')
  <2>1. CASE i = Len(frames)
    BY <1>2, <1>3, <2>1
  <2>2. CASE i < Len(frames)
    <3>1. Len(frames) \in 1..Len(frames') /\ i \in 1..Len(frames)
      BY <1>1
    <3>2. frames'[i].start + frames'[i].count <= frames'[Len(frames)].start
      BY <1>4, <2>2, <3>1
    <3> QED BY <1>2, <1>3, <1>1, <3>1, <3>2
  <2> QED BY <1>1, <2>1, <2>2
<1> QED BY <1>4, <1>5 DEF Within

\* A command ends.
LEMMA WithinFront ==
  ASSUME IInv, Within, UNCHANGED savedFds, frames # <<>>,
         frames' = AllButLast(frames)
  PROVE  Within'
<1>1. /\ Len(frames') = Len(frames) - 1 /\ Len(frames) \in Nat
      /\ \A i \in 1..Len(frames) - 1 : frames'[i] = frames[i]
  BY TypesOf, FrontOfSeq
<1>2. \A i \in 1..Len(frames') : i \in 1..Len(frames) /\ frames'[i] = frames[i]
  BY <1>1
<1> QED BY <1>2 DEF Within

\* The invariant of the refinement.
LEMMA StepRInv == RInv /\ [Next]_vars => RInv'
<1> SUFFICES ASSUME RInv, [Next]_vars PROVE RInv'
  OBVIOUS
<1>1. IInv /\ IInv'
  BY StepIInv DEF RInv
<1> SUFFICES ASSUME ~Ended' PROVE Within'
  BY <1>1 DEF RInv
<1>2. CASE Ended
  BY <1>2 DEF Next, Terminated, vars, Ended, Ends,
       BeginCommand, PerformRedirection, RedirectionFails, HereDocumentFails,
       Redirected, EndCommand, PopRedirection, Undone, ExecBuiltin,
       ExecRedirection, ExecEnds, Fork, ForkUtility, Execv, ExecuteScript, Exit
<1>3. CASE ~Ended
  <2>1. Within
    BY <1>3 DEF RInv
  <2>2. CASE UNCHANGED << frames, savedFds >>
    BY <2>1, <2>2 DEF Within
  <2>3. CASE frames' = <<>>
    BY <2>3 DEF Within
  <2>4. CASE BeginCommand
    BY <1>1, <2>1, <2>4, WithinPush DEF BeginCommand
  <2>5. CASE ForkUtility
    <3>1. frames' = Append(<<>>, [count |-> 0, start |-> Len(savedFds)])
      BY <2>5 DEF ForkUtility
    <3> QED BY <1>1, <2>1, <2>5, <3>1, WithinPush DEF ForkUtility
  <2>6. CASE PerformRedirection
    <3>1. frames # <<>>
      BY <1>1, <2>6 DEF PerformRedirection, IInv, Redirecting
    <3>2. CASE frames' = [frames EXCEPT ![Len(frames)].count =
                            frames[Len(frames)].count + 1]
      BY <1>1, <2>1, <3>1, <3>2, WithinCount
    <3>3. CASE UNCHANGED << frames, savedFds >>
      BY <2>2, <3>3
    <3> QED
      BY <2>6, <3>2, <3>3
         DEF PerformRedirection, RedirectUnsaved, RedirectSaved, SaveFails, Push
  <2>7. CASE PopRedirection
    <3>1. frames # <<>>
      BY <1>1, <2>7 DEF PopRedirection, IInv, Redirecting
    <3>2. frames' = [frames EXCEPT ![Len(frames)].count =
                       frames[Len(frames)].count - 1]
      BY <2>7 DEF PopRedirection
    <3> QED BY <1>1, <2>1, <3>1, <3>2, WithinCount
  <2>8. CASE Undone
    <3>1. frames # <<>>
      BY <1>1, <2>8 DEF Undone, IInv, Redirecting
    <3> QED BY <1>1, <2>1, <2>8, <3>1, WithinFront DEF Undone
  <2> QED
    BY <2>2, <2>3, <2>4, <2>5, <2>6, <2>7, <2>8
       DEF Next, Terminated, vars, own, RedirectionFails, HereDocumentFails,
           Redirected, EndCommand, ExecBuiltin, ExecRedirection, ExecEnds,
           Fork, Execv, ExecuteScript, Exit
<1> QED BY <1>2, <1>3

(***************************************************************************)
(* The descriptors and the scopes of RedirectionScopes, before a step and  *)
(* after it.                                                               *)
(***************************************************************************)
LEMMA ScopesNow ==
  /\ IsFunction(OpenScopes, Len(OpenFrames))
  /\ \A i \in 1..Len(OpenFrames) :
       OpenScopes[i] = Scope(frames[i], savedFds, table)
<1>1. OpenScopes = [i \in 1..Len(OpenFrames) |-> Scope(frames[i], savedFds, table)]
  BY ScopeIs DEF OpenScopes
<1> QED BY <1>1, Zenon DEF IsFunction

LEMMA ScopesNext ==
  /\ IsFunction(OpenScopes', Len(OpenFrames'))
  /\ \A i \in 1..Len(OpenFrames') :
       OpenScopes'[i] = Scope(frames'[i], savedFds', table')
<1>1. OpenScopes' =
        [i \in 1..Len(OpenFrames') |-> Scope(frames'[i], savedFds', table')]
  BY DEF OpenScopes, ScopeOf, FirstOf, Scope, First, Least, Restored, Names, Naming
<1> QED BY <1>1, Zenon DEF IsFunction

LEMMA OutsideNow ==
  Outside =
    [fd \in Low |-> IF Leaving /\ fd \in Names(LastFrame, savedFds)
                      THEN Scope(LastFrame, savedFds, table)[fd] ELSE table[fd]]
BY ScopeIs DEF Outside

LEMMA OutsideNext ==
  Outside' =
    [fd \in Low |-> IF Leaving' /\ fd \in Names(LastFrame', savedFds')
                      THEN Scope(LastFrame', savedFds', table')[fd]
                    ELSE table'[fd]]
BY DEF Outside, ScopeOf, FirstOf, Scope, First, Least, Restored, Names, Naming

LEMMA NoScopes ==
  ASSUME NEW p, IsFunction(p, 0)
  PROVE  p = <<>>
<1>1. p \in Seq({}) /\ Len(p) = 0
  BY FunctionIsSeq
<1> QED BY <1>1, EmptySeq

\* Init.
LEMMA InitScopes == Init => Scopes!Init
<1> SUFFICES ASSUME Init PROVE Scopes!Init
  OBVIOUS
<1>1. IInv /\ pc = "list" /\ frames = <<>>
  BY InitIInv DEF Init
<1>2. OpenFrames = <<>> /\ ~Leaving
  BY <1>1 DEF OpenFrames, Leaving, Ended, Ends
<1>3. OpenScopes = <<>>
  BY <1>2, ScopesNow, NoScopes
<1>4. Outside \in [Low -> Values]
  BY <1>1, <1>2, OutsideNow, FdFacts DEF IInv, TypeOK, Values
<1> QED BY <1>3, <1>4 DEF Scopes!Init, Values

\* The steps that change neither.
LEMMA Stutters ==
  ASSUME ~Ended, ~Leaving, ~Ended', ~Leaving',
         UNCHANGED << table, savedFds, frames >>
  PROVE  UNCHANGED Scopes!vars
<1>1. OpenScopes' = OpenScopes
  <2>1. OpenFrames' = OpenFrames
    BY DEF OpenFrames
  <2> QED BY <2>1, ScopesNow, ScopesNext DEF IsFunction
<1>2. Outside' = Outside
  BY OutsideNow, OutsideNext
<1> QED BY <1>1, <1>2 DEF Scopes!vars

\* BeginCommand enters a scope.
LEMMA Enters ==
  ASSUME RInv, BeginCommand
  PROVE  Scopes!Enter
<1> DEFINE frame == [count |-> 0, start |-> Len(savedFds)]
<1>1. /\ IInv /\ ~Ended /\ ~Leaving /\ ~Ended' /\ ~Leaving'
      /\ UNCHANGED << table, savedFds >>
  BY DEF RInv, BeginCommand, Ended, Ends, Leaving
<1>2. /\ frames \in Seq(Frames) /\ frame \in Frames /\ frame.count = 0
      /\ frames' = Append(frames, frame)
  BY <1>1, TypesOf DEF BeginCommand, Frames
<1> HIDE DEF frame
<1>3. /\ Len(frames) \in Nat /\ Len(frames') = Len(frames) + 1
      /\ frames'[Len(frames) + 1] = frame
      /\ \A i \in 1..Len(frames) : frames'[i] = frames[i]
  BY <1>2
<1>4. OpenFrames = frames /\ OpenFrames' = frames'
  BY <1>1 DEF OpenFrames
<1>5. \A i \in 1..Len(frames) : OpenScopes'[i] = OpenScopes[i]
  BY <1>1, <1>3, <1>4, ScopesNow, ScopesNext
<1>6. OpenScopes'[Len(frames) + 1] = Scopes!NoRedirections
  <2>1. Len(frames) + 1 \in 1..Len(frames')
    BY <1>3
  <2>2. OpenScopes'[Len(frames) + 1] = Scope(frame, savedFds', table')
    BY <1>3, <1>4, <2>1, ScopesNext
  <2> QED BY <1>2, <2>2, ScopeEmpty, Zenon DEF Scopes!NoRedirections
<1>7. OpenScopes' = Append(OpenScopes, OpenScopes'[Len(frames) + 1])
  BY <1>3, <1>4, <1>5, ScopesNow, ScopesNext, AppendIs
<1>8. Outside' = Outside
  BY <1>1, OutsideNow, OutsideNext
<1> QED BY <1>6, <1>7, <1>8 DEF Scopes!Enter

\* EndCommand and the failures leave the scope.
LEMMA Leaves ==
  ASSUME RInv, ~Ended, ~Leaving, frames # <<>>, pc' = "undoing",
         UNCHANGED << table, savedFds, frames >>
  PROVE  Scopes!Leave
<1>1. IInv /\ ~Ended' /\ Leaving'
  BY DEF RInv, Ended, Ends, Leaving
<1> DEFINE n == Len(frames) - 1
<1>2. n \in Nat /\ Len(frames) = n + 1 /\ Len(AllButLast(frames)) = n
  BY <1>1, TypesOf, FrontOfSeq
<1>3. OpenFrames = frames /\ OpenFrames' = AllButLast(frames)
  BY <1>1 DEF OpenFrames
<1> HIDE DEF n
<1>4. /\ IsFunction(OpenScopes, n + 1) /\ IsFunction(OpenScopes', n)
      /\ \A i \in 1..n : OpenScopes'[i] = OpenScopes[i]
  BY <1>2, <1>3, ScopesNow, ScopesNext
<1>5. OpenScopes' = SubSeq(OpenScopes, 1, Len(OpenScopes) - 1)
  BY <1>2, <1>4, FrontIs
<1>6. Len(OpenScopes) = n + 1
  BY <1>2, <1>4, LenIs
<1>7. OpenScopes[Len(OpenScopes)] = Scope(LastFrame, savedFds, table)
  BY <1>2, <1>3, <1>6, ScopesNow DEF LastFrame
<1>8. OpenScopes # <<>>
  BY <1>2, <1>6
<1>9. DOMAIN OpenScopes[Len(OpenScopes)] = Names(LastFrame, savedFds)
  BY <1>7 DEF Scope
<1>10. Outside' = [fd \in Low |->
                     IF fd \in DOMAIN OpenScopes[Len(OpenScopes)]
                       THEN OpenScopes[Len(OpenScopes)][fd]
                     ELSE Outside[fd]]
  <2>1. LastFrame' = LastFrame
    BY DEF LastFrame
  <2> QED BY <1>1, <1>7, <1>9, <2>1, OutsideNow, OutsideNext
<1> QED BY <1>5, <1>8, <1>10 DEF Scopes!Leave, Scopes!Outer, Scopes!Last

(***************************************************************************)
(* Redirections.                                                           *)
(***************************************************************************)

\* The entries of a command, and where those of the outer ones are.
LEMMA EntriesOfFrame ==
  ASSUME IInv, Within, NEW i \in 1..Len(frames)
  PROVE  \A j \in EntriesOf(frames[i]) :
           /\ j \in 1..Len(savedFds) /\ savedFds[j] \in Entries
           /\ savedFds[j].saved # -1 => savedFds[j].saved \in Saved
           /\ i # Len(frames) => j <= LastFrame.start
<1>1. /\ frames[i].start \in Nat /\ frames[i].count \in Nat
      /\ Len(savedFds) \in Nat /\ Len(frames) \in Nat
      /\ frames[i].start + frames[i].count <= Len(savedFds)
  BY TypesOf DEF Within
<1> SUFFICES ASSUME NEW j \in EntriesOf(frames[i])
             PROVE  /\ j \in 1..Len(savedFds) /\ savedFds[j] \in Entries
                    /\ savedFds[j].saved # -1 => savedFds[j].saved \in Saved
                    /\ i # Len(frames) => j <= LastFrame.start
  OBVIOUS
<1>2. /\ j \in 1..Len(savedFds)
      /\ j \in Nat /\ j <= frames[i].start + frames[i].count
  BY <1>1 DEF EntriesOf
<1>3. savedFds[j] \in Entries
  BY <1>2, TypesOf
<1>4. savedFds[j].saved # -1 => savedFds[j].saved \in Saved
  BY <1>2 DEF Saved
<1>5. ASSUME i # Len(frames) PROVE j <= LastFrame.start
  <2>1. Len(frames) \in 1..Len(frames) /\ i < Len(frames)
    BY <1>1, <1>5
  <2>2. /\ frames[i].start + frames[i].count <= LastFrame.start
        /\ LastFrame.start \in Nat
    BY <2>1, TypesOf DEF Within, LastFrame
  <2> QED BY <1>1, <1>2, <2>2
<1> QED BY <1>2, <1>3, <1>4, <1>5

\* Two scopes that are equal.
LEMMA ScopeEqual ==
  ASSUME NEW f, NEW g, NEW s, NEW r, NEW t, NEW u, Names(g, r) = Names(f, s),
         \A fd \in Names(g, r) : Scope(g, r, u)[fd] = Scope(f, s, t)[fd]
  PROVE  Scope(g, r, u) = Scope(f, s, t)
<1>1. /\ Scope(g, r, u) = [fd \in Names(g, r) |-> Scope(g, r, u)[fd]]
      /\ Scope(f, s, t) = [fd \in Names(f, s) |-> Scope(f, s, t)[fd]]
  BY Zenon DEF Scope
<1> HIDE DEF Scope
<1> QED BY <1>1

\* A push extends the scope of the innermost command.
LEMMA ScopesPushed ==
  ASSUME RInv, ~Ended, ~Leaving, ~Ended', ~Leaving', frames # <<>>,
         NEW e \in Entries, savedFds' = Append(savedFds, e),
         frames' = [frames EXCEPT ![Len(frames)].count = @ + 1],
         \A d \in Saved : table'[d] = table[d]
  PROVE  /\ IsFunction(OpenScopes, Len(frames))
         /\ IsFunction(OpenScopes', Len(frames))
         /\ \A i \in 1..Len(frames) - 1 : OpenScopes'[i] = OpenScopes[i]
         /\ OpenScopes[Len(frames)] = Scope(LastFrame, savedFds, table)
         /\ OpenScopes'[Len(frames)] = Scope(LastFrame', savedFds', table')
         /\ Extended(LastFrame, savedFds, table, LastFrame', savedFds', table', e)
<1>1. IInv /\ Within /\ Len(frames) \in Nat /\ Len(frames) \in 1..Len(frames)
      /\ LastFrame \in Frames /\ LastFrame.start \in Nat /\ LastFrame.count \in Nat
      /\ savedFds \in Seq(Entries) /\ Len(savedFds) \in Nat
  BY TypesOf DEF RInv, LastFrame
<1>2. LastFrame.start + LastFrame.count = Len(savedFds)
  BY <1>1 DEF IInv, Balance, LastFrame
<1>3. /\ Len(frames') = Len(frames)
      /\ LastFrame' = [LastFrame EXCEPT !.count = @ + 1]
      /\ \A i \in 1..Len(frames) - 1 : frames'[i] = frames[i]
  <2>1. Len(frames') = Len(frames)
    BY <1>1, TypesOf
  <2>2. frames'[Len(frames)] = [LastFrame EXCEPT !.count = @ + 1]
    BY <1>1, TypesOf DEF LastFrame
  <2>3. \A i \in 1..Len(frames) - 1 : frames'[i] = frames[i]
    BY <1>1, TypesOf
  <2> QED BY <2>1, <2>2, <2>3 DEF LastFrame
<1>4. /\ LastFrame' \in Frames /\ LastFrame'.start = LastFrame.start
      /\ LastFrame'.count = LastFrame.count + 1
  BY <1>1, <1>3 DEF Frames
<1>5. /\ \A j \in 1..Len(savedFds) : savedFds'[j] = savedFds[j]
      /\ savedFds'[Len(savedFds) + 1] = e
  BY <1>1
<1>6. ASSUME NEW i \in 1..Len(frames), NEW j \in EntriesOf(frames[i])
      PROVE  /\ savedFds'[j] = savedFds[j]
             /\ Restored(savedFds[j], table') = Restored(savedFds[j], table)
  BY <1>1, <1>5, EntriesOfFrame DEF Restored
<1>7. OpenFrames = frames /\ OpenFrames' = frames'
  BY DEF OpenFrames
<1>8. /\ IsFunction(OpenScopes, Len(frames)) /\ IsFunction(OpenScopes', Len(frames))
      /\ OpenScopes[Len(frames)] = Scope(LastFrame, savedFds, table)
      /\ OpenScopes'[Len(frames)] = Scope(LastFrame', savedFds', table')
  BY <1>1, <1>3, <1>7, ScopesNow, ScopesNext DEF LastFrame
<1>9. ASSUME NEW i \in 1..Len(frames) - 1
      PROVE  OpenScopes'[i] = OpenScopes[i]
  <2>1. i \in 1..Len(frames) /\ frames[i] \in Frames /\ frames'[i] = frames[i]
    BY <1>1, <1>3, TypesOf
  <2>2. Kept(frames[i], savedFds, table, savedFds', table')
    BY <1>6, <2>1 DEF Kept
  <2>3. Scope(frames[i], savedFds', table') = Scope(frames[i], savedFds, table)
    BY <2>1, <2>2, ScopeSame
  <2> QED BY <1>3, <1>7, <2>1, <2>3, ScopesNow, ScopesNext
<1>10. Extended(LastFrame, savedFds, table, LastFrame', savedFds', table', e)
  <2>1. Kept(LastFrame, savedFds, table, savedFds', table')
    BY <1>1, <1>6 DEF LastFrame, Kept
  <2>2. e = savedFds'[LastFrame.start + LastFrame.count + 1]
    BY <1>2, <1>5
  <2> QED BY <1>1, <1>4, <2>1, <2>2, ScopeExtended, Zenon
<1> QED BY <1>8, <1>9, <1>10

\* A redirection is one of the scope, and its entry says what to restore.
LEMMA RedirectsInScope ==
  ASSUME RInv, ~Ended, ~Leaving, ~Ended', ~Leaving', frames # <<>>,
         NEW e \in Entries, savedFds' = Append(savedFds, e),
         frames' = [frames EXCEPT ![Len(frames)].count = @ + 1],
         \A d \in Saved : table'[d] = table[d],
         e.fd \in Low, Restored(e, table') = table[e.fd], NEW value \in Values,
         \A d \in Low : table'[d] = IF d = e.fd THEN value ELSE table[d]
  PROVE  Scopes!Redirect
<1> DEFINE n == Len(frames)
           scope == OpenScopes[n]
<1>1. /\ IsFunction(OpenScopes, n) /\ IsFunction(OpenScopes', n)
      /\ \A i \in 1..n - 1 : OpenScopes'[i] = OpenScopes[i]
      /\ scope = Scope(LastFrame, savedFds, table)
      /\ OpenScopes'[n] = Scope(LastFrame', savedFds', table')
      /\ Extended(LastFrame, savedFds, table, LastFrame', savedFds', table', e)
  BY ScopesPushed
<1>2. n \in Nat \ {0} /\ n \in 1..n
  BY TypesOf DEF RInv
<1> HIDE DEF n
<1>3. Len(OpenScopes) = n /\ OpenScopes # <<>>
  BY <1>1, <1>2, LenIs
<1>4. /\ Outside = [d \in Low |-> table[d]]
      /\ Outside' = [Outside EXCEPT ![e.fd] = value]
  BY OutsideNow, OutsideNext
<1>5. OpenScopes'[n] = Scopes!Naming(scope, e.fd)
  <2>1. /\ DOMAIN scope = Names(LastFrame, savedFds)
        /\ DOMAIN OpenScopes'[n] = Names(LastFrame', savedFds')
        /\ OpenScopes'[n] =
             [d \in Names(LastFrame', savedFds') |-> OpenScopes'[n][d]]
    BY <1>1, Zenon DEF Scope
  <2>2. Names(LastFrame', savedFds') = Names(LastFrame, savedFds) \cup {e.fd}
    <3>1. {e.fd} \ {-1} = {e.fd}
      BY FdFacts
    <3> QED BY <1>1, <3>1 DEF Extended
  <2>3. \A d \in Names(LastFrame', savedFds') :
          OpenScopes'[n][d] = IF d \in Names(LastFrame, savedFds) THEN scope[d]
                              ELSE Restored(e, table')
    BY <1>1, Zenon DEF Extended
  <2>4. Restored(e, table') = Outside[e.fd]
    BY <1>4
  <2> HIDE DEF scope
  <2> QED BY <2>1, <2>2, <2>3, <2>4, ZenonT(40) DEF Scopes!Naming
<1>6. OpenScopes' = [OpenScopes EXCEPT ![n] = Scopes!Naming(scope, e.fd)]
  <2>1. \A i \in 1..n : i # n => i \in 1..n - 1
    BY <1>2
  <2> HIDE DEF scope
  <2> QED BY <1>1, <1>5, <2>1 DEF IsFunction
<1> QED
  BY <1>3, <1>4, <1>6 DEF Scopes!Redirect, Scopes!Last, Values

\* A descriptor that is duplicated to itself.
LEMMA RedirectsToItself ==
  ASSUME RInv, ~Ended, ~Leaving, ~Ended', ~Leaving', frames # <<>>,
         NEW e \in Entries, savedFds' = Append(savedFds, e),
         frames' = [frames EXCEPT ![Len(frames)].count = @ + 1],
         e.fd = -1, \A d \in Fds : table'[d] = table[d]
  PROVE  UNCHANGED Scopes!vars
<1> DEFINE n == Len(frames)
<1>1. \A d \in Saved : table'[d] = table[d]
  <2>1. Saved \subseteq Fds
    BY FdFacts DEF RInv, IInv, Own
  <2> QED BY <2>1
<1>2. /\ IsFunction(OpenScopes, n) /\ IsFunction(OpenScopes', n)
      /\ \A i \in 1..n - 1 : OpenScopes'[i] = OpenScopes[i]
      /\ OpenScopes[n] = Scope(LastFrame, savedFds, table)
      /\ OpenScopes'[n] = Scope(LastFrame', savedFds', table')
      /\ Extended(LastFrame, savedFds, table, LastFrame', savedFds', table', e)
  BY <1>1, ScopesPushed
<1>3. Scope(LastFrame', savedFds', table') = Scope(LastFrame, savedFds, table)
  <2>1. Names(LastFrame', savedFds') = Names(LastFrame, savedFds)
    BY <1>2 DEF Extended
  <2>2. \A fd \in Names(LastFrame', savedFds') :
          Scope(LastFrame', savedFds', table')[fd] =
            Scope(LastFrame, savedFds, table)[fd]
    BY <1>2, <2>1, Zenon DEF Extended
  <2> QED BY <2>1, <2>2, ScopeEqual
<1>4. n \in Nat
  BY TypesOf DEF RInv
<1>5. OpenScopes' = OpenScopes
  <2>1. \A i \in 1..n : i \in 1..n - 1 \/ i = n
    BY <1>4
  <2>2. \A i \in 1..n : OpenScopes'[i] = OpenScopes[i]
    BY <1>2, <1>3, <2>1, Zenon
  <2> HIDE DEF n
  <2> QED BY <1>2, <2>2 DEF IsFunction
<1>6. Outside' = Outside
  BY FdFacts, OutsideNow, OutsideNext
<1> QED BY <1>5, <1>6 DEF Scopes!vars

\* What a redirection installs and leaves alone.
LEMMA InstalledOthers ==
  ASSUME TypeOK, NEW fd \in Low, NEW source \in Obtained
  PROVE  /\ \A d \in Fds : d # fd => Installed(fd, source)[d] = table[d]
         /\ Installed(fd, source)[fd] \in Values
         /\ source.fd = fd /\ source.dup => Installed(fd, source) = table
         /\ source.fd = fd /\ ~source.dup => table[fd] = Closed
         /\ source.fd # fd => With(source)[fd] = table[fd]
<1>1. /\ table \in [Fds -> Values] /\ fd \in Fds
      /\ \/ /\ source.dup = FALSE
            /\ source.fd \in Fds /\ table[source.fd] = Closed
         \/ /\ source.dup = TRUE
            /\ source.fd \in Low \cup {-1}
  BY FdFacts DEF TypeOK, Values, Obtained, Namable, Lowest, Free
<1>2. Installed(fd, source) \in [Fds -> Values]
  BY InstalledFacts
<1> QED BY <1>1, <1>2, FdFacts DEF Installed, With, ValueOf

\* PerformRedirection redirects in the scope or leaves it.
LEMMA Performs ==
  ASSUME RInv, RInv', PerformRedirection
  PROVE  Scopes!Next \/ UNCHANGED Scopes!vars
<1>1. PICK fd \in Low, source \in Obtained :
        \/ RedirectUnsaved(fd, source)
        \/ RedirectSaved(fd, source)
        \/ SaveFails(fd, source)
  BY DEF PerformRedirection, Namable
<1>2. /\ IInv /\ TypeOK /\ Own /\ ~Ended /\ ~Leaving /\ frames # <<>>
      /\ pc = "performing"
  BY DEF RInv, IInv, Redirecting, PerformRedirection, Ended, Ends, Leaving
<1>3. /\ \A d \in Fds : d # fd => Installed(fd, source)[d] = table[d]
      /\ Installed(fd, source)[fd] \in Values
      /\ source.fd = fd /\ source.dup => Installed(fd, source) = table
      /\ source.fd = fd /\ ~source.dup => table[fd] = Closed
      /\ source.fd # fd => With(source)[fd] = table[fd]
  BY <1>2, InstalledOthers
<1>4. CASE SaveFails(fd, source)
  <2>1. pc' = "undoing" /\ UNCHANGED << table, savedFds, frames >>
    BY <1>4 DEF SaveFails
  <2> QED BY <1>2, <2>1, Leaves DEF Scopes!Next
<1>5. CASE RedirectUnsaved(fd, source)
  <2>1. /\ table' = Installed(fd, source) /\ ~Ended' /\ ~Leaving'
    BY <1>2, <1>5 DEF RedirectUnsaved, Ended, Ends, Leaving
  <2>2. CASE source.fd = fd /\ source.dup /\ Push(-1, -1)
    <3> DEFINE e == [fd |-> -1, saved |-> -1]
    <3>1. e \in Entries /\ e.fd = -1
      BY DEF Entries
    <3>2. /\ savedFds' = Append(savedFds, e)
          /\ frames' = [frames EXCEPT ![Len(frames)].count = @ + 1]
      BY <2>2 DEF Push
    <3>3. \A d \in Fds : table'[d] = table[d]
      BY <1>3, <2>1, <2>2
    <3> HIDE DEF e
    <3> QED BY <1>2, <2>1, <3>1, <3>2, <3>3, RedirectsToItself
  <2>3. CASE table[fd] = Closed /\ Push(fd, -1)
    <3> DEFINE e == [fd |-> fd, saved |-> -1]
    <3>1. e \in Entries /\ e.fd = fd /\ e.saved = -1
      BY DEF Entries
    <3>2. /\ savedFds' = Append(savedFds, e)
          /\ frames' = [frames EXCEPT ![Len(frames)].count = @ + 1]
      BY <2>3 DEF Push
    <3> HIDE DEF e
    <3>3. Restored(e, table') = table[e.fd]
      BY <2>3, <3>1 DEF Restored
    <3>4. \A d \in Saved : table'[d] = table[d]
      BY <1>2, <1>3, <2>1, FdFacts DEF Own
    <3>5. \A d \in Low :
            table'[d] = IF d = e.fd THEN Installed(fd, source)[fd] ELSE table[d]
      BY <1>3, <2>1, <3>1, FdFacts
    <3>6. Scopes!Redirect
      BY <1>2, <1>3, <2>1, <3>1, <3>2, <3>3, <3>4, <3>5, RedirectsInScope
    <3> QED BY <3>6 DEF Scopes!Next
  <2> QED BY <1>3, <1>5, <2>2, <2>3 DEF RedirectUnsaved
<1>6. CASE RedirectSaved(fd, source)
  <2>1. PICK saved \in Free(With(source)) \cap High :
          /\ table' = [Installed(fd, source) EXCEPT ![saved] = With(source)[fd]]
          /\ Push(fd, saved)
    BY <1>6 DEF RedirectSaved, Lowest
  <2>2. /\ source.fd # fd /\ ~Ended' /\ ~Leaving'
        /\ Installed(fd, source) \in [Fds -> Values]
        /\ Free(With(source)) \subseteq Free(table)
    BY <1>2, <1>6, InstalledFacts DEF RedirectSaved, Ended, Ends, Leaving
  <2>3. /\ saved \in High /\ saved \in Fds /\ saved # -1 /\ saved \notin Low
        /\ saved \notin Saved
    BY <1>2, <2>1, <2>2, FdFacts DEF Own, Free
  <2> DEFINE e == [fd |-> fd, saved |-> saved]
  <2>4. e \in Entries /\ e.fd = fd /\ e.saved = saved
    BY <2>3 DEF Entries
  <2>5. /\ savedFds' = Append(savedFds, e)
        /\ frames' = [frames EXCEPT ![Len(frames)].count = @ + 1]
    BY <2>1 DEF Push
  <2> HIDE DEF e
  <2>6. \A d \in Fds : d # saved => table'[d] = Installed(fd, source)[d]
    BY <2>1, <2>2
  <2>7. Restored(e, table') = table[e.fd]
    BY <1>3, <2>1, <2>2, <2>3, <2>4 DEF Restored
  <2>8. \A d \in Saved : table'[d] = table[d]
    BY <1>2, <1>3, <2>3, <2>6, FdFacts DEF Own
  <2>9. \A d \in Low :
          table'[d] = IF d = e.fd THEN Installed(fd, source)[fd] ELSE table[d]
    BY <1>3, <2>3, <2>4, <2>6, FdFacts
  <2>10. Scopes!Redirect
    BY <1>2, <1>3, <2>2, <2>4, <2>5, <2>7, <2>8, <2>9, RedirectsInScope
  <2> QED BY <2>10 DEF Scopes!Next
<1> QED BY <1>1, <1>4, <1>5, <1>6

(***************************************************************************)
(* popRedirection.                                                         *)
(***************************************************************************)

\* An entry below the last one and its copy outlive the pop of the last.
LEMMA PopKeeps ==
  ASSUME IInv, ~Ended, PopRedirection, savedFds # <<>>,
         NEW j \in 1..Len(savedFds), j # Len(savedFds)
  PROVE  /\ savedFds'[j] = savedFds[j]
         /\ Restored(savedFds[j], table') = Restored(savedFds[j], table)
<1> DEFINE sfd == savedFds[Len(savedFds)]
<1>1. /\ savedFds \in Seq(Entries) /\ Len(savedFds) \in 1..Len(savedFds)
      /\ savedFds[j] \in Entries /\ sfd \in Entries
  BY TypesOf
<1>2. savedFds'[j] = savedFds[j]
  <2>1. j \in 1..Len(savedFds) - 1
    BY <1>1
  <2> QED BY <1>1, <2>1, FrontOfSeq DEF PopRedirection
<1>3. ASSUME savedFds[j].saved # -1
      PROVE  table'[savedFds[j].saved] = table[savedFds[j].saved]
  <2>1. savedFds[j].saved \in High /\ sfd.fd \in Low \cup {-1}
    BY <1>1, <1>3 DEF Entries
  <2>2. savedFds[j].saved # sfd.saved
    BY <1>1, <1>3 DEF IInv, Own, Distinct
  <2> QED BY <2>1, <2>2, FdFacts DEF PopRedirection
<1> QED BY <1>2, <1>3 DEF Restored

\* While the redirections are undone the scope has been left: a pop restores
\* what the descriptors are taken for already.
LEMMA PopsStutter ==
  ASSUME RInv, RInv', PopRedirection
  PROVE  UNCHANGED Scopes!vars
<1>1. /\ IInv /\ Within /\ Balance /\ ~Ended /\ Leaving /\ ~Ended' /\ Leaving'
      /\ frames # <<>> /\ LastFrame.count > 0
      /\ table \in [Fds -> Values]
  BY DEF RInv, IInv, Redirecting, PopRedirection, Ended, Ends, Leaving, TypeOK, Values
<1>2. /\ Len(frames) \in 1..Len(frames) /\ Len(frames) \in Nat
      /\ LastFrame \in Frames /\ LastFrame.start \in Nat /\ LastFrame.count \in Nat
      /\ Len(savedFds) \in Nat
  BY <1>1, TypesOf DEF LastFrame
<1>3. LastFrame.start + LastFrame.count = Len(savedFds)
  BY <1>1, <1>2 DEF Balance, LastFrame
<1>4. savedFds # <<>>
  BY <1>1, <1>2, <1>3
<1>5. /\ Len(frames') = Len(frames)
      /\ LastFrame' = [LastFrame EXCEPT !.count = @ - 1]
      /\ \A i \in 1..Len(frames) - 1 : frames'[i] = frames[i]
  <2>1. frames' = [frames EXCEPT ![Len(frames)].count = @ - 1]
    BY DEF PopRedirection
  <2>2. Len(frames') = Len(frames)
    BY <1>1, <1>2, <2>1, TypesOf
  <2>3. frames'[Len(frames)] = [LastFrame EXCEPT !.count = @ - 1]
    BY <1>1, <1>2, <2>1, TypesOf DEF LastFrame
  <2>4. \A i \in 1..Len(frames) - 1 : frames'[i] = frames[i]
    BY <1>1, <1>2, <2>1, TypesOf
  <2> QED BY <2>2, <2>3, <2>4 DEF LastFrame
<1>6. /\ LastFrame' \in Frames /\ LastFrame'.start = LastFrame.start
      /\ LastFrame.count = LastFrame'.count + 1
      /\ LastFrame'.start + LastFrame'.count + 1 = Len(savedFds)
  BY <1>1, <1>2, <1>3, <1>5 DEF Frames
<1>7. OpenScopes' = OpenScopes
  <2> DEFINE n == Len(frames) - 1
  <2>1. n \in Nat /\ Len(OpenFrames) = n /\ Len(OpenFrames') = n
    <3>1. Len(AllButLast(frames)) = n /\ n \in Nat
      BY <1>1, <1>2, TypesOf, FrontOfSeq
    <3>2. frames' \in Seq(Frames) /\ frames' # <<>>
      BY <1>1, <1>2, <1>5 DEF RInv, IInv, TypeOK, Frames
    <3>3. Len(AllButLast(frames')) = n
      BY <1>5, <3>2, FrontOfSeq
    <3> QED BY <1>1, <3>1, <3>3 DEF OpenFrames
  <2>2. ASSUME NEW i \in 1..n PROVE OpenScopes'[i] = OpenScopes[i]
    <3>1. /\ i \in 1..Len(frames) /\ i # Len(frames)
          /\ frames[i] \in Frames /\ frames'[i] = frames[i]
      BY <1>1, <1>2, <1>5, TypesOf
    <3>2. \A j \in EntriesOf(frames[i]) :
            j \in 1..Len(savedFds) /\ j # Len(savedFds)
      <4>1. \A j \in EntriesOf(frames[i]) :
              j \in 1..Len(savedFds) /\ j <= LastFrame.start
        BY <1>1, <3>1, EntriesOfFrame
      <4>2. LastFrame.start < Len(savedFds)
        BY <1>1, <1>2, <1>3
      <4> QED BY <1>2, <4>1, <4>2
    <3>3. Kept(frames[i], savedFds, table, savedFds', table')
      BY <1>1, <1>4, <3>2, PopKeeps DEF Kept
    <3>4. Scope(frames[i], savedFds', table') = Scope(frames[i], savedFds, table)
      BY <3>1, <3>3, ScopeSame
    <3> QED BY <2>1, <3>1, <3>4, ScopesNow, ScopesNext
  <2> HIDE DEF n
  <2> QED BY <2>1, <2>2, ScopesNow, ScopesNext DEF IsFunction
<1> DEFINE sfd == savedFds[Len(savedFds)]
<1>8. Extended(LastFrame', savedFds', table', LastFrame, savedFds, table, sfd)
  <2>1. \A j \in EntriesOf(LastFrame') :
          j \in 1..Len(savedFds) /\ j # Len(savedFds)
    BY <1>2, <1>6 DEF EntriesOf, Frames
  <2>2. Kept(LastFrame', savedFds', table', savedFds, table)
    BY <1>1, <1>4, <2>1, PopKeeps DEF Kept
  <2>3. sfd = savedFds[LastFrame'.start + LastFrame'.count + 1]
    BY <1>6
  <2> HIDE DEF sfd
  <2> QED BY <1>2, <1>6, <2>2, <2>3, ScopeExtended
<1>9. Outside' = Outside
  <2>1. sfd \in Entries
    BY <1>1, <1>4, TypesOf
  <2>2. /\ sfd.fd \in Low \cup {-1} /\ sfd.saved \in High \cup {-1}
        /\ -1 \notin Low
    BY <2>1, FdFacts DEF Entries
  <2>3. \A d \in Low :
          table'[d] = IF d = sfd.fd THEN Restored(sfd, table) ELSE table[d]
    <3>1. table' = [d \in Fds |->
                      IF d = sfd.fd
                        THEN IF sfd.saved = -1 THEN Closed ELSE table[sfd.saved]
                      ELSE IF d = sfd.saved THEN Closed
                      ELSE table[d]]
      BY DEF PopRedirection
    <3> HIDE DEF sfd
    <3> QED BY <2>2, <3>1, FdFacts DEF Restored
  <2> HIDE DEF sfd
  <2>4. ASSUME NEW d \in Low
        PROVE  (IF d \in Names(LastFrame', savedFds')
                  THEN Scope(LastFrame', savedFds', table')[d] ELSE table'[d])
               = (IF d \in Names(LastFrame, savedFds)
                    THEN Scope(LastFrame, savedFds, table)[d] ELSE table[d])
    <3>1. CASE d \in Names(LastFrame', savedFds')
      BY <1>8, <3>1 DEF Extended
    <3>2. CASE d \notin Names(LastFrame', savedFds') /\ d = sfd.fd
      BY <1>8, <2>2, <2>3, <3>2 DEF Extended
    <3>3. CASE d \notin Names(LastFrame', savedFds') /\ d # sfd.fd
      BY <1>8, <2>3, <3>3 DEF Extended
    <3> QED BY <3>1, <3>2, <3>3
  <2> QED BY <1>1, <2>4, OutsideNow, OutsideNext
<1> QED BY <1>7, <1>9 DEF Scopes!vars

(***************************************************************************)
(* The other steps.                                                        *)
(***************************************************************************)

\* exec redirects outside of any scope.
LEMMA Execs ==
  ASSUME RInv, ExecRedirection
  PROVE  Scopes!Exec
<1>1. PICK fd \in Low, source \in Obtained : table' = Installed(fd, source)
  BY DEF ExecRedirection, Namable
<1>2. /\ IInv /\ Within /\ ~Ended /\ ~Leaving /\ ~Ended' /\ ~Leaving'
      /\ UNCHANGED << savedFds, frames >>
  BY DEF RInv, ExecRedirection, own, Ended, Ends, Leaving
<1>3. /\ \A d \in Fds : d # fd => table'[d] = table[d]
      /\ table'[fd] \in Values
  BY <1>1, <1>2, InstalledOthers DEF IInv
<1>4. Outside' = [Outside EXCEPT ![fd] = table'[fd]]
  BY <1>2, <1>3, FdFacts, OutsideNow, OutsideNext
<1>5. OpenScopes' = OpenScopes
  <2>1. OpenFrames = frames /\ OpenFrames' = frames
    BY <1>2 DEF OpenFrames
  <2>2. ASSUME NEW i \in 1..Len(frames) PROVE OpenScopes'[i] = OpenScopes[i]
    <3>1. ASSUME NEW j \in EntriesOf(frames[i])
          PROVE  Restored(savedFds[j], table') = Restored(savedFds[j], table)
      <4>1. savedFds[j].saved # -1 => savedFds[j].saved \in Saved
        BY <1>2, EntriesOfFrame
      <4>2. Saved \subseteq High
        BY <1>2 DEF IInv, Own
      <4> QED BY <1>3, <4>1, <4>2, FdFacts DEF Restored
    <3>2. Kept(frames[i], savedFds, table, savedFds', table')
      BY <1>2, <3>1 DEF Kept
    <3>3. frames[i] \in Frames
      BY <1>2, TypesOf
    <3>4. Scope(frames[i], savedFds', table') = Scope(frames[i], savedFds, table)
      BY <3>2, <3>3, ScopeSame
    <3> QED BY <1>2, <2>1, <3>4, ScopesNow, ScopesNext
  <2> QED BY <2>1, <2>2, ScopesNow, ScopesNext DEF IsFunction
<1> QED BY <1>3, <1>4, <1>5 DEF Scopes!Exec, Values

\* The scopes are given up.
LEMMA Detaches ==
  ASSUME NEW file \in Values, NEW pipes \in SUBSET {0, 1},
         Outside = [d \in Low |-> table[d]],
         Outside' = [d \in Low |-> IF d \in pipes THEN file ELSE table[d]],
         OpenScopes' = <<>> \/ OpenScopes' = << Scopes!NoRedirections >>
  PROVE  Scopes!Detach
<1>1. Outside' \in {Outside, [Outside EXCEPT ![0] = file],
                    [Outside EXCEPT ![1] = file],
                    [Outside EXCEPT ![0] = file, ![1] = file]}
  <2>1. CASE pipes = {}
    BY <2>1
  <2>2. CASE pipes = {0}
    BY <2>2, FdFacts
  <2>3. CASE pipes = {1}
    BY <2>3, FdFacts
  <2>4. CASE pipes = {0, 1}
    BY <2>4, FdFacts
  <2>5. pipes = {} \/ pipes = {0} \/ pipes = {1} \/ pipes = {0, 1}
    OBVIOUS
  <2> QED BY <2>1, <2>2, <2>3, <2>4, <2>5
<1> QED BY <1>1 DEF Scopes!Detach, Values

\* A process without commands has no scopes.
LEMMA NothingOpen ==
  ASSUME OpenFrames' = <<>>
  PROVE  OpenScopes' = <<>>
BY ScopesNext, NoScopes

\* Fork, Execv, ExecuteScript, Exit and a failed here-document.
LEMMA DetachesAll ==
  ASSUME RInv, Fork \/ Execv \/ ExecuteScript \/ Exit \/ HereDocumentFails
  PROVE  Scopes!Detach
<1>1. /\ IInv /\ ~Ended /\ ~Leaving /\ ~Leaving'
      /\ table \in [Fds -> Values]
  BY DEF RInv, IInv, TypeOK, Values, Fork, Execv, ExecuteScript, Exit,
         HereDocumentFails, Ended, Ends, Leaving
<1>2. OpenScopes' = <<>>
  <2>1. frames' = <<>> \/ Ended'
    BY DEF Fork, Execv, ExecuteScript, Exit, HereDocumentFails, Ended, Ends
  <2> QED BY <1>1, <2>1, NothingOpen DEF OpenFrames
<1>3. Outside = [d \in Low |-> table[d]] /\ Outside' = [d \in Low |-> table'[d]]
  BY <1>1, OutsideNow, OutsideNext
<1>4. \E pipes \in SUBSET {0, 1}, file \in Values :
        \A d \in Low : table'[d] = IF d \in pipes THEN file ELSE table[d]
  <2>1. CASE Fork
    <3>1. PICK pipes \in SUBSET {0, 1}, file \in Files :
            table' = [d \in Fds |-> IF d \in pipes THEN file ELSE table[d]]
      BY <2>1 DEF Fork
    <3>2. file \in Values
      BY DEF Values
    <3>3. \A d \in Low : table'[d] = IF d \in pipes THEN file ELSE table[d]
      BY <3>1, FdFacts
    <3> QED BY <3>2, <3>3
  <2>2. CASE \A d \in Low : table'[d] = table[d]
    <3>1. Closed \in Values /\ {} \in SUBSET {0, 1}
      BY DEF Values
    <3>2. \A d \in Low : table'[d] = IF d \in {} THEN Closed ELSE table[d]
      BY <2>2
    <3> QED BY <3>1, <3>2, Zenon
  <2>3. CASE Execv
    <3>1. \A d \in Low : d \notin cloexec
      BY <1>1, FdFacts DEF IInv, TypeOK
    <3>2. \A d \in Low : table'[d] = table[d]
      BY <2>3, <3>1, FdFacts DEF Execv
    <3> QED BY <2>2, <3>2
  <2>4. CASE ExecuteScript
    <3> DEFINE closed == Saved \cup ({inputFd} \ {0})
               kept == [d \in Fds |-> IF d \in closed THEN Closed ELSE table[d]]
    <3>1. PICK fds \in ScriptFds(kept) : table' = [kept EXCEPT ![fds[2]] = Script]
      BY <2>4 DEF ExecuteScript
    <3>2. fds[2] \in High
      BY DEF ScriptFds
    <3>3. \A d \in Low : d \notin closed
      BY <1>1, FdFacts DEF IInv, Own
    <3>4. \A d \in Low : table'[d] = table[d]
      BY <3>1, <3>2, <3>3, FdFacts
    <3> QED BY <2>2, <3>4
  <2>5. CASE Exit \/ HereDocumentFails
    BY <2>2, <2>5 DEF Exit, HereDocumentFails
  <2> QED BY <2>1, <2>3, <2>4, <2>5
<1>5. PICK pipes \in SUBSET {0, 1}, file \in Values :
        \A d \in Low : table'[d] = IF d \in pipes THEN file ELSE table[d]
  BY <1>4
<1>6. Outside' = [d \in Low |-> IF d \in pipes THEN file ELSE table[d]]
  BY <1>3, <1>5
<1> QED BY <1>2, <1>3, <1>6, Detaches


\* ForkUtility: the child has a scope of its own.
LEMMA ForksUtility ==
  ASSUME RInv, ForkUtility
  PROVE  Scopes!Detach
<1> DEFINE frame == [count |-> 0, start |-> Len(savedFds)]
<1>1. /\ IInv /\ ~Ended /\ ~Leaving /\ ~Ended' /\ ~Leaving'
      /\ UNCHANGED << table, savedFds >>
  BY DEF RInv, ForkUtility, Ended, Ends, Leaving
<1>2. frame \in Frames /\ frame.count = 0 /\ frames' = << frame >>
  BY <1>1, TypesOf DEF ForkUtility, Frames
<1> HIDE DEF frame
<1>3. Len(frames') = 1 /\ frames'[1] = frame
  BY <1>2
<1>4. OpenFrames' = frames'
  BY <1>1 DEF OpenFrames
<1>5. IsFunction(OpenScopes', 1) /\ OpenScopes'[1] = Scope(frame, savedFds', table')
  BY <1>3, <1>4, ScopesNext
<1>6. OpenScopes'[1] = Scopes!NoRedirections
  BY <1>2, <1>5, ScopeEmpty, Zenon DEF Scopes!NoRedirections
<1>7. OpenScopes' = << Scopes!NoRedirections >>
  BY <1>5, <1>6 DEF IsFunction
<1>8. /\ Outside = [d \in Low |-> table[d]]
      /\ Outside' = [d \in Low |-> IF d \in {} THEN Closed ELSE table[d]]
  BY <1>1, OutsideNow, OutsideNext
<1>9. Closed \in Values /\ {} \in SUBSET {0, 1}
  BY DEF Values
<1> QED BY <1>7, <1>8, <1>9, Detaches

\* Undone: the scope has been left already.
LEMMA Undoes ==
  ASSUME RInv, Undone
  PROVE  UNCHANGED Scopes!vars \/ Scopes!Detach
<1>1. /\ IInv /\ ~Ended /\ Leaving /\ ~Leaving' /\ frames # <<>>
      /\ UNCHANGED << table, savedFds >>
      /\ frames' = AllButLast(frames) /\ LastFrame.count = 0
      /\ pc' \in {"list", "exited"}
  BY DEF RInv, IInv, Redirecting, Undone, Ended, Ends, Leaving
<1>2. LastFrame \in Frames
  BY <1>1, TypesOf, FrontOfSeq DEF LastFrame
<1>3. Names(LastFrame, savedFds) = {}
  BY <1>1, <1>2, ScopeEmpty
<1>4. /\ Outside = [d \in Low |-> table[d]]
      /\ Outside' = [d \in Low |-> table[d]]
  BY <1>1, <1>3, OutsideNow, OutsideNext
<1>5. CASE pc' = "list"
  <2>1. OpenFrames = AllButLast(frames) /\ OpenFrames' = AllButLast(frames)
    BY <1>1, <1>5 DEF OpenFrames, Ended, Ends
  <2>2. \A i \in 1..Len(AllButLast(frames)) : frames'[i] = frames[i]
    BY <1>1, TypesOf, FrontOfSeq
  <2>3. OpenScopes' = OpenScopes
    BY <1>1, <2>1, <2>2, ScopesNow, ScopesNext DEF IsFunction
  <2> QED BY <1>4, <2>3 DEF Scopes!vars
<1>6. CASE pc' = "exited"
  <2>1. OpenScopes' = <<>>
    BY <1>6, NothingOpen DEF OpenFrames, Ended, Ends
  <2>2. Outside' = [d \in Low |-> IF d \in {} THEN Closed ELSE table[d]]
    BY <1>4
  <2>3. Closed \in Values /\ {} \in SUBSET {0, 1}
    BY DEF Values
  <2> QED BY <1>4, <2>1, <2>2, <2>3, Detaches
<1> QED BY <1>1, <1>5, <1>6

(***************************************************************************)
(* Every step is one of RedirectionScopes, or changes neither the          *)
(* descriptors nor the scopes.                                             *)
(***************************************************************************)
LEMMA StepRefines ==
  ASSUME RInv, RInv', [Next]_vars
  PROVE  [Scopes!Next]_(Scopes!vars)
<1>1. CASE BeginCommand
  BY <1>1, Enters DEF Scopes!Next
<1>2. CASE PerformRedirection
  BY <1>2, Performs DEF Scopes!Next
<1>3. CASE RedirectionFails \/ EndCommand
  <2>1. frames # <<>>
    BY <1>3 DEF RInv, IInv, Redirecting, RedirectionFails, EndCommand
  <2>2. /\ ~Ended /\ ~Leaving /\ pc' = "undoing"
        /\ UNCHANGED << table, savedFds, frames >>
    BY <1>3 DEF RedirectionFails, EndCommand, own, Ended, Ends, Leaving
  <2> QED BY <2>1, <2>2, Leaves DEF Scopes!Next
<1>4. CASE Redirected \/ ExecBuiltin \/ ExecEnds
  <2>1. /\ ~Ended /\ ~Leaving /\ ~Ended' /\ ~Leaving'
        /\ UNCHANGED << table, savedFds, frames >>
    BY <1>4 DEF Redirected, ExecBuiltin, ExecEnds, own, Ended, Ends, Leaving
  <2> QED BY <2>1, Stutters
<1>5. CASE PopRedirection
  BY <1>5, PopsStutter
<1>6. CASE Undone
  BY <1>6, Undoes DEF Scopes!Next
<1>7. CASE ExecRedirection
  BY <1>7, Execs DEF Scopes!Next
<1>8. CASE Fork \/ Execv \/ ExecuteScript \/ Exit \/ HereDocumentFails
  BY <1>8, DetachesAll DEF Scopes!Next
<1>9. CASE ForkUtility
  BY <1>9, ForksUtility DEF Scopes!Next
<1>10. CASE UNCHANGED vars
  <2>1. /\ UNCHANGED << table, savedFds, frames >>
        /\ (Leaving' <=> Leaving) /\ (Ended' <=> Ended)
    BY <1>10 DEF vars, Ended, Leaving
  <2>2. OpenFrames' = OpenFrames /\ LastFrame' = LastFrame
    BY <1>10 DEF vars, OpenFrames, LastFrame, Ended, Leaving
  <2>3. OpenScopes' = OpenScopes
    BY <2>1, <2>2, ScopesNow, ScopesNext DEF IsFunction
  <2>4. Outside' = Outside
    BY <2>1, <2>2, OutsideNow, OutsideNext
  <2> QED BY <2>3, <2>4 DEF Scopes!vars
<1> QED
  BY <1>1, <1>2, <1>3, <1>4, <1>5, <1>6, <1>7, <1>8, <1>9, <1>10
     DEF Next, Terminated

\* Whatever the script does, its redirections hold for as long as their
\* command is executed and are undone when it ends or when one of them fails:
\* savedFds, the copies at Base and above and the pops in reverse order
\* implement scopes (performRedirections, popRedirection).
THEOREM RedirectionImplementsScopes == Spec => RedirectionsAreScopes
<1>1. Init => RInv
  <2> SUFFICES ASSUME Init PROVE RInv
    OBVIOUS
  <2>1. IInv /\ frames = <<>>
    BY InitIInv DEF Init
  <2> QED BY <2>1 DEF RInv, Within
<1>2. Init => Scopes!Init
  BY InitScopes
<1>3. RInv /\ [Next]_vars => RInv'
  BY StepRInv
<1>4. RInv /\ RInv' /\ [Next]_vars => [Scopes!Next]_(Scopes!vars)
  BY StepRefines
<1> QED BY <1>1, <1>2, <1>3, <1>4, PTL DEF Spec, RedirectionsAreScopes, Scopes!Spec

=============================================================================
