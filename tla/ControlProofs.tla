---------------------------- MODULE ControlProofs ----------------------------
(***************************************************************************)
(* Proofs about Control.  For every program: the types, the shape of the   *)
(* stack, that loopCounter counts the loops, that the positional           *)
(* parameters are the innermost call's and that trap actions do not nest.  *)
(* For programs without ";&" and without trap actions: nothing but one     *)
(* break, continue or return is pending, it stays within the loops there   *)
(* are and keeps its target, and no command starts before it has arrived.  *)
(***************************************************************************)
EXTENDS Control, FiniteSetTheorems, SequenceTheorems, TLAPS

LoopFns == {"while", "for"}
Weight(frame) == IF frame.fn \in LoopFns THEN 1 ELSE 0
Depth(frames) == Cardinality(LoopsOf(frames))

(***************************************************************************)
(* The loops among the activations, as the stack grows and shrinks.        *)
(***************************************************************************)
\* The loops of a stack are finitely many.
LEMMA LoopsFinite ==
  ASSUME NEW s \in Seq(Frame)
  PROVE  IsFiniteSet(LoopsOf(s)) /\ Depth(s) \in Nat
<1>1. IsFiniteSet(1..Len(s))
  BY FS_Interval
<1>2. LoopsOf(s) \subseteq 1..Len(s)
  BY DEF LoopsOf
<1> QED
  BY <1>1, <1>2, FS_Subset, FS_CardinalityType DEF Depth

\* A new activation counts if it is a loop.
LEMMA PushDepth ==
  ASSUME NEW s \in Seq(Frame), NEW frame \in Frame
  PROVE  /\ Append(s, frame) \in Seq(Frame)
         /\ Len(Append(s, frame)) = Len(s) + 1
         /\ Append(s, frame)[Len(s) + 1] = frame
         /\ \A i \in 1..Len(s) : Append(s, frame)[i] = s[i]
         /\ Depth(Append(s, frame)) = Depth(s) + Weight(frame)
<1> DEFINE t == Append(s, frame)
<1>1. /\ t \in Seq(Frame)
      /\ Len(t) = Len(s) + 1
      /\ t[Len(s) + 1] = frame
      /\ \A i \in 1..Len(s) : t[i] = s[i]
  OBVIOUS
<1>2. CASE frame.fn \in LoopFns
  <2>1. LoopsOf(t) = LoopsOf(s) \union {Len(s) + 1}
    BY <1>1, <1>2 DEF LoopsOf, LoopFns
  <2>2. Len(s) + 1 \notin LoopsOf(s)
    BY DEF LoopsOf
  <2> QED
    BY <1>1, <1>2, <2>1, <2>2, LoopsFinite, FS_AddElement DEF Depth, Weight
<1>3. CASE frame.fn \notin LoopFns
  <2>1. LoopsOf(t) = LoopsOf(s)
    BY <1>1, <1>3 DEF LoopsOf, LoopFns
  <2> QED
    BY <1>1, <1>3, <2>1, LoopsFinite DEF Depth, Weight
<1> QED
  BY <1>2, <1>3

\* What AllButLast keeps.
LEMMA AllButLastProperties ==
  ASSUME NEW s \in Seq(Frame), s # <<>>
  PROVE  /\ AllButLast(s) \in Seq(Frame)
         /\ Len(s) \in Nat \ {0}
         /\ Len(AllButLast(s)) = Len(s) - 1
         /\ \A i \in 1..(Len(s) - 1) : AllButLast(s)[i] = s[i]
<1> DEFINE n == Len(s) - 1
<1>1. Len(s) \in Nat \ {0}
  BY EmptySeq
<1>2. n \in Nat
  BY <1>1
<1>3. AllButLast(s) \in Seq(Frame)
  BY DEF AllButLast
<1>4. \A i \in 1..n : AllButLast(s)[i] = s[i]
  BY DEF AllButLast
<1>5. Len(AllButLast(s)) = n
  <2> HIDE DEF n
  <2>1. Len(SubSeq(s, 1, n)) = n
    BY <1>2
  <2> QED
    BY <2>1 DEF AllButLast, n
<1> QED
  BY <1>1, <1>3, <1>4, <1>5

\* The last activation no longer counts once it is left.
LEMMA PopDepth ==
  ASSUME NEW s \in Seq(Frame), s # <<>>
  PROVE  /\ Depth(AllButLast(s)) = Depth(s) - Weight(s[Len(s)])
         /\ Depth(s) >= Weight(s[Len(s)])
<1>1. CASE s[Len(s)].fn \in LoopFns
  <2>1. LoopsOf(AllButLast(s)) = LoopsOf(s) \ {Len(s)}
    BY AllButLastProperties DEF LoopsOf
  <2>2. Len(s) \in LoopsOf(s)
    BY <1>1, AllButLastProperties DEF LoopsOf, LoopFns
  <2>3. /\ Cardinality(LoopsOf(s) \ {Len(s)}) = Cardinality(LoopsOf(s)) - 1
        /\ Cardinality(LoopsOf(s)) \in Nat
    BY <2>2, LoopsFinite, FS_RemoveElement DEF Depth
  <2>4. Cardinality(LoopsOf(s)) # 0
    BY <2>2, LoopsFinite, FS_EmptySet
  <2> QED
    BY <1>1, <2>1, <2>3, <2>4 DEF Depth, Weight
<1>2. CASE s[Len(s)].fn \notin LoopFns
  <2>1. LoopsOf(AllButLast(s)) = LoopsOf(s)
    <3> DEFINE t == AllButLast(s)
    <3>1. /\ Len(t) = Len(s) - 1
          /\ Len(s) \in Nat \ {0}
          /\ \A i \in 1..(Len(s) - 1) : t[i] = s[i]
      BY AllButLastProperties
    <3> HIDE DEF t
    <3>2. ASSUME NEW i \in 1..Len(s), s[i].fn \in LoopFns
          PROVE  i \in 1..Len(t) /\ t[i].fn \in LoopFns
      BY <1>2, <3>1, <3>2
    <3>3. ASSUME NEW i \in 1..Len(t), t[i].fn \in LoopFns
          PROVE  i \in 1..Len(s) /\ s[i].fn \in LoopFns
      BY <3>1, <3>3
    <3>4. ASSUME NEW i
          PROVE  (i \in 1..Len(t) /\ t[i].fn \in LoopFns)
                   <=> (i \in 1..Len(s) /\ s[i].fn \in LoopFns)
      BY <3>2, <3>3
    <3>5. LoopsOf(t) = LoopsOf(s)
      BY <3>4, Zenon DEF LoopsOf, LoopFns
    <3> QED
      BY <3>5 DEF t
  <2> QED
    BY <1>2, <2>1, LoopsFinite DEF Depth, Weight
<1> QED
  BY <1>1, <1>2

\* An activation that goes on as the same function counts as before.
LEMMA SetDepth ==
  ASSUME NEW s \in Seq(Frame), s # <<>>, NEW frame \in Frame,
         frame.fn = s[Len(s)].fn
  PROVE  /\ [s EXCEPT ![Len(s)] = frame] \in Seq(Frame)
         /\ Len([s EXCEPT ![Len(s)] = frame]) = Len(s)
         /\ [s EXCEPT ![Len(s)] = frame][Len(s)] = frame
         /\ \A i \in 1..(Len(s) - 1) :
              [s EXCEPT ![Len(s)] = frame][i] = s[i]
         /\ Depth([s EXCEPT ![Len(s)] = frame]) = Depth(s)
<1> DEFINE t == [s EXCEPT ![Len(s)] = frame]
<1>1. Len(s) \in 1..Len(s)
  BY AllButLastProperties
<1>2. /\ t \in Seq(Frame)
      /\ Len(t) = Len(s)
      /\ \A i \in 1..Len(s) : t[i] = IF i = Len(s) THEN frame ELSE s[i]
  BY <1>1, ExceptSeq
<1> HIDE DEF t
<1>3. \A i \in 1..Len(s) : t[i].fn = s[i].fn
  BY <1>2
<1>4. LoopsOf(t) = LoopsOf(s)
  BY <1>2, <1>3 DEF LoopsOf
<1>5. /\ t[Len(s)] = frame
      /\ \A i \in 1..(Len(s) - 1) : t[i] = s[i]
  BY <1>1, <1>2
<1> QED
  BY <1>2, <1>4, <1>5 DEF Depth, t

(***************************************************************************)
(* For every program.                                                      *)
(***************************************************************************)
\* A trap action needs a trap, and it saves a status.
FrameOK(frame) ==
  /\ frame.kind = "trap" => TrapActions
  /\ frame.kind \in {"trap", "exit"} => frame.saved \in Statuses

\* The outermost activation is the execute of main or of a trap, a
\* control point other than "main" belongs to an activation, "iterate" to a
\* loop.
ShapeOf(s, p) ==
  /\ p = "main" => s = <<>>
  /\ p \notin {"main", "exited"} => s # <<>>
  /\ p = "iterate" => s[Len(s)].fn \in LoopFns
  /\ s # <<>> => s[1].fn = "execute" /\ s[1].kind \in {"main", "trap", "exit"}
  /\ \A i \in 1..Len(s) : FrameOK(s[i])

StackOK == stack \in Seq(Frame) /\ pc \in Points /\ ShapeOf(stack, pc)

\* The scalars of TypeOK.
ScalarsOK ==
  /\ lastStatus \in Statuses
  /\ numBreaks \in Nat
  /\ numContinues \in Nat
  /\ returning \in BOOLEAN
  /\ returnStatus \in Statuses
  /\ arguments \in Nat
  /\ executingTrap \in BOOLEAN
  /\ executingExitTrap \in BOOLEAN

IInv ==
  /\ StackOK
  /\ result \in Statuses
  /\ ScalarsOK
  /\ loopCounter = Depth(stack)

\* The inductive invariant implies those the runs check.
LEMMA IInvImplies == IInv => TypeOK /\ LoopsCounted
<1>1. StackOK => Depth(stack) \in Nat
  BY LoopsFinite DEF StackOK
<1> QED
  BY <1>1 DEF IInv, TypeOK, StackOK, ScalarsOK, LoopsCounted, Depth

\* The frames the actions build are activations.
LEMMA ActivationType ==
  ASSUME NEW fn \in Activations, NEW kind \in Kinds, NEW saved \in Nat
  PROVE  /\ Activation(fn, kind, saved) \in Frame
         /\ Activation(fn, kind, saved).fn = fn
         /\ Activation(fn, kind, saved).kind = kind
         /\ Activation(fn, kind, saved).saved = saved
BY DEF Activation, Frame, Statuses

\* The innermost activation.
LEMMA TopType ==
  ASSUME StackOK, stack # <<>>
  PROVE  /\ Top \in Frame
         /\ Len(stack) \in Nat \ {0}
         /\ Top.fn \in Activations
         /\ Top.kind \in Kinds
         /\ Top.status \in Statuses
         /\ Top.saved \in Nat
         /\ FrameOK(Top)
<1>1. Len(stack) \in Nat \ {0}
  BY EmptySeq DEF StackOK
<1>2. Top \in Frame
  BY <1>1, ElementOfSeq DEF StackOK, Top
<1>3. FrameOK(Top)
  BY <1>1 DEF StackOK, ShapeOf, Top
<1> QED
  BY <1>1, <1>2, <1>3 DEF Frame

\* A call adds an activation and its weight.
LEMMA EnterStep ==
  ASSUME StackOK, NEW frame \in Frame,
         NEW point \in Points \ {"main", "exited"},
         point = "iterate" => frame.fn \in LoopFns,
         stack = <<>> => /\ frame.fn = "execute"
                         /\ frame.kind \in {"main", "trap", "exit"},
         FrameOK(frame),
         Enter(frame, point)
  PROVE  /\ StackOK'
         /\ Depth(stack)' = Depth(stack) + Weight(frame)
         /\ result' = 0
<1>1. /\ stack' \in Seq(Frame)
      /\ Len(stack') = Len(stack) + 1
      /\ stack'[Len(stack) + 1] = frame
      /\ \A i \in 1..Len(stack) : stack'[i] = stack[i]
      /\ Depth(stack)' = Depth(stack) + Weight(frame)
  BY PushDepth DEF Enter, StackOK, Depth, LoopsOf
<1>2. Len(stack) \in Nat /\ (stack # <<>> => Len(stack) # 0)
  BY EmptySeq DEF StackOK
<1>3. stack' # <<>>
  BY <1>1, <1>2
<1>4. stack'[1].fn = "execute" /\ stack'[1].kind \in {"main", "trap", "exit"}
  BY <1>1, <1>2 DEF StackOK, ShapeOf
<1>5. \A i \in 1..Len(stack') : FrameOK(stack'[i])
  BY <1>1, <1>2 DEF StackOK, ShapeOf
<1> QED
  BY <1>1, <1>3, <1>4, <1>5 DEF Enter, StackOK, ShapeOf

\* A return removes the innermost activation and its weight.
LEMMA PopStep ==
  ASSUME StackOK, stack # <<>>, stack' = Callers,
         pc' \in Points, pc' # "iterate",
         pc' = "main" => stack' = <<>>,
         pc' \notin {"main", "exited"} => stack' # <<>>
  PROVE  /\ StackOK'
         /\ Depth(stack)' = Depth(stack) - Weight(Top)
         /\ Depth(stack) >= Weight(Top)
<1>1. /\ stack' \in Seq(Frame)
      /\ Len(stack') = Len(stack) - 1
      /\ Len(stack) \in Nat \ {0}
      /\ \A i \in 1..Len(stack) - 1 : stack'[i] = stack[i]
  BY AllButLastProperties DEF StackOK, Callers
<1>2. stack' # <<>> => Len(stack') \in Nat \ {0}
  BY <1>1, EmptySeq
<1>3. stack' # <<>> => /\ stack'[1].fn = "execute"
                     /\ stack'[1].kind \in {"main", "trap", "exit"}
  BY <1>1, <1>2 DEF StackOK, ShapeOf
<1>4. \A i \in 1..Len(stack') : FrameOK(stack'[i])
  BY <1>1 DEF StackOK, ShapeOf
<1>5. /\ Depth(stack)' = Depth(stack) - Weight(Top)
      /\ Depth(stack) >= Weight(Top)
  <2>1. stack \in Seq(Frame) /\ stack' = AllButLast(stack) /\ Top = stack[Len(stack)]
    BY DEF StackOK, Callers, Top
  <2>2. /\ Depth(AllButLast(stack)) = Depth(stack) - Weight(Top)
        /\ Depth(stack) >= Weight(Top)
    BY <2>1, PopDepth
  <2>3. Depth(stack)' = Depth(stack')
    BY DEF Depth, LoopsOf
  <2> QED
    BY <2>1, <2>2, <2>3
<1> QED
  BY <1>1, <1>3, <1>4, <1>5 DEF StackOK, ShapeOf

\* Where a command's value goes.
LEMMA PointAfterType ==
  ASSUME NEW s
  PROVE  /\ PointAfter(s) \in {"main", "owner", "status"}
         /\ PointAfter(s) \in Points
         /\ PointAfter(s) # "iterate"
         /\ PointAfter(s) # "exited"
         /\ PointAfter(s) = "main" <=> s = <<>>
BY DEF PointAfter, Points

\* Leave is a return.
LEMMA LeaveStep ==
  ASSUME StackOK, stack # <<>>, NEW status \in Statuses, Leave(status)
  PROVE  /\ StackOK'
         /\ Depth(stack)' = Depth(stack) - Weight(Top)
         /\ Depth(stack) >= Weight(Top)
         /\ result' \in Statuses
BY PopStep, PointAfterType DEF Leave

\* A command without an activation leaves the stack alone.
LEMMA YieldStep ==
  ASSUME StackOK, stack # <<>>, NEW status \in Statuses, Yield(status)
  PROVE  /\ StackOK'
         /\ Depth(stack)' = Depth(stack)
         /\ result' \in Statuses
BY PointAfterType, SMTT(30) DEF Yield, StackOK, ShapeOf, Depth, LoopsOf

\* An activation that goes on keeps its weight.
LEMMA BecomeStep ==
  ASSUME StackOK, stack # <<>>, NEW frame \in Frame,
         frame.fn = Top.fn, Top.fn # "execute", FrameOK(frame),
         NEW point \in Points \ {"main", "exited"},
         point = "iterate" => frame.fn \in LoopFns,
         Become(frame, point)
  PROVE  /\ StackOK'
         /\ Depth(stack)' = Depth(stack)
         /\ result' = 0
<1>1. /\ stack' \in Seq(Frame)
      /\ Len(stack') = Len(stack)
      /\ stack'[Len(stack)] = frame
      /\ \A i \in 1..(Len(stack) - 1) : stack'[i] = stack[i]
      /\ Depth(stack)' = Depth(stack)
  BY SetDepth DEF Become, StackOK, Top, Depth, LoopsOf
<1>2. Len(stack) \in Nat \ {0}
  BY EmptySeq DEF StackOK
<1>3. stack' # <<>>
  BY <1>1, <1>2, EmptySeq
<1>4. stack'[1].fn = "execute" /\ stack'[1].kind \in {"main", "trap", "exit"}
  BY <1>1, <1>2 DEF StackOK, ShapeOf, Top
<1>5. \A i \in 1..Len(stack') : FrameOK(stack'[i])
  BY <1>1, <1>2 DEF StackOK, ShapeOf
<1> QED
  BY <1>1, <1>3, <1>4, <1>5 DEF Become, StackOK, ShapeOf

\* The process ends where it is.
LEMMA ExitStep ==
  ASSUME StackOK, Exit
  PROVE  /\ StackOK'
         /\ Depth(stack)' = Depth(stack)
         /\ result' = 0
BY DEF Exit, StackOK, ShapeOf, Points, Depth, LoopsOf

\* exitShell ends the process or calls the EXIT trap.
LEMMA ExitShellStep ==
  ASSUME StackOK, NEW status \in Statuses, ExitShell(status),
         executingTrap \in BOOLEAN, executingExitTrap \in BOOLEAN
  PROVE  /\ StackOK'
         /\ Depth(stack)' = Depth(stack)
         /\ result' = 0
         /\ executingTrap' \in BOOLEAN
         /\ executingExitTrap' \in BOOLEAN
<1> DEFINE frame == Activation("execute", "exit", status)
<1>1. CASE Exit /\ UNCHANGED << executingTrap, executingExitTrap >>
  BY <1>1, ExitStep
<1>2. CASE /\ executingExitTrap' = TRUE
           /\ executingTrap' = TRUE
           /\ Enter(frame, "pipeline")
  <2>1. /\ frame \in Frame
        /\ frame.fn = "execute"
        /\ frame.kind = "exit"
        /\ FrameOK(frame)
    BY ActivationType DEF Activations, Kinds, Statuses, FrameOK
  <2>2. "pipeline" \in Points \ {"main", "exited"}
    BY DEF Points
  <2>3. Weight(frame) = 0
    BY <2>1 DEF Weight, LoopFns
  <2>4. Depth(stack) \in Nat
    BY LoopsFinite DEF StackOK
  <2> HIDE DEF frame
  <2> QED
    BY <1>2, <2>1, <2>2, <2>3, <2>4, EnterStep
<1> QED
  BY <1>1, <1>2 DEF ExitShell

\* Initially nothing is active.
LEMMA InitIInv == Init => IInv
<1> SUFFICES ASSUME Init PROVE IInv
  OBVIOUS
<1>1. stack \in Seq(Frame) /\ Len(stack) = 0
  BY EmptySeq DEF Init
<1>2. LoopsOf(stack) = {}
  BY <1>1 DEF LoopsOf
<1>3. Depth(stack) = 0
  BY <1>2, FS_EmptySet DEF Depth
<1>4. StackOK
  BY <1>1 DEF Init, StackOK, ShapeOf, Points
<1>5. result \in Statuses /\ ScalarsOK
  BY DEF Init, ScalarsOK, Statuses
<1> QED
  BY <1>3, <1>4, <1>5 DEF Init, IInv

\* Actions that only call a function of no weight.
LEMMA PlainEnterStep ==
  ASSUME IInv,
         NEW fn \in Activations \ LoopFns, NEW kind \in Kinds,
         NEW saved \in Nat,
         stack = <<>> => fn = "execute" /\ kind \in {"main", "trap", "exit"},
         NEW point \in {"pipeline", "command"},
         kind = "trap" => TrapActions,
         kind \in {"trap", "exit"} => saved \in Statuses,
         Enter(Activation(fn, kind, saved), point)
  PROVE  /\ StackOK'
         /\ Depth(stack)' = Depth(stack)
         /\ result' \in Statuses
<1> DEFINE frame == Activation(fn, kind, saved)
<1>1. /\ frame \in Frame
      /\ frame.fn = fn
      /\ frame.kind = kind
      /\ frame.saved = saved
  BY ActivationType
<1>2. Weight(frame) = 0 /\ FrameOK(frame)
  BY <1>1 DEF Weight, FrameOK
<1>3. StackOK /\ Depth(stack) \in Nat
  BY LoopsFinite DEF IInv, StackOK
<1>4. point \in Points \ {"main", "exited"} /\ point # "iterate"
  BY DEF Points
<1> HIDE DEF frame
<1>5. Enter(frame, point)
  BY DEF frame
<1> QED
  BY <1>1, <1>2, <1>3, <1>4, <1>5, EnterStep DEF Statuses

\* The executor and the commands, except for the loops.
LEMMA CommandIInv ==
  ASSUME IInv
  PROVE  /\ ReadCommand => IInv'
         /\ EndOfFile => IInv'
         /\ SyntaxError \/ NextPipeline => IInv'
         /\ ForkPipeline => IInv'
         /\ AfterPipeline => IInv'
         /\ RunTrapAction => IInv'
         /\ OrdinaryCommand => IInv'
         /\ ShBreak \/ ShContinue \/ ShReturn => IInv'
         /\ ShExit => IInv'
         /\ Eval => IInv'
         /\ CallFunction => IInv'
         /\ Fork \/ BraceGroup \/ If \/ Case => IInv'
<1> USE DEF IInv
<1> DEFINE Keeps == StackOK' /\ Depth(stack)' = Depth(stack)
<1>0. /\ StackOK
      /\ ScalarsOK
      /\ result \in Statuses
      /\ pc \notin {"main", "exited"} => stack # <<>>
      /\ Depth(stack) \in Nat
      /\ Len(stack) \in Nat
  BY LoopsFinite DEF StackOK, ShapeOf
<1>1. ReadCommand => IInv'
  <2> SUFFICES ASSUME ReadCommand PROVE IInv'
    OBVIOUS
  <2> DEFINE frame == Activation("execute", "main", 0)
  <2>1. frame \in Frame /\ frame.fn = "execute" /\ frame.kind = "main"
    BY ActivationType DEF Activations, Kinds
  <2>2. /\ "pipeline" \in Points \ {"main", "exited"}
        /\ Weight(frame) = 0
        /\ FrameOK(frame)
    BY <2>1 DEF Points, Weight, LoopFns, FrameOK
  <2> HIDE DEF frame
  <2>3. Enter(frame, "pipeline")
    BY DEF ReadCommand, frame
  <2>4. Keeps /\ result' = 0
    BY <1>0, <2>1, <2>2, <2>3, EnterStep
  <2> QED
    BY <1>0, <2>4 DEF ReadCommand, flags, context, ScalarsOK, Statuses
<1>2. EndOfFile => IInv'
  <2> SUFFICES ASSUME EndOfFile PROVE IInv'
    OBVIOUS
  <2>1. /\ Keeps
        /\ result' = 0
        /\ executingTrap' \in BOOLEAN
        /\ executingExitTrap' \in BOOLEAN
    BY <1>0, ExitShellStep DEF EndOfFile, ScalarsOK
  <2> QED
    BY <1>0, <2>1 DEF EndOfFile, flags, ScalarsOK, Statuses
<1>3. SyntaxError \/ NextPipeline => IInv'
  BY <1>0 DEF SyntaxError, NextPipeline, flags, context, ScalarsOK, StackOK,
              ShapeOf, Points, Depth, LoopsOf, Statuses
<1>4. ForkPipeline => IInv'
  <2> SUFFICES ASSUME ForkPipeline PROVE IInv'
    OBVIOUS
  <2>1. CASE /\ result' \in Statuses
             /\ pc' = "status"
             /\ UNCHANGED stack
    BY <1>0, <2>1 DEF ForkPipeline, flags, context, ScalarsOK, StackOK,
                      ShapeOf, Points, Depth, LoopsOf
  <2>2. CASE Enter(Activation("member", "none", 0), "command")
    <3>1. Keeps /\ result' \in Statuses
      BY <1>0, <2>2, PlainEnterStep
      DEF ForkPipeline, Activations, Kinds, LoopFns
    <3> QED
      BY <1>0, <3>1 DEF ForkPipeline, flags, context, ScalarsOK
  <2> QED
    BY <2>1, <2>2 DEF ForkPipeline
<1>5. AfterPipeline => IInv'
  <2> SUFFICES ASSUME AfterPipeline PROVE IInv'
    OBVIOUS
  <2>1. /\ UNCHANGED stack
        /\ pc' \in {"owner", "pipeline"}
        /\ result' \in Statuses
        /\ lastStatus' \in Statuses
        /\ UNCHANGED << flags, context >>
    BY <1>0 DEF AfterPipeline, Negation, Statuses
  <2>2. Keeps
    BY <1>0, <2>1 DEF AfterPipeline, StackOK, ShapeOf, Points, Depth, LoopsOf
  <2> QED
    BY <1>0, <2>1, <2>2 DEF flags, context, ScalarsOK
<1>6. RunTrapAction => IInv'
  <2> SUFFICES ASSUME RunTrapAction PROVE IInv'
    OBVIOUS
  <2>1. Keeps /\ result' \in Statuses
    BY <1>0, PlainEnterStep
    DEF RunTrapAction, Executing, Activations, Kinds, LoopFns, ScalarsOK,
        Statuses
  <2> QED
    BY <1>0, <2>1 DEF RunTrapAction, flags, ScalarsOK
<1>7. OrdinaryCommand => IInv'
  <2> SUFFICES ASSUME OrdinaryCommand PROVE IInv'
    OBVIOUS
  <2>1. Keeps /\ result' \in Statuses
    BY <1>0, YieldStep DEF OrdinaryCommand, Executing
  <2> QED
    BY <1>0, <2>1 DEF OrdinaryCommand, flags, context, ScalarsOK
<1>8. ShBreak \/ ShContinue \/ ShReturn => IInv'
  <2> SUFFICES ASSUME ShBreak \/ ShContinue \/ ShReturn PROVE IInv'
    OBVIOUS
  <2>1. \E status \in Statuses : Yield(status)
    BY DEF ShBreak, ShContinue, ShReturn, Statuses
  <2>2. Keeps /\ result' \in Statuses
    BY <1>0, <2>1, YieldStep DEF ShBreak, ShContinue, ShReturn, ExecutingSimple
  <2>3. /\ numBreaks' \in Nat
        /\ numContinues' \in Nat
        /\ returning' \in BOOLEAN
        /\ returnStatus' \in Statuses
        /\ UNCHANGED << lastStatus, loopCounter, context >>
    <3>1. loopCounter \in Nat /\ MaxOperand \in Nat
      BY <1>0, ControlAssumption
    <3>2. \A n \in 1..MaxOperand : Least(n, loopCounter) \in Nat
      BY <3>1 DEF Least
    <3>3. CASE ShBreak
      BY <1>0, <3>2, <3>3 DEF ShBreak, ScalarsOK
    <3>4. CASE ShContinue
      BY <1>0, <3>2, <3>4 DEF ShContinue, ScalarsOK
    <3>5. CASE ShReturn
      BY <1>0, <3>5 DEF ShReturn, ScalarsOK
    <3> QED
      BY <3>3, <3>4, <3>5
  <2> QED
    BY <1>0, <2>2, <2>3 DEF context, ScalarsOK
<1>9. ShExit => IInv'
  <2> SUFFICES ASSUME ShExit PROVE IInv'
    OBVIOUS
  <2>1. PICK status \in Statuses : lastStatus' = status /\ ExitShell(status)
    BY DEF ShExit
  <2>2. /\ Keeps
        /\ result' = 0
        /\ executingTrap' \in BOOLEAN
        /\ executingExitTrap' \in BOOLEAN
    BY <1>0, <2>1, ExitShellStep DEF ScalarsOK
  <2> QED
    BY <1>0, <2>1, <2>2 DEF ShExit, flags, ScalarsOK, Statuses
<1>10. Eval => IInv'
  <2> SUFFICES ASSUME Eval PROVE IInv'
    OBVIOUS
  <2>1. Keeps /\ result' \in Statuses
    BY <1>0, PlainEnterStep
    DEF Eval, ExecutingSimple, Activations, Kinds, LoopFns
  <2> QED
    BY <1>0, <2>1 DEF Eval, flags, context, ScalarsOK
<1>11. CallFunction => IInv'
  <2> SUFFICES ASSUME CallFunction PROVE IInv'
    OBVIOUS
  <2>1. Keeps /\ result' \in Statuses
    BY <1>0, PlainEnterStep
    DEF CallFunction, ExecutingSimple, Activations, Kinds, LoopFns, ScalarsOK
  <2> QED
    BY <1>0, <2>1 DEF CallFunction, flags, ScalarsOK
<1>12. Fork \/ BraceGroup \/ If \/ Case => IInv'
  <2> SUFFICES ASSUME Fork \/ BraceGroup \/ If \/ Case PROVE IInv'
    OBVIOUS
  <2>1. \E fn \in Activations \ LoopFns, kind \in Kinds \ {"trap", "exit"} :
          Enter(Activation(fn, kind, 0), "pipeline")
    BY DEF Fork, BraceGroup, If, Case, Activations, Kinds, LoopFns
  <2>2. pc = "command" /\ UNCHANGED << lastStatus, flags, context >>
    BY DEF Fork, BraceGroup, If, Case, Executing
  <2>3. Keeps /\ result' \in Statuses
    BY <1>0, <2>1, <2>2, PlainEnterStep
  <2> QED
    BY <1>0, <2>2, <2>3 DEF flags, context, ScalarsOK
<1> QED
  BY <1>1, <1>2, <1>3, <1>4, <1>5, <1>6, <1>7, <1>8, <1>9, <1>10, <1>11,
     <1>12

\* A loop that is left takes its weight with it.
LEMMA LeaveLoopStep ==
  ASSUME IInv, stack # <<>>, Top.fn \in LoopFns,
         NEW status \in Statuses, LeaveLoop(status)
  PROVE  /\ StackOK'
         /\ loopCounter' = Depth(stack)'
         /\ result' \in Statuses
<1>1. StackOK /\ Depth(stack) \in Nat /\ loopCounter = Depth(stack)
  BY LoopsFinite DEF IInv, StackOK
<1>2. Weight(Top) = 1
  BY DEF Weight
<1> QED
  BY <1>1, <1>2, LeaveStep DEF LeaveLoop

\* An activation that is no loop is left without a change of loopCounter.
LEMMA PlainLeaveStep ==
  ASSUME IInv, stack # <<>>, Top.fn \notin LoopFns,
         NEW status \in Statuses, Leave(status), UNCHANGED loopCounter
  PROVE  /\ StackOK'
         /\ loopCounter' = Depth(stack)'
         /\ result' \in Statuses
<1>1. StackOK /\ Depth(stack) \in Nat /\ loopCounter = Depth(stack)
  BY LoopsFinite DEF IInv, StackOK
<1>2. Weight(Top) = 0
  BY DEF Weight
<1> QED
  BY <1>1, <1>2, LeaveStep

\* An activation that goes on, as another kind or with another status.
LEMMA GoOnStep ==
  ASSUME IInv, stack # <<>>,
         NEW frame \in Frame, frame.fn = Top.fn,
         Top.fn # "execute",
         \/ frame.kind = Top.kind /\ frame.saved = Top.saved
         \/ frame.kind \in {"condition", "body", "fall"},
         NEW point \in {"pipeline", "iterate"},
         point = "iterate" => Top.fn \in LoopFns,
         Become(frame, point), UNCHANGED loopCounter
  PROVE  /\ StackOK'
         /\ loopCounter' = Depth(stack)'
         /\ result' \in Statuses
<1>1. StackOK /\ Depth(stack) \in Nat /\ loopCounter = Depth(stack)
  BY LoopsFinite DEF IInv, StackOK
<1>2. FrameOK(frame)
  BY <1>1, TopType DEF FrameOK
<1>3. point \in Points \ {"main", "exited"}
  BY DEF Points
<1> QED
  BY <1>1, <1>2, <1>3, BecomeStep DEF Statuses

\* The loops.
LEMMA LoopIInv ==
  ASSUME IInv
  PROVE  /\ EnterLoop => IInv'
         /\ Loop => IInv'
         /\ Iterate => IInv'
<1>0. /\ StackOK
      /\ ScalarsOK
      /\ result \in Statuses
      /\ loopCounter = Depth(stack)
      /\ pc \notin {"main", "exited"} => stack # <<>>
      /\ Depth(stack) \in Nat
  BY LoopsFinite DEF IInv, StackOK, ShapeOf
<1> DEFINE Keeps == /\ StackOK'
                    /\ loopCounter' = Depth(stack)'
                    /\ result' \in Statuses
<1>1. EnterLoop => IInv'
  <2> SUFFICES ASSUME EnterLoop PROVE IInv'
    OBVIOUS
  <2>1. PICK fn \in LoopFns, kind \in {"condition", "body"} :
          Enter(Activation(fn, kind, 0), "iterate")
    BY DEF EnterLoop, LoopFns
  <2> DEFINE frame == Activation(fn, kind, 0)
  <2>2. frame \in Frame /\ frame.fn = fn /\ frame.kind = kind
    BY ActivationType DEF Activations, Kinds, LoopFns
  <2>3. /\ "iterate" \in Points \ {"main", "exited"}
        /\ Weight(frame) = 1
        /\ FrameOK(frame)
        /\ stack # <<>>
    BY <1>0, <2>2 DEF Points, Weight, FrameOK, EnterLoop, Executing
  <2> HIDE DEF frame
  <2>4. Enter(frame, "iterate")
    BY <2>1 DEF frame
  <2>5. Keeps
    BY <1>0, <2>2, <2>3, <2>4, EnterStep DEF EnterLoop, Statuses
  <2> QED
    BY <1>0, <2>5 DEF EnterLoop, IInv, ScalarsOK, context
<1>2. Loop => IInv'
  <2> SUFFICES ASSUME Loop PROVE IInv'
    OBVIOUS
  <2>1. stack # <<>> /\ Top.fn \in LoopFns /\ Top.fn # "execute"
    BY <1>0 DEF Loop, Returned, LoopFns
  <2>2. /\ LoopStatus \in Statuses
        /\ [Top EXCEPT !.kind = "body"] \in Frame
        /\ [Top EXCEPT !.kind = "body"].fn = Top.fn
        /\ [Top EXCEPT !.kind = "body"].kind = "body"
        /\ [Top EXCEPT !.status = LoopStatus] \in Frame
        /\ [Top EXCEPT !.status = LoopStatus].fn = Top.fn
        /\ [Top EXCEPT !.status = LoopStatus].kind = Top.kind
        /\ [Top EXCEPT !.status = LoopStatus].saved = Top.saved
    <3>1. LoopStatus \in Statuses /\ Top \in Frame
      BY <1>0, <2>1, TopType DEF LoopStatus
    <3> QED
      BY <3>1 DEF Frame, Kinds
  <2>3. CASE LoopReturns
    <3>1. Keeps
      BY <2>1, <2>2, <2>3, LeaveLoopStep DEF LoopReturns
    <3> QED
      BY <1>0, <2>3, <3>1 DEF LoopReturns, Loop, IInv, ScalarsOK, context
  <2>4. CASE LoopBreaks
    <3>1. Keeps
      BY <2>1, <2>2, <2>4, LeaveLoopStep DEF LoopBreaks
    <3> QED
      BY <1>0, <2>4, <3>1 DEF LoopBreaks, Loop, IInv, ScalarsOK, context
  <2>5. CASE LoopContinues
    <3>1. Keeps
      <4>1. CASE numContinues > 1
        BY <2>1, <2>2, <2>5, <4>1, LeaveLoopStep DEF LoopContinues
      <4>2. CASE ~(numContinues > 1)
        BY <2>1, <2>2, <2>5, <4>2, GoOnStep DEF LoopContinues
      <4> QED
        BY <4>1, <4>2
    <3> QED
      BY <1>0, <2>5, <3>1 DEF LoopContinues, Loop, IInv, ScalarsOK, context
  <2>6. CASE LoopProceeds
    <3>1. Keeps
      <4>1. CASE /\ Become([Top EXCEPT !.kind = "body"], "pipeline")
                 /\ UNCHANGED loopCounter
        BY <2>1, <2>2, <4>1, GoOnStep
      <4>2. CASE LeaveLoop(LoopStatus)
        BY <2>1, <2>2, <4>2, LeaveLoopStep
      <4>3. CASE /\ Become([Top EXCEPT !.status = LoopStatus], "iterate")
                 /\ UNCHANGED loopCounter
        BY <2>1, <2>2, <4>3, GoOnStep
      <4> QED
        BY <2>6, <4>1, <4>2, <4>3 DEF LoopProceeds
    <3> QED
      BY <1>0, <2>6, <3>1 DEF LoopProceeds, Loop, IInv, ScalarsOK, context
  <2> QED
    BY <2>3, <2>4, <2>5, <2>6 DEF Loop
<1>3. Iterate => IInv'
  <2> SUFFICES ASSUME Iterate PROVE IInv'
    OBVIOUS
  <2>1. stack # <<>> /\ Top.fn \in LoopFns /\ Top.fn # "execute"
    BY <1>0 DEF Iterate, LoopFns
  <2>2. /\ Top \in Frame
        /\ Top.status \in Statuses
        /\ [Top EXCEPT !.kind = "condition"] \in Frame
        /\ [Top EXCEPT !.kind = "condition"].fn = Top.fn
        /\ [Top EXCEPT !.kind = "condition"].kind = "condition"
    BY <1>0, <2>1, TopType DEF Frame, Kinds
  <2>3. Keeps
    <3>1. CASE /\ Become([Top EXCEPT !.kind = "condition"], "pipeline")
               /\ UNCHANGED loopCounter
      BY <2>1, <2>2, <3>1, GoOnStep
    <3>2. CASE Become(Top, "pipeline") /\ UNCHANGED loopCounter
      BY <2>1, <2>2, <3>2, GoOnStep
    <3>3. CASE LeaveLoop(Top.status)
      BY <2>1, <2>2, <3>3, LeaveLoopStep
    <3> QED
      BY <3>1, <3>2, <3>3 DEF Iterate
  <2> QED
    BY <1>0, <2>3 DEF Iterate, IInv, ScalarsOK, context
<1> QED
  BY <1>1, <1>2, <1>3

\* The activations that are no loops, when their list has returned.
LEMMA OwnerIInv ==
  ASSUME IInv
  PROVE  /\ Execute => IInv'
         /\ Group => IInv'
         /\ Subshell => IInv'
         /\ IfClause => IInv'
         /\ CaseItem => IInv'
         /\ Function => IInv'
<1>0. /\ StackOK
      /\ ScalarsOK
      /\ result \in Statuses
      /\ loopCounter = Depth(stack)
      /\ pc \notin {"main", "exited"} => stack # <<>>
      /\ Depth(stack) \in Nat
  BY LoopsFinite DEF IInv, StackOK, ShapeOf
<1> DEFINE Keeps == /\ StackOK'
                    /\ loopCounter' = Depth(stack)'
                    /\ result' \in Statuses
<1>1. Execute => IInv'
  <2> SUFFICES ASSUME Execute PROVE IInv'
    OBVIOUS
  <2>1. stack # <<>> /\ Top.fn = "execute" /\ Top.fn \notin LoopFns
    BY <1>0 DEF Execute, Returned, LoopFns
  <2> DEFINE value == IF returning THEN returnStatus ELSE result
  <2>2. value \in Statuses /\ Top.saved \in Nat /\ lastStatus \in Statuses
    BY <1>0, <2>1, TopType DEF ScalarsOK
  <2>3. returning' = FALSE /\ UNCHANGED << loopCounter, numBreaks,
                                          numContinues, returnStatus >>
    BY DEF Execute
  <2>4. CASE Top.kind \in {"main", "eval", "dot"}
    <3>1. Leave(value) /\ UNCHANGED << lastStatus, context >>
      BY <2>4 DEF Execute
    <3>2. Keeps
      BY <2>1, <2>2, <2>3, <3>1, PlainLeaveStep
    <3> QED
      BY <1>0, <2>3, <3>1, <3>2 DEF IInv, ScalarsOK, context
  <2>5. CASE Top.kind = "trap"
    <3>1. /\ executingTrap' = FALSE
          /\ lastStatus' = Top.saved
          /\ stack' = Callers
          /\ pc' = IF Callers = <<>> THEN "main" ELSE "command"
          /\ result' = 0
          /\ UNCHANGED << arguments, executingExitTrap >>
      BY <2>5 DEF Execute
    <3>3. StackOK' /\ Depth(stack)' = Depth(stack) - Weight(Top)
      BY <1>0, <2>1, <3>1, PopStep DEF Points
    <3>4. Weight(Top) = 0 /\ Top.saved \in Statuses
      BY <1>0, <2>1, <2>5, TopType DEF Weight, FrameOK
    <3>5. loopCounter' = Depth(stack)'
      BY <1>0, <2>3, <3>3, <3>4
    <3>6. ScalarsOK' /\ result' \in Statuses
      BY <1>0, <2>3, <3>1, <3>4 DEF ScalarsOK, Statuses
    <3> QED
      BY <3>3, <3>5, <3>6 DEF IInv
  <2>6. CASE Top.kind = "exit"
    <3>1. /\ executingTrap' = FALSE
          /\ lastStatus' = Top.saved
          /\ Exit
          /\ UNCHANGED << arguments, executingExitTrap >>
      BY <2>6 DEF Execute
    <3>2. Top.saved \in Statuses
      BY <1>0, <2>1, <2>6, TopType DEF FrameOK
    <3>3. StackOK' /\ Depth(stack)' = Depth(stack) /\ result' = 0
      BY <1>0, <3>1, ExitStep
    <3> QED
      BY <1>0, <2>3, <3>1, <3>2, <3>3 DEF IInv, ScalarsOK, Statuses
  <2>7. CASE Top.kind \notin {"main", "eval", "dot", "trap", "exit"}
    <3>1. ExitShell(lastStatus) /\ UNCHANGED << lastStatus, arguments >>
      BY <2>7 DEF Execute
    <3>2. /\ StackOK'
          /\ Depth(stack)' = Depth(stack)
          /\ result' = 0
          /\ executingTrap' \in BOOLEAN
          /\ executingExitTrap' \in BOOLEAN
      BY <1>0, <2>2, <3>1, ExitShellStep DEF ScalarsOK
    <3> QED
      BY <1>0, <2>3, <3>1, <3>2 DEF IInv, ScalarsOK, Statuses
  <2> QED
    BY <2>4, <2>5, <2>6, <2>7
<1>2. Group => IInv'
  <2> SUFFICES ASSUME Group PROVE IInv'
    OBVIOUS
  <2>1. Keeps
    BY <1>0, PlainLeaveStep DEF Group, Returned, LoopFns, flags
  <2> QED
    BY <1>0, <2>1 DEF Group, IInv, ScalarsOK, flags, context
<1>3. Subshell => IInv'
  BY <1>0, ExitStep DEF Subshell, IInv, ScalarsOK, Statuses, flags, context
<1>4. IfClause => IInv'
  <2> SUFFICES ASSUME IfClause PROVE IInv'
    OBVIOUS
  <2>1. stack # <<>> /\ Top.fn \notin LoopFns /\ Top.fn # "execute"
    BY <1>0 DEF IfClause, Returned, LoopFns
  <2>2. /\ Top \in Frame
        /\ [Top EXCEPT !.kind = "body"] \in Frame
        /\ [Top EXCEPT !.kind = "body"].fn = Top.fn
        /\ [Top EXCEPT !.kind = "body"].kind = "body"
    BY <1>0, <2>1, TopType DEF Frame, Kinds
  <2>3. UNCHANGED << lastStatus, flags, context >>
    BY DEF IfClause
  <2>4. Keeps
    <3>1. CASE \E status \in {0, result} : Leave(status)
      BY <1>0, <2>1, <2>3, <3>1, PlainLeaveStep DEF Statuses, flags
    <3>2. CASE Become([Top EXCEPT !.kind = "body"], "pipeline")
      BY <2>1, <2>2, <2>3, <3>2, GoOnStep DEF flags
    <3>3. CASE Become(Top, "pipeline")
      BY <2>1, <2>2, <2>3, <3>3, GoOnStep DEF flags
    <3> QED
      BY <3>1, <3>2, <3>3 DEF IfClause
  <2> QED
    BY <1>0, <2>3, <2>4 DEF IInv, ScalarsOK, flags, context
<1>5. CaseItem => IInv'
  <2> SUFFICES ASSUME CaseItem PROVE IInv'
    OBVIOUS
  <2>1. stack # <<>> /\ Top.fn \notin LoopFns /\ Top.fn # "execute"
    BY <1>0 DEF CaseItem, Returned, LoopFns
  <2>2. /\ [Top EXCEPT !.kind = "fall"] \in Frame
        /\ [Top EXCEPT !.kind = "fall"].fn = Top.fn
        /\ [Top EXCEPT !.kind = "fall"].kind = "fall"
    BY <1>0, <2>1, TopType DEF Frame, Kinds
  <2>3. UNCHANGED << lastStatus, flags, context >>
    BY DEF CaseItem
  <2>4. Keeps
    <3>1. CASE Leave(result)
      BY <1>0, <2>1, <2>3, <3>1, PlainLeaveStep DEF flags
    <3>2. CASE Become([Top EXCEPT !.kind = "fall"], "pipeline")
      BY <2>1, <2>2, <2>3, <3>2, GoOnStep DEF flags
    <3> QED
      BY <3>1, <3>2 DEF CaseItem
  <2> QED
    BY <1>0, <2>3, <2>4 DEF IInv, ScalarsOK, flags, context
<1>6. Function => IInv'
  <2> SUFFICES ASSUME Function PROVE IInv'
    OBVIOUS
  <2>1. stack # <<>> /\ Top.fn \notin LoopFns /\ Top.fn # "execute"
    BY <1>0 DEF Function, Returned, LoopFns
  <2>2. /\ (IF returning THEN returnStatus ELSE result) \in Statuses
        /\ Top.saved \in Nat
    BY <1>0, <2>1, TopType DEF ScalarsOK
  <2>3. Keeps
    BY <2>1, <2>2, PlainLeaveStep DEF Function
  <2> QED
    BY <1>0, <2>2, <2>3 DEF Function, IInv, ScalarsOK
<1> QED
  BY <1>1, <1>2, <1>3, <1>4, <1>5, <1>6

\* Every step of every program preserves the inductive invariant.
LEMMA NextIInv == IInv /\ [Next]_vars => IInv'
<1> SUFFICES ASSUME IInv, [Next]_vars PROVE IInv'
  OBVIOUS
<1>1. CASE UNCHANGED vars
  BY <1>1 DEF vars, flags, context, IInv, StackOK, ScalarsOK, ShapeOf, Depth,
              LoopsOf
<1>2. CASE Next
  <2>1. Exited => IInv'
    BY <1>1 DEF Exited
  <2> QED
    BY <1>2, <2>1, CommandIInv, LoopIInv, OwnerIInv DEF Next
<1> QED
  BY <1>1, <1>2

\* Whatever the program does, the executor's variables have their types.
THEOREM TypeCorrect == Spec => []TypeOK
<1>1. Init => IInv
  BY InitIInv
<1>2. IInv /\ [Next]_vars => IInv'
  BY NextIInv
<1>3. IInv => TypeOK
  BY IInvImplies
<1> QED
  BY <1>1, <1>2, <1>3, PTL DEF Spec

\* Whatever the program does, traps, ";&" and forks included, loopCounter is
\* the number of loops that are being executed.
THEOREM LoopsAreCounted == Spec => []LoopsCounted
<1>1. Init => IInv
  BY InitIInv
<1>2. IInv /\ [Next]_vars => IInv'
  BY NextIInv
<1>3. IInv => LoopsCounted
  BY IInvImplies
<1> QED
  BY <1>1, <1>2, <1>3, PTL DEF Spec

(***************************************************************************)
(* What a step does to the stack, for the invariants about the calls and   *)
(* the trap actions on it.                                                 *)
(***************************************************************************)
ActionKinds == {"trap", "exit"}

\* Trap actions are executed by execute, called from executeTrapAction.
ActionsExecute ==
  \A i \in 1..Len(stack) :
    stack[i].kind \in ActionKinds => stack[i].fn = "execute"

\* The activations stay; an EXIT trap that ends takes the process with it.
Stays ==
  /\ UNCHANGED << stack, arguments, executingExitTrap >>
  /\ pc' # "exited" => pc # "exited" /\ UNCHANGED executingTrap

\* A call.  A function saves the arguments, an action sets its flag.
Pushes(frame) ==
  /\ frame \in Frame
  /\ pc # "exited"
  /\ stack' = Append(stack, frame)
  /\ IF frame.fn = "function"
       THEN frame.saved = arguments /\ arguments' = Len(stack) + 1
       ELSE UNCHANGED arguments
  /\ \/ /\ frame.kind \notin ActionKinds
        /\ UNCHANGED << executingTrap, executingExitTrap >>
     \/ /\ frame.kind = "trap" /\ frame.fn = "execute"
        /\ stack = <<>> \/ ~executingTrap
        /\ executingTrap' = TRUE
        /\ UNCHANGED executingExitTrap
     \/ /\ frame.kind = "exit" /\ frame.fn = "execute"
        /\ ~executingExitTrap
        /\ executingTrap' = TRUE
        /\ executingExitTrap' = TRUE

\* A return.  A function restores the arguments.
Pops ==
  /\ stack # <<>>
  /\ pc # "exited"
  /\ stack' = Callers
  /\ arguments' = IF Top.fn = "function" THEN Top.saved ELSE arguments
  /\ Top.kind # "exit"
  /\ Top.kind # "trap" => UNCHANGED executingTrap
  /\ UNCHANGED executingExitTrap

\* The innermost activation goes on.
GoesOn(frame) ==
  /\ stack # <<>>
  /\ pc # "exited"
  /\ frame \in Frame
  /\ frame.fn = Top.fn
  /\ frame.saved = Top.saved
  /\ Top.kind \notin ActionKinds
  /\ frame.kind \notin ActionKinds
  /\ stack' = [stack EXCEPT ![Len(stack)] = frame]
  /\ UNCHANGED context

\* The innermost activation is a trap action only if it is an execute.
LEMMA TopAction ==
  ASSUME IInv, ActionsExecute, stack # <<>>, Top.fn # "execute"
  PROVE  Top.kind \notin ActionKinds
BY TopType DEF IInv, ActionsExecute, Top

\* exitShell ends the process or calls the EXIT trap.
LEMMA ExitShellStack ==
  ASSUME IInv, pc # "exited", NEW status \in Statuses, ExitShell(status),
         UNCHANGED arguments
  PROVE  Stays \/ \E frame : Pushes(frame)
<1>1. CASE Exit /\ UNCHANGED << executingTrap, executingExitTrap >>
  BY <1>1 DEF Exit, Stays
<1>2. CASE /\ ~executingExitTrap
           /\ executingExitTrap' = TRUE
           /\ executingTrap' = TRUE
           /\ Enter(Activation("execute", "exit", status), "pipeline")
  <2> DEFINE frame == Activation("execute", "exit", status)
  <2>1. frame \in Frame /\ frame.fn = "execute" /\ frame.kind = "exit"
    BY ActivationType DEF Activations, Kinds, Statuses
  <2>2. stack' = Append(stack, frame)
    BY <1>2 DEF Enter
  <2> HIDE DEF frame
  <2>3. Pushes(frame)
    BY <1>2, <2>1, <2>2 DEF Pushes
  <2> QED
    BY <2>3
<1> QED
  BY <1>1, <1>2 DEF ExitShell

\* A call of anything but a function or a trap action.
LEMMA PlainPush ==
  ASSUME NEW fn \in Activations \ {"function"},
         NEW kind \in Kinds \ ActionKinds, NEW saved \in Nat,
         NEW point, Enter(Activation(fn, kind, saved), point),
         pc # "exited", UNCHANGED context
  PROVE  \E frame : Pushes(frame)
<1> DEFINE frame == Activation(fn, kind, saved)
<1>1. frame \in Frame /\ frame.fn = fn /\ frame.kind = kind
  BY ActivationType
<1>2. stack' = Append(stack, frame)
  BY DEF Enter
<1> HIDE DEF frame
<1>3. Pushes(frame)
  BY <1>1, <1>2 DEF Pushes, context
<1> QED
  BY <1>3

\* The executor and the commands call, or leave the stack alone.
LEMMA CommandStack ==
  ASSUME IInv
  PROVE  /\ ReadCommand \/ ForkPipeline \/ Eval \/ EnterLoop =>
              Stays \/ \E frame : Pushes(frame)
         /\ Fork \/ BraceGroup \/ If \/ Case => \E frame : Pushes(frame)
         /\ EndOfFile \/ ShExit => Stays \/ \E frame : Pushes(frame)
         /\ RunTrapAction => \E frame : Pushes(frame)
         /\ CallFunction => \E frame : Pushes(frame)
         /\ SyntaxError \/ NextPipeline \/ AfterPipeline \/ OrdinaryCommand => Stays
         /\ ShBreak \/ ShContinue \/ ShReturn => Stays
<1>0. StackOK /\ ScalarsOK
  BY DEF IInv
<1>1. ReadCommand \/ ForkPipeline \/ Eval \/ EnterLoop =>
        Stays \/ \E frame : Pushes(frame)
  BY PlainPush DEF ReadCommand, ForkPipeline, Eval, EnterLoop, Executing,
     ExecutingSimple, Activations, Kinds, ActionKinds, Stays, context
<1>2. Fork \/ BraceGroup \/ If \/ Case => \E frame : Pushes(frame)
  BY PlainPush DEF Fork, BraceGroup, If, Case, Executing, Activations, Kinds,
     ActionKinds
<1>3. EndOfFile \/ ShExit => Stays \/ \E frame : Pushes(frame)
  BY <1>0, ExitShellStack DEF EndOfFile, ShExit, ExecutingSimple, ScalarsOK
<1>4. RunTrapAction => \E frame : Pushes(frame)
  <2> SUFFICES ASSUME RunTrapAction PROVE \E frame : Pushes(frame)
    OBVIOUS
  <2> DEFINE frame == Activation("execute", "trap", lastStatus)
  <2>1. frame \in Frame /\ frame.fn = "execute" /\ frame.kind = "trap"
    BY <1>0, ActivationType DEF ScalarsOK, Statuses, Activations, Kinds
  <2>2. stack' = Append(stack, frame)
    BY DEF RunTrapAction, Enter
  <2>3. pc # "exited" /\ (stack = <<>> \/ ~executingTrap)
    BY <1>0 DEF RunTrapAction, Executing, StackOK, ShapeOf
  <2> HIDE DEF frame
  <2>4. Pushes(frame)
    BY <2>1, <2>2, <2>3 DEF RunTrapAction, Pushes
  <2> QED
    BY <2>4
<1>5. CallFunction => \E frame : Pushes(frame)
  <2> SUFFICES ASSUME CallFunction PROVE \E frame : Pushes(frame)
    OBVIOUS
  <2> DEFINE frame == Activation("function", "none", arguments)
  <2>1. /\ frame \in Frame
        /\ frame.fn = "function"
        /\ frame.kind = "none"
        /\ frame.saved = arguments
    BY <1>0, ActivationType DEF ScalarsOK, Activations, Kinds
  <2>2. stack' = Append(stack, frame)
    BY DEF CallFunction, Enter
  <2> HIDE DEF frame
  <2>3. Pushes(frame)
    BY <2>1, <2>2
    DEF CallFunction, ExecutingSimple, Pushes, ActionKinds
  <2> QED
    BY <2>3
<1>6. SyntaxError \/ NextPipeline \/ AfterPipeline \/ OrdinaryCommand => Stays
  BY DEF SyntaxError, NextPipeline, AfterPipeline, OrdinaryCommand, Executing, Yield,
     context, Stays
<1>7. ShBreak \/ ShContinue \/ ShReturn => Stays
  BY DEF ShBreak, ShContinue, ShReturn, ExecutingSimple, Yield, context, Stays
<1> QED
  BY <1>1, <1>2, <1>3, <1>4, <1>5, <1>6, <1>7

\* The activations return, go on, or end the process.
LEMMA OwnerStack ==
  ASSUME IInv, ActionsExecute
  PROVE  /\ Execute => Stays \/ Pops \/ \E frame : Pushes(frame)
         /\ Group \/ Function => Pops
         /\ Subshell => Stays
         /\ IfClause \/ CaseItem => Pops \/ \E frame : GoesOn(frame)
         /\ Loop \/ Iterate => Pops \/ \E frame : GoesOn(frame)
<1>0. /\ StackOK
      /\ ScalarsOK
      /\ pc \notin {"main", "exited"} => stack # <<>>
  BY DEF IInv, StackOK, ShapeOf
<1>1. Execute => Stays \/ Pops \/ \E frame : Pushes(frame)
  <2> SUFFICES ASSUME Execute
               PROVE  Stays \/ Pops \/ \E frame : Pushes(frame)
    OBVIOUS
  <2>1. stack # <<>> /\ Top.fn = "execute" /\ pc # "exited"
    BY <1>0 DEF Execute, Returned
  <2>2. CASE Top.kind \in {"main", "eval", "dot"}
    <3>1. stack' = Callers /\ UNCHANGED context
      BY <2>2 DEF Execute, Leave
    <3> QED
      BY <2>1, <2>2, <3>1 DEF Pops, context
  <2>3. CASE Top.kind = "trap"
    <3>1. stack' = Callers /\ UNCHANGED << arguments, executingExitTrap >>
      BY <2>3 DEF Execute
    <3> QED
      BY <2>1, <2>3, <3>1 DEF Pops
  <2>4. CASE Top.kind = "exit"
    <3>1. Exit /\ UNCHANGED << arguments, executingExitTrap >>
      BY <2>4 DEF Execute
    <3> QED
      BY <3>1 DEF Exit, Stays
  <2>5. CASE Top.kind \notin {"main", "eval", "dot", "trap", "exit"}
    <3>1. ExitShell(lastStatus) /\ UNCHANGED arguments
      BY <2>5 DEF Execute
    <3> QED
      BY <1>0, <2>1, <3>1, ExitShellStack DEF ScalarsOK
  <2> QED
    BY <2>2, <2>3, <2>4, <2>5
<1>2. Group \/ Function => Pops
  BY <1>0, TopAction DEF Group, Function, Returned, Leave, Pops, context,
     ActionKinds
<1>3. Subshell => Stays
  BY DEF Subshell, Exit, context, Stays
<1>4. ASSUME pc # "exited", stack # <<>>, Top.fn # "execute",
             UNCHANGED context
      PROVE  /\ \A frame, point :
                  /\ Become(frame, point)
                  /\ \/ frame = Top
                     \/ \E kind \in {"condition", "body", "fall"} :
                          frame = [Top EXCEPT !.kind = kind]
                     \/ \E status \in Statuses :
                          frame = [Top EXCEPT !.status = status]
                  => GoesOn(frame)
             /\ \A status : /\ Leave(status)
                            /\ Top.fn # "function"
                            => Pops
  <2>1. Top.kind \notin ActionKinds /\ Top \in Frame
    BY <1>0, <1>4, TopAction, TopType
  <2>2. \A kind \in {"condition", "body", "fall"} :
          /\ [Top EXCEPT !.kind = kind] \in Frame
          /\ [Top EXCEPT !.kind = kind].fn = Top.fn
          /\ [Top EXCEPT !.kind = kind].saved = Top.saved
          /\ [Top EXCEPT !.kind = kind].kind \notin ActionKinds
    BY <2>1 DEF Frame, Kinds, ActionKinds
  <2>3. \A status \in Statuses :
          /\ [Top EXCEPT !.status = status] \in Frame
          /\ [Top EXCEPT !.status = status].fn = Top.fn
          /\ [Top EXCEPT !.status = status].saved = Top.saved
          /\ [Top EXCEPT !.status = status].kind \notin ActionKinds
    BY <2>1 DEF Frame
  <2>4. ASSUME NEW frame, NEW point, Become(frame, point),
               \/ frame = Top
               \/ \E kind \in {"condition", "body", "fall"} :
                    frame = [Top EXCEPT !.kind = kind]
               \/ \E status \in Statuses :
                    frame = [Top EXCEPT !.status = status]
        PROVE  GoesOn(frame)
    <3>1. /\ frame \in Frame
          /\ frame.fn = Top.fn
          /\ frame.saved = Top.saved
          /\ frame.kind \notin ActionKinds
      BY <2>1, <2>2, <2>3, <2>4
    <3> QED
      BY <1>4, <2>1, <2>4, <3>1 DEF Become, GoesOn
  <2>5. ASSUME NEW status, Leave(status), Top.fn # "function"
        PROVE  Pops
    BY <1>4, <2>1, <2>5 DEF Leave, Pops, context, ActionKinds
  <2> QED
    BY <2>4, <2>5
<1>5. IfClause \/ CaseItem => Pops \/ \E frame : GoesOn(frame)
  <2> SUFFICES ASSUME IfClause \/ CaseItem
               PROVE  Pops \/ \E frame : GoesOn(frame)
    OBVIOUS
  <2>1. /\ pc # "exited"
        /\ stack # <<>>
        /\ Top.fn \notin {"execute", "function"}
        /\ UNCHANGED context
    BY <1>0 DEF IfClause, CaseItem, Returned
  <2>2. \/ \E status : Leave(status)
        \/ \E kind \in {"condition", "body", "fall"} :
             Become([Top EXCEPT !.kind = kind], "pipeline")
        \/ Become(Top, "pipeline")
    BY DEF IfClause, CaseItem
  <2> QED
    BY <1>4, <2>1, <2>2
<1>6. Loop \/ Iterate => Pops \/ \E frame : GoesOn(frame)
  <2> SUFFICES ASSUME Loop \/ Iterate
               PROVE  Pops \/ \E frame : GoesOn(frame)
    OBVIOUS
  <2>1. /\ pc # "exited"
        /\ stack # <<>>
        /\ Top.fn \notin {"execute", "function"}
        /\ UNCHANGED context
    BY <1>0 DEF Loop, Iterate, Returned
  <2>2. LoopStatus \in Statuses
    BY <1>0, <2>1, TopType DEF LoopStatus, IInv
  <2>3. /\ \A status : Leave(status) => Pops
        /\ \A point : Become(Top, point) => \E frame : GoesOn(frame)
        /\ \A point : Become([Top EXCEPT !.status = LoopStatus], point) =>
                      \E frame : GoesOn(frame)
        /\ \A point, kind : /\ kind \in {"condition", "body", "fall"}
                            /\ Become([Top EXCEPT !.kind = kind], point)
                            => \E frame : GoesOn(frame)
    BY <1>4, <2>1, <2>2
  <2>4. CASE LoopReturns \/ LoopBreaks
    BY <2>3, <2>4 DEF LoopReturns, LoopBreaks, LeaveLoop
  <2>5. CASE LoopContinues
    <3>1. CASE numContinues > 1
      BY <2>3, <2>5, <3>1 DEF LoopContinues, LeaveLoop
    <3>2. CASE ~(numContinues > 1)
      BY <2>3, <2>5, <3>2 DEF LoopContinues
    <3> QED
      BY <3>1, <3>2
  <2>6. CASE LoopProceeds
    BY <2>3, <2>6 DEF LoopProceeds, LeaveLoop
  <2>7. CASE Iterate
    BY <2>3, <2>7 DEF Iterate, LeaveLoop
  <2> QED
    BY <2>4, <2>5, <2>6, <2>7 DEF Loop
<1> QED
  BY <1>1, <1>2, <1>3, <1>5, <1>6

\* A step calls, returns, goes on or leaves the stack alone.
LEMMA NextStack ==
  ASSUME IInv, ActionsExecute, [Next]_vars
  PROVE  Stays \/ Pops \/ \E frame : Pushes(frame) \/ GoesOn(frame)
<1>1. CASE UNCHANGED vars
  BY <1>1 DEF vars, context, Stays
<1>2. CASE Next
  <2>1. Exited => Stays
    BY DEF Exited, vars, context, Stays
  <2> QED
    BY <1>2, <2>1, CommandStack, OwnerStack DEF Next
<1> QED
  BY <1>1, <1>2

(***************************************************************************)
(* The positional parameters of functions.                                 *)
(***************************************************************************)
\* c is the innermost call of a function among the first n activations, 0 if
\* there is none.
IsInnermostCall(s, n, c) ==
  /\ c \in 0..n
  /\ c # 0 => s[c].fn = "function"
  /\ \A i \in 1..n : s[i].fn = "function" => i <= c

\* The innermost call's parameters are in force, and each call has saved
\* those of the call around it.
CallsOK ==
  /\ IsInnermostCall(stack, Len(stack), arguments)
  /\ \A i \in 1..Len(stack) :
       stack[i].fn = "function" => IsInnermostCall(stack, i - 1, stack[i].saved)

\* Which call is the innermost one depends on the functions alone.
LEMMA InnermostCallKept ==
  ASSUME NEW s \in Seq(Frame), NEW t \in Seq(Frame), NEW n \in Nat, NEW c,
         \A i \in 1..n : t[i].fn = s[i].fn,
         IsInnermostCall(s, n, c)
  PROVE  IsInnermostCall(t, n, c)
BY DEF IsInnermostCall

\* A call is the innermost one from then on; the others stay.
LEMMA PushCalls ==
  ASSUME IInv, CallsOK, NEW frame, Pushes(frame)
  PROVE  CallsOK'
<1> DEFINE n == Len(stack)
<1>1. stack \in Seq(Frame) /\ n \in Nat
  BY DEF IInv, StackOK
<1>2. /\ stack' \in Seq(Frame)
      /\ Len(stack') = n + 1
      /\ stack'[n + 1] = frame
      /\ \A i \in 1..n : stack'[i] = stack[i]
  BY <1>1, PushDepth DEF Pushes
<1> HIDE DEF n
<1>3. IsInnermostCall(stack, n, arguments)
  BY DEF CallsOK, n
<1>4. IsInnermostCall(stack', n + 1, arguments')
  BY <1>1, <1>2, <1>3 DEF IsInnermostCall, Pushes, n
<1>5. ASSUME NEW i \in 1..(n + 1), stack'[i].fn = "function"
      PROVE  IsInnermostCall(stack', i - 1, stack'[i].saved)
  <2>1. i - 1 \in Nat /\ \A j \in 1..(i - 1) : stack'[j].fn = stack[j].fn
    BY <1>1, <1>2
  <2>2. CASE i = n + 1
    <3>1. stack'[i].saved = arguments /\ i - 1 = n
      BY <1>1, <1>2, <1>5, <2>2 DEF Pushes
    <3> QED
      BY <1>1, <1>2, <1>3, <2>1, <3>1, InnermostCallKept
  <2>3. CASE i # n + 1
    <3>1. i \in 1..n /\ stack'[i] = stack[i]
      BY <1>1, <1>2, <2>3
    <3>2. IsInnermostCall(stack, i - 1, stack[i].saved)
      BY <1>5, <3>1 DEF CallsOK, n
    <3> QED
      BY <1>1, <1>2, <2>1, <3>1, <3>2, InnermostCallKept
  <2> QED
    BY <2>2, <2>3
<1> QED
  BY <1>2, <1>4, <1>5 DEF CallsOK

\* A return restores the parameters of the call around it.
LEMMA PopCalls ==
  ASSUME IInv, CallsOK, Pops
  PROVE  CallsOK'
<1> DEFINE n == Len(stack)
<1>1. /\ stack \in Seq(Frame)
      /\ stack' \in Seq(Frame)
      /\ n \in Nat \ {0}
      /\ Len(stack') = n - 1
      /\ \A i \in 1..(n - 1) : stack'[i] = stack[i]
  BY AllButLastProperties DEF IInv, StackOK, Pops, Callers
<1> HIDE DEF n
<1>2. /\ IsInnermostCall(stack, n, arguments)
      /\ \A i \in 1..n :
           stack[i].fn = "function" =>
             IsInnermostCall(stack, i - 1, stack[i].saved)
  BY DEF CallsOK, n
<1>3. IsInnermostCall(stack, n - 1, arguments')
  <2>1. CASE stack[n].fn = "function"
    BY <1>1, <1>2, <2>1 DEF Pops, Top, n
  <2>2. CASE stack[n].fn # "function"
    <3>1. arguments' = arguments
      BY <2>2 DEF Pops, Top, n
    <3> QED
      BY <1>1, <1>2, <2>2, <3>1 DEF IsInnermostCall
  <2> QED
    BY <2>1, <2>2
<1>4. IsInnermostCall(stack', n - 1, arguments')
  BY <1>1, <1>3, InnermostCallKept
<1>5. ASSUME NEW i \in 1..(n - 1), stack'[i].fn = "function"
      PROVE  IsInnermostCall(stack', i - 1, stack'[i].saved)
  <2>1. i - 1 \in Nat /\ \A j \in 1..(i - 1) : stack'[j].fn = stack[j].fn
    BY <1>1
  <2>2. IsInnermostCall(stack, i - 1, stack[i].saved) /\ stack'[i] = stack[i]
    BY <1>1, <1>2, <1>5
  <2> QED
    BY <1>1, <2>1, <2>2, InnermostCallKept
<1> QED
  BY <1>1, <1>4, <1>5 DEF CallsOK

\* An activation that goes on stays what it is.
LEMMA GoOnCalls ==
  ASSUME IInv, CallsOK, NEW frame, GoesOn(frame)
  PROVE  CallsOK'
<1> DEFINE n == Len(stack)
<1>1. /\ stack \in Seq(Frame)
      /\ stack' \in Seq(Frame)
      /\ n \in Nat \ {0}
      /\ Len(stack') = n
      /\ stack'[n] = frame
      /\ \A i \in 1..(n - 1) : stack'[i] = stack[i]
  BY SetDepth, AllButLastProperties DEF IInv, StackOK, GoesOn, Top
<1> HIDE DEF n
<1>2. \A i \in 1..n : /\ stack'[i].fn = stack[i].fn
                      /\ stack'[i].saved = stack[i].saved
  <2>1. frame.fn = stack[n].fn /\ frame.saved = stack[n].saved
    BY DEF GoesOn, Top, n
  <2>2. \A i \in 1..n : i = n \/ i \in 1..(n - 1)
    BY <1>1
  <2> QED
    BY <1>1, <2>1, <2>2
<1>3. arguments' = arguments
  BY DEF GoesOn, context
<1>4. IsInnermostCall(stack', n, arguments')
  BY <1>1, <1>2, <1>3, InnermostCallKept DEF CallsOK, n
<1>5. ASSUME NEW i \in 1..n, stack'[i].fn = "function"
      PROVE  IsInnermostCall(stack', i - 1, stack'[i].saved)
  <2>1. i - 1 \in Nat /\ \A j \in 1..(i - 1) : stack'[j].fn = stack[j].fn
    BY <1>1, <1>2
  <2>2. IsInnermostCall(stack, i - 1, stack'[i].saved)
    BY <1>2, <1>5 DEF CallsOK, n
  <2> QED
    BY <1>1, <2>1, <2>2, InnermostCallKept
<1> QED
  BY <1>1, <1>4, <1>5 DEF CallsOK

(***************************************************************************)
(* Trap actions.                                                           *)
(***************************************************************************)
\* An action that is executed has set its flag, there is at most one of each
\* kind, and the EXIT trap is called last.
ActionsOK ==
  /\ ActionsExecute
  /\ \A i, j \in 1..Len(stack) :
       stack[i].kind \in ActionKinds /\ stack[i].kind = stack[j].kind => i = j
  /\ \A i, j \in 1..Len(stack) :
       stack[i].kind = "trap" /\ stack[j].kind = "exit" => i < j
  /\ \A i \in 1..Len(stack) :
       /\ stack[i].kind \in ActionKinds /\ pc # "exited" => executingTrap
       /\ stack[i].kind = "exit" => executingExitTrap

\* Only an action that no other one precludes is called.
LEMMA PushActions ==
  ASSUME IInv, ActionsOK, NEW frame, Pushes(frame)
  PROVE  ActionsOK'
<1> DEFINE n == Len(stack)
<1>1. stack \in Seq(Frame) /\ n \in Nat /\ pc # "exited"
  BY DEF IInv, StackOK, Pushes
<1>2. /\ Len(stack') = n + 1
      /\ stack'[n + 1] = frame
      /\ \A i \in 1..n : stack'[i] = stack[i]
  BY <1>1, PushDepth DEF Pushes
<1>3. stack = <<>> => n = 0
  OBVIOUS
<1>4. frame.kind = "trap" => \A i \in 1..n : stack[i].kind \notin ActionKinds
  BY <1>1, <1>3 DEF ActionsOK, Pushes, ActionKinds
<1>5. frame.kind = "exit" => \A i \in 1..n : stack[i].kind # "exit"
  BY DEF ActionsOK, Pushes, ActionKinds
<1> HIDE DEF n
<1>6. ActionsExecute'
  BY <1>1, <1>2 DEF ActionsOK, ActionsExecute, Pushes, ActionKinds, n
<1>7. \A i, j \in 1..(n + 1) :
        /\ stack'[i].kind \in ActionKinds
        /\ stack'[i].kind = stack'[j].kind
        => i = j
  BY <1>1, <1>2, <1>4, <1>5 DEF ActionsOK, ActionKinds, n
<1>8. \A i, j \in 1..(n + 1) :
        stack'[i].kind = "trap" /\ stack'[j].kind = "exit" => i < j
  BY <1>1, <1>2, <1>4 DEF ActionsOK, ActionKinds, n
<1>9. \A i \in 1..(n + 1) :
        /\ stack'[i].kind \in ActionKinds => executingTrap'
        /\ stack'[i].kind = "exit" => executingExitTrap'
  BY <1>1, <1>2 DEF ActionsOK, Pushes, ActionKinds, n
<1> QED
  BY <1>2, <1>6, <1>7, <1>8, <1>9 DEF ActionsOK

\* An action that returns was the only one.
LEMMA PopActions ==
  ASSUME IInv, ActionsOK, Pops
  PROVE  ActionsOK'
<1> DEFINE n == Len(stack)
<1>1. /\ n \in Nat \ {0}
      /\ Len(stack') = n - 1
      /\ \A i \in 1..(n - 1) : stack'[i] = stack[i]
  BY AllButLastProperties DEF IInv, StackOK, Pops, Callers
<1>2. Top.kind = "trap" =>
        \A i \in 1..(n - 1) : stack[i].kind \notin ActionKinds
  BY <1>1 DEF ActionsOK, ActionKinds, Top
<1>3. /\ pc # "exited"
      /\ Top.kind # "trap" => UNCHANGED executingTrap
      /\ UNCHANGED executingExitTrap
  BY DEF Pops
<1> HIDE DEF n
<1>4. \A i \in 1..(n - 1) :
        /\ stack'[i].kind \in ActionKinds => stack'[i].fn = "execute"
        /\ stack'[i].kind \in ActionKinds => executingTrap'
        /\ stack'[i].kind = "exit" => executingExitTrap'
  BY <1>1, <1>2, <1>3 DEF ActionsOK, ActionsExecute, n
<1>5. \A i, j \in 1..(n - 1) :
        /\ /\ stack'[i].kind \in ActionKinds
           /\ stack'[i].kind = stack'[j].kind
           => i = j
        /\ stack'[i].kind = "trap" /\ stack'[j].kind = "exit" => i < j
  BY <1>1 DEF ActionsOK, n
<1> QED
  BY <1>1, <1>4, <1>5 DEF ActionsOK, ActionsExecute

\* An activation that goes on is no action.
LEMMA GoOnActions ==
  ASSUME IInv, ActionsOK, NEW frame, GoesOn(frame)
  PROVE  ActionsOK'
<1> DEFINE n == Len(stack)
<1>1. /\ n \in Nat \ {0}
      /\ Len(stack') = n
      /\ stack'[n] = frame
      /\ \A i \in 1..(n - 1) : stack'[i] = stack[i]
  BY SetDepth, AllButLastProperties DEF IInv, StackOK, GoesOn, Top
<1>2. /\ frame.kind \notin ActionKinds
      /\ pc # "exited"
      /\ UNCHANGED << executingTrap, executingExitTrap >>
  BY DEF GoesOn, context
<1> HIDE DEF n
<1>3. \A i \in 1..n :
        stack'[i].kind \in ActionKinds => i \in 1..(n - 1)
  BY <1>1, <1>2
<1>4. \A i \in 1..n :
        /\ stack'[i].kind \in ActionKinds => stack'[i].fn = "execute"
        /\ stack'[i].kind \in ActionKinds => executingTrap'
        /\ stack'[i].kind = "exit" => executingExitTrap'
  BY <1>1, <1>2, <1>3 DEF ActionsOK, ActionsExecute, ActionKinds, n
<1>5. \A i, j \in 1..n :
        /\ /\ stack'[i].kind \in ActionKinds
           /\ stack'[i].kind = stack'[j].kind
           => i = j
        /\ stack'[i].kind = "trap" /\ stack'[j].kind = "exit" => i < j
  BY <1>1, <1>3 DEF ActionsOK, ActionKinds, n
<1> QED
  BY <1>1, <1>4, <1>5 DEF ActionsOK, ActionsExecute

SInv == IInv /\ CallsOK /\ ActionsOK

\* Initially no function and no action is called.
LEMMA InitSInv == Init => SInv
<1> SUFFICES ASSUME Init PROVE CallsOK /\ ActionsOK
  BY InitIInv DEF SInv
<1>1. Len(stack) = 0 /\ arguments = 0
  BY DEF Init
<1> QED
  BY <1>1 DEF CallsOK, IsInnermostCall, ActionsOK, ActionsExecute

\* The invariant of the stack is inductive.
LEMMA NextSInv == SInv /\ [Next]_vars => SInv'
<1> SUFFICES ASSUME SInv, [Next]_vars PROVE SInv'
  OBVIOUS
<1>1. IInv /\ CallsOK /\ ActionsOK /\ ActionsExecute
  BY DEF SInv, ActionsOK
<1>2. SUFFICES CallsOK' /\ ActionsOK'
  BY <1>1, NextIInv DEF SInv
<1>3. CASE Stays
  BY <1>1, <1>3
  DEF Stays, CallsOK, IsInnermostCall, ActionsOK, ActionsExecute
<1>4. CASE Pops
  BY <1>1, <1>4, PopCalls, PopActions
<1>5. CASE \E frame : Pushes(frame) \/ GoesOn(frame)
  BY <1>1, <1>5, PushCalls, PushActions, GoOnCalls, GoOnActions
<1> QED
  BY <1>1, <1>3, <1>4, <1>5, NextStack

\* The calls and the actions on the stack are as the properties say.
LEMMA SInvImplies ==
  SInv => ArgumentsOfInnermostCall /\ TrapActionsDoNotNest
<1> SUFFICES ASSUME SInv
             PROVE  ArgumentsOfInnermostCall /\ TrapActionsDoNotNest
  OBVIOUS
<1>1. Len(stack) \in Nat
  BY DEF SInv, IInv, StackOK
<1>2. ArgumentsOfInnermostCall
  BY <1>1 DEF SInv, CallsOK, IsInnermostCall, ArgumentsOfInnermostCall, Calls
<1>3. ASSUME NEW kind \in ActionKinds
      PROVE  Cardinality(Actions(kind)) <= 1
  <2>1. \A i, j \in Actions(kind) : i = j
    BY DEF SInv, ActionsOK, Actions
  <2>2. CASE Actions(kind) = {}
    BY <2>2, FS_EmptySet
  <2>3. CASE Actions(kind) # {}
    <3>1. PICK i : Actions(kind) = {i}
      BY <2>1, <2>3
    <3>2. Cardinality({i}) = 1
      BY FS_Singleton
    <3> QED
      BY <3>1, <3>2
  <2> QED
    BY <2>2, <2>3
<1>4. \A i \in Actions("trap"), j \in Actions("exit") : i < j
  BY DEF SInv, ActionsOK, Actions
<1> QED
  BY <1>2, <1>3, <1>4 DEF TrapActionsDoNotNest, ActionKinds

\* Whatever the program does, however a function ends, the positional
\* parameters are those of the innermost call that is being executed.
THEOREM ArgumentsAreTheCalls == Spec => []ArgumentsOfInnermostCall
<1>1. Init => SInv
  BY InitSInv
<1>2. SInv /\ [Next]_vars => SInv'
  BY NextSInv
<1>3. SInv => ArgumentsOfInnermostCall
  BY SInvImplies
<1> QED
  BY <1>1, <1>2, <1>3, PTL DEF Spec

\* Whatever the program does, forks and exit in a trap action included, at
\* most one trap action is executed, interrupted by the EXIT trap at most.
THEOREM OneTrapActionAtATime == Spec => []TrapActionsDoNotNest
<1>1. Init => SInv
  BY InitSInv
<1>2. SInv /\ [Next]_vars => SInv'
  BY NextSInv
<1>3. SInv => TrapActionsDoNotNest
  BY SInvImplies
<1> QED
  BY <1>1, <1>2, <1>3, PTL DEF Spec

(***************************************************************************)
(* For programs without ";&" and without trap actions.                     *)
(***************************************************************************)
\* Commands are started only when nothing is pending.
Quiet == pc \in {"main", "pipeline", "command", "iterate"} => ~Unwinding

PendingInv == PendingWithinLoops /\ OnePending /\ Quiet
CInv == IInv /\ PendingInv

\* The outermost activation is outside of all loops.
LEMMA Outermost ==
  ASSUME IInv, stack # <<>>, Callers = <<>>
  PROVE  Top.fn = "execute" /\ loopCounter = 0
<1>1. /\ StackOK
      /\ loopCounter = Depth(stack)
      /\ Depth(stack) \in Nat
  BY LoopsFinite DEF IInv, StackOK
<1>2. Len(stack) = 1
  <2>1. Len(Callers) = Len(stack) - 1 /\ Len(stack) \in Nat
    BY <1>1, AllButLastProperties DEF StackOK, Callers
  <2>2. Len(Callers) = 0
    OBVIOUS
  <2> QED
    BY <2>1, <2>2
<1>3. Top.fn = "execute"
  BY <1>1, <1>2 DEF StackOK, ShapeOf, Top
<1>4. Depth(AllButLast(stack)) = 0
  <2>1. LoopsOf(AllButLast(stack)) = {}
    BY <1>1, <1>2, AllButLastProperties DEF StackOK, LoopsOf
  <2> QED
    BY <2>1, FS_EmptySet DEF Depth
<1>5. Weight(Top) = 0
  BY <1>3 DEF Weight, LoopFns
<1> QED
  BY <1>1, <1>3, <1>4, <1>5, PopDepth DEF StackOK, Top

\* Leaving an activation that is no execute does not end at the top level.
LEMMA InnerLeave ==
  ASSUME IInv, stack # <<>>, Top.fn # "execute", NEW status, Leave(status)
  PROVE  stack' # <<>> /\ pc' \in {"status", "owner"}
BY Outermost, PointAfterType DEF Leave

\* A command without an activation does not reach the top level.
LEMMA YieldPoint ==
  ASSUME stack # <<>>, NEW status, Yield(status)
  PROVE  stack' # <<>> /\ pc' \in {"status", "owner"}
BY PointAfterType DEF Yield

\* A call ends inside of an activation.
LEMMA EnterStack ==
  ASSUME IInv, NEW frame \in Frame, NEW point, Enter(frame, point)
  PROVE  stack' # <<>>
<1>1. /\ Len(stack) \in Nat
      /\ Len(Append(stack, frame)) = Len(stack) + 1
  BY PushDepth DEF IInv, StackOK
<1> QED
  BY <1>1, EmptySeq DEF Enter

\* An activation that goes on is still there.
LEMMA BecomeStack ==
  ASSUME IInv, stack # <<>>, NEW frame, NEW point, Become(frame, point)
  PROVE  stack' # <<>>
<1>1. DOMAIN stack = 1..Len(stack) /\ Len(stack) \in Nat \ {0}
  BY EmptySeq, LenProperties DEF IInv, StackOK
<1>2. DOMAIN stack' = 1..Len(stack)
  BY <1>1 DEF Become
<1>3. DOMAIN <<>> = 1..0
  OBVIOUS
<1> QED
  BY <1>1, <1>2, <1>3

\* The commands start with nothing pending and leave at most one pending.
LEMMA CommandPending ==
  ASSUME CInv, ~TrapActions, ~Fallthrough
  PROVE  /\ ReadCommand \/ SyntaxError \/ EndOfFile => PendingInv'
         /\ NextPipeline \/ ForkPipeline \/ AfterPipeline => PendingInv'
         /\ RunTrapAction => PendingInv'
         /\ OrdinaryCommand => PendingInv'
         /\ ShBreak \/ ShContinue \/ ShReturn => PendingInv'
         /\ ShExit => PendingInv'
         /\ Eval \/ CallFunction => PendingInv'
         /\ Fork \/ BraceGroup \/ If \/ Case => PendingInv'
         /\ EnterLoop => PendingInv'
<1>0. /\ IInv
      /\ PendingInv
      /\ pc \notin {"main", "exited"} => stack # <<>>
      /\ numBreaks \in Nat
      /\ numContinues \in Nat
      /\ loopCounter \in Nat
      /\ MaxOperand \in Nat
  BY LoopsFinite, ControlAssumption
  DEF CInv, IInv, StackOK, ShapeOf, ScalarsOK
<1> USE DEF PendingInv, PendingWithinLoops, OnePending, Quiet, Unwinding
<1>1. ASSUME ~Unwinding, stack' # <<>>,
             UNCHANGED << numBreaks, numContinues, returning >>,
             loopCounter' \in Nat
      PROVE  PendingInv'
  BY <1>0, <1>1
<1>2. ASSUME NEW fn \in Activations, NEW kind \in Kinds, NEW saved \in Nat,
             NEW point, Enter(Activation(fn, kind, saved), point)
      PROVE  stack' # <<>>
  BY <1>0, <1>2, ActivationType, EnterStack
<1>3. ReadCommand \/ SyntaxError \/ EndOfFile => PendingInv'
  <2>1. ReadCommand => stack' # <<>>
    BY <1>2 DEF ReadCommand, Activations, Kinds
  <2> QED
    BY <1>0, <2>1 DEF ReadCommand, SyntaxError, EndOfFile, ExitShell, Exit,
                        flags
<1>4. NextPipeline \/ ForkPipeline \/ AfterPipeline => PendingInv'
  <2>1. ForkPipeline => stack' # <<>>
    BY <1>0, <1>2 DEF ForkPipeline, Activations, Kinds
  <2> QED
    BY <1>0, <2>1 DEF NextPipeline, ForkPipeline, AfterPipeline, flags
<1>5. RunTrapAction => PendingInv'
  BY DEF RunTrapAction
<1>6. OrdinaryCommand => PendingInv'
  BY <1>0, <1>1, YieldPoint DEF OrdinaryCommand, Executing, flags
<1>7. ShBreak \/ ShContinue \/ ShReturn => PendingInv'
  <2> SUFFICES ASSUME ShBreak \/ ShContinue \/ ShReturn PROVE PendingInv'
    OBVIOUS
  <2>1. /\ pc = "command"
        /\ stack # <<>>
        /\ UNCHANGED loopCounter
        /\ \E status : Yield(status)
    BY <1>0 DEF ShBreak, ShContinue, ShReturn, ExecutingSimple
  <2>2. stack' # <<>> /\ pc' \in {"status", "owner"}
    BY <2>1, YieldPoint
  <2>3. \A n \in 1..MaxOperand :
          Least(n, loopCounter) \in Nat /\ Least(n, loopCounter) <= loopCounter
    BY <1>0 DEF Least
  <2>4. CASE ShBreak
    BY <1>0, <2>1, <2>2, <2>3, <2>4 DEF ShBreak
  <2>5. CASE ShContinue
    BY <1>0, <2>1, <2>2, <2>3, <2>5 DEF ShContinue
  <2>6. CASE ShReturn
    BY <1>0, <2>1, <2>2, <2>6 DEF ShReturn
  <2> QED
    BY <2>4, <2>5, <2>6
<1>8. ShExit => PendingInv'
  BY <1>0 DEF ShExit, ExecutingSimple, ExitShell, Exit, flags
<1>9. Eval \/ CallFunction => PendingInv'
  <2>1. Eval \/ CallFunction => stack' # <<>>
    BY <1>0, <1>2 DEF Eval, CallFunction, Activations, Kinds, IInv, ScalarsOK
  <2> QED
    BY <1>0, <1>1, <2>1 DEF Eval, CallFunction, ExecutingSimple, flags
<1>10. Fork \/ BraceGroup \/ If \/ Case => PendingInv'
  <2>1. Fork \/ BraceGroup \/ If \/ Case => stack' # <<>>
    BY <1>2 DEF Fork, BraceGroup, If, Case, Activations, Kinds
  <2> QED
    BY <1>0, <1>1, <2>1 DEF Fork, BraceGroup, If, Case, Executing, flags
<1>11. EnterLoop => PendingInv'
  <2>1. EnterLoop => stack' # <<>>
    BY <1>2 DEF EnterLoop, Activations, Kinds
  <2> QED
    BY <1>0, <1>1, <2>1 DEF EnterLoop, Executing
<1> QED
  BY <1>3, <1>4, <1>5, <1>6, <1>7, <1>8, <1>9, <1>10, <1>11

\* The activations pass what is pending on, or take it.
LEMMA OwnerPending ==
  ASSUME CInv, ~TrapActions, ~Fallthrough
  PROVE  /\ Execute => PendingInv'
         /\ Group \/ IfClause \/ CaseItem \/ Function => PendingInv'
         /\ Subshell => PendingInv'
         /\ Loop => PendingInv'
         /\ Iterate => PendingInv'
<1>0. /\ IInv
      /\ StackOK
      /\ PendingInv
      /\ pc \notin {"main", "exited"} => stack # <<>>
      /\ numBreaks \in Nat
      /\ numContinues \in Nat
      /\ loopCounter \in Nat
  BY LoopsFinite DEF CInv, IInv, StackOK, ShapeOf, ScalarsOK
<1> USE DEF PendingInv, PendingWithinLoops, OnePending, Quiet, Unwinding
<1>1. Execute => PendingInv'
  <2> SUFFICES ASSUME Execute PROVE PendingInv'
    OBVIOUS
  <2>1. /\ stack # <<>>
        /\ returning' = FALSE
        /\ UNCHANGED << loopCounter, numBreaks, numContinues >>
    BY <1>0 DEF Execute, Returned
  <2>2. CASE Top.kind \in {"main", "eval", "dot"}
    <3>1. PICK value : Leave(value)
      BY <2>2 DEF Execute
    <3>2. /\ stack' = Callers
          /\ pc' = PointAfter(Callers)
      BY <3>1 DEF Leave
    <3>3. CASE Callers = <<>>
      <4>1. loopCounter = 0
        BY <1>0, <2>1, <3>3, Outermost
      <4> QED
        BY <1>0, <2>1, <4>1
    <3>4. CASE Callers # <<>>
      BY <1>0, <2>1, <3>2, <3>4, PointAfterType
    <3> QED
      BY <3>3, <3>4
  <2>3. CASE Top.kind = "trap"
    BY <1>0, <2>1, <2>3, TopType DEF FrameOK
  <2>4. CASE Top.kind \notin {"main", "eval", "dot", "trap"}
    <3>1. Exit
      BY <2>4 DEF Execute, ExitShell
    <3> QED
      BY <1>0, <2>1, <3>1 DEF Exit
  <2> QED
    BY <2>2, <2>3, <2>4
<1>2. Group \/ IfClause \/ CaseItem \/ Function => PendingInv'
  <2> SUFFICES ASSUME Group \/ IfClause \/ CaseItem \/ Function
               PROVE  PendingInv'
    OBVIOUS
  <2>1. stack # <<>> /\ Top.fn # "execute"
    BY <1>0 DEF Group, IfClause, CaseItem, Function, Returned
  <2>2. \/ \E status : Leave(status)
        \/ ~Unwinding /\ \E frame : Become(frame, "pipeline")
    BY DEF Group, IfClause, CaseItem, Function
  <2>3. /\ UNCHANGED << loopCounter, numBreaks, numContinues >>
        /\ UNCHANGED returning \/ returning' = FALSE
    BY DEF Group, IfClause, CaseItem, Function, flags
  <2>4. CASE \E status : Leave(status)
    BY <1>0, <2>1, <2>3, <2>4, InnerLeave
  <2>5. CASE ~Unwinding /\ \E frame : Become(frame, "pipeline")
    BY <1>0, <2>1, <2>3, <2>5, BecomeStack
  <2> QED
    BY <2>2, <2>4, <2>5
<1>3. Subshell => PendingInv'
  BY <1>0 DEF Subshell, Returned, Exit, flags
<1>4. Loop => PendingInv'
  <2> SUFFICES ASSUME Loop PROVE PendingInv'
    OBVIOUS
  <2>1. stack # <<>> /\ Top.fn # "execute" /\ UNCHANGED returning
    BY <1>0 DEF Loop, Returned
  <2>2. \A status :
          LeaveLoop(status) => /\ stack' # <<>>
                               /\ pc' \in {"status", "owner"}
                               /\ loopCounter' = loopCounter - 1
    BY <1>0, <2>1, InnerLeave DEF LeaveLoop
  <2>3. \A frame, point :
          Become(frame, point) => stack' # <<>> /\ pc' = point
    BY <1>0, <2>1, BecomeStack DEF Become
  <2>4. loopCounter' \in Nat
    BY LoopIInv, LoopsFinite DEF CInv, IInv, StackOK
  <2>5. CASE LoopReturns
    BY <1>0, <2>1, <2>2, <2>4, <2>5 DEF LoopReturns
  <2>6. CASE LoopBreaks
    BY <1>0, <2>1, <2>2, <2>6 DEF LoopBreaks
  <2>7. CASE LoopContinues
    BY <1>0, <2>1, <2>2, <2>3, <2>7 DEF LoopContinues
  <2>8. CASE LoopProceeds
    BY <1>0, <2>1, <2>2, <2>3, <2>4, <2>8 DEF LoopProceeds
  <2> QED
    BY <2>5, <2>6, <2>7, <2>8 DEF Loop
<1>5. Iterate => PendingInv'
  <2> SUFFICES ASSUME Iterate PROVE PendingInv'
    OBVIOUS
  <2>1. stack # <<>> /\ Top.fn # "execute"
    BY <1>0 DEF Iterate
  <2>2. \/ \E frame : Become(frame, "pipeline")
        \/ \E status : Leave(status)
    BY DEF Iterate, LeaveLoop
  <2>3. stack' # <<>>
    BY <1>0, <2>1, <2>2, BecomeStack, InnerLeave
  <2>4. loopCounter' \in Nat
    BY LoopIInv, LoopsFinite DEF CInv, IInv, StackOK
  <2> QED
    BY <1>0, <2>3, <2>4 DEF Iterate
<1> QED
  BY <1>1, <1>2, <1>3, <1>4, <1>5

\* The stronger invariant of these programs is inductive.
LEMMA NextCInv ==
  ASSUME ~TrapActions, ~Fallthrough
  PROVE  CInv /\ [Next]_vars => CInv'
<1> SUFFICES ASSUME CInv, [Next]_vars PROVE CInv'
  OBVIOUS
<1>1. IInv'
  BY NextIInv DEF CInv
<1>2. PendingInv'
  <2>1. CASE UNCHANGED vars
    BY <2>1 DEF CInv, PendingInv, PendingWithinLoops, OnePending, Quiet,
                Unwinding, vars, flags
  <2>2. CASE Next
    <3>1. Exited => PendingInv'
      BY <2>1 DEF Exited
    <3> QED
      BY <2>2, <3>1, CommandPending, OwnerPending DEF Next
  <2> QED
    BY <2>1, <2>2
<1> QED
  BY <1>1, <1>2 DEF CInv

\* Initially nothing is pending.
LEMMA InitCInv == Init => CInv
BY InitIInv DEF Init, CInv, PendingInv, PendingWithinLoops, OnePending, Quiet,
                Unwinding

\* In a program without ";&" and without trap actions a pending break or
\* continue always finds the loops it asks for, and no other is pending.
THEOREM PendingIsConsistent ==
  ASSUME ~TrapActions, ~Fallthrough
  PROVE  Spec => []PendingAddsUp
<1>1. Init => CInv
  BY InitCInv
<1>2. CInv /\ [Next]_vars => CInv'
  BY NextCInv
<1>3. CInv => PendingAddsUp
  BY DEF CInv, PendingInv, PendingAddsUp
<1> QED
  BY <1>1, <1>2, <1>3, PTL DEF Spec

\* While something is pending the executor only returns from lists, or has
\* ended.
LEMMA UnwindingSteps ==
  ASSUME CInv, Unwinding, Next
  PROVE  /\ pc # "exited" => stack # <<>>
         /\ \/ AfterPipeline \/ Exited
            \/ Execute \/ Group \/ Subshell \/ IfClause \/ CaseItem
            \/ Function \/ Loop
<1>1. /\ pc \in {"status", "owner", "exited"}
      /\ pc # "exited" => stack # <<>>
  BY DEF CInv, IInv, StackOK, ShapeOf, PendingInv, Quiet, Points
<1>2. CASE pc = "status"
  BY <1>1, <1>2 DEF Next, ReadCommand, SyntaxError, EndOfFile, NextPipeline,
                    ForkPipeline,
                    RunTrapAction, OrdinaryCommand, ShBreak, ShContinue,
                    ShReturn, ShExit, Eval, CallFunction, Fork, BraceGroup,
                    If, EnterLoop, Case, Executing, ExecutingSimple, Iterate
<1>3. CASE pc = "exited"
  BY <1>1, <1>3 DEF Next, ReadCommand, SyntaxError, EndOfFile, NextPipeline,
                    ForkPipeline,
                    RunTrapAction, OrdinaryCommand, ShBreak, ShContinue,
                    ShReturn, ShExit, Eval, CallFunction, Fork, BraceGroup,
                    If, EnterLoop, Case, Executing, ExecutingSimple, Iterate
<1>4. CASE pc = "owner"
  BY <1>1, <1>4 DEF Next, ReadCommand, SyntaxError, EndOfFile, NextPipeline,
                    ForkPipeline,
                    RunTrapAction, OrdinaryCommand, ShBreak, ShContinue,
                    ShReturn, ShExit, Eval, CallFunction, Fork, BraceGroup,
                    If, EnterLoop, Case, Executing, ExecutingSimple, Iterate
<1> QED
  BY <1>1, <1>2, <1>3, <1>4

\* While something is pending no call is made and no command is started.
LEMMA QuietStep ==
  ASSUME CInv, ~TrapActions, ~Fallthrough, Unwinding, Next
  PROVE  pc' # "command" /\ Len(stack') <= Len(stack)
<1> DEFINE Goal == pc' # "command" /\ Len(stack') <= Len(stack)
<1>1. StackOK /\ Len(stack) \in Nat
  BY DEF CInv, IInv, StackOK
<1>2. ASSUME stack # <<>>, NEW status, Leave(status) PROVE Goal
  <2>1. Len(Callers) = Len(stack) - 1
    BY <1>1, <1>2, AllButLastProperties DEF StackOK, Callers
  <2> QED
    BY <1>1, <1>2, <2>1, PointAfterType DEF Leave
<1>3. ASSUME stack # <<>>, NEW frame, NEW point, point # "command",
             Become(frame, point)
      PROVE  Goal
  <2>1. DOMAIN stack' = DOMAIN stack /\ DOMAIN stack = 1..Len(stack)
    BY <1>1, <1>3, LenProperties DEF Become, StackOK
  <2>2. Len(stack') = Len(stack)
    BY <1>1, <1>3 DEF Become, StackOK
  <2> QED
    BY <1>1, <1>3, <2>2 DEF Become
<1>4. ASSUME UNCHANGED stack, pc' # "command" PROVE Goal
  BY <1>1, <1>4
<1>5. CASE AfterPipeline \/ Subshell \/ Exited
  BY <1>4, <1>5 DEF AfterPipeline, Subshell, Exit, Exited, vars
<1>6. CASE Execute
  <2>1. stack # <<>>
    BY <1>6, UnwindingSteps DEF Execute, Returned
  <2>2. Top.kind # "trap"
    BY <1>1, <2>1, TopType DEF FrameOK
  <2>3. \/ \E status : Leave(status)
        \/ Exit
    BY <1>6, <2>2 DEF Execute, ExitShell
  <2> QED
    BY <1>2, <1>4, <2>1, <2>3 DEF Exit
<1>7. CASE Group \/ IfClause \/ CaseItem \/ Function
  <2>1. stack # <<>>
    BY <1>7, UnwindingSteps
    DEF Group, IfClause, CaseItem, Function, Returned
  <2>2. \/ \E status : Leave(status)
        \/ \E frame : Become(frame, "pipeline")
    BY <1>7 DEF Group, IfClause, CaseItem, Function
  <2> QED
    BY <1>2, <1>3, <2>1, <2>2
<1>8. CASE Loop
  <2>1. stack # <<>>
    BY <1>8, UnwindingSteps DEF Loop, Returned
  <2>2. \/ \E status : Leave(status)
        \/ \E frame : Become(frame, "pipeline") \/ Become(frame, "iterate")
    BY <1>8 DEF Loop, LoopReturns, LoopBreaks, LoopContinues, LoopProceeds,
                LeaveLoop
  <2> QED
    BY <1>2, <1>3, <2>1, <2>2
<1> QED
  BY <1>5, <1>6, <1>7, <1>8, UnwindingSteps

\* A pending break or continue changes only together with loopCounter.
TargetKept ==
  /\ numBreaks > 0 =>
       loopCounter' - numBreaks' = loopCounter - numBreaks
  /\ numContinues > 1 =>
       loopCounter' - numContinues' = loopCounter - numContinues
  /\ numContinues = 1 => loopCounter' = loopCounter

\* Only a loop changes what is pending, and counts itself.
LEMMA TargetStep ==
  ASSUME CInv, ~TrapActions, ~Fallthrough, Next
  PROVE  TargetKept
<1>1. /\ numBreaks \in Nat
      /\ numContinues \in Nat
      /\ loopCounter \in Nat
      /\ OnePending
  BY LoopsFinite
  DEF CInv, IInv, StackOK, ScalarsOK, PendingInv
<1>2. CASE ~Unwinding
  BY <1>1, <1>2 DEF Unwinding, TargetKept
<1>3. ASSUME UNCHANGED << loopCounter, numBreaks, numContinues >>
      PROVE  TargetKept
  BY <1>1, <1>3 DEF TargetKept
<1>4. CASE Loop
  <2>1. CASE LoopReturns
    BY <1>1, <2>1 DEF LoopReturns, OnePending, TargetKept
  <2>2. CASE LoopBreaks
    BY <1>1, <2>2 DEF LoopBreaks, LeaveLoop, OnePending, TargetKept
  <2>3. CASE LoopContinues
    BY <1>1, <2>3 DEF LoopContinues, LeaveLoop, TargetKept
  <2>4. CASE LoopProceeds
    BY <1>2, <2>4 DEF LoopProceeds
  <2> QED
    BY <1>4, <2>1, <2>2, <2>3, <2>4 DEF Loop
<1>5. CASE Unwinding /\ ~Loop
  BY <1>3, <1>5, UnwindingSteps
  DEF AfterPipeline, Exited, Execute, Group, Subshell, IfClause, CaseItem,
      Function, flags, vars
<1> QED
  BY <1>2, <1>4, <1>5

\* In these programs nothing is executed between break, continue or return
\* and the loop or function they lead to.
THEOREM NothingIsExecutedWhileUnwinding ==
  ASSUME ~TrapActions, ~Fallthrough
  PROVE  Spec => NothingStartsWhileUnwinding
<1>1. Init => CInv
  BY InitCInv
<1>2. CInv /\ [Next]_vars => CInv'
  BY NextCInv
<1>3. CInv /\ [Next]_vars =>
        [Unwinding => pc' # "command" /\ Len(stack') <= Len(stack)]_vars
  BY QuietStep
<1> QED
  BY <1>1, <1>2, <1>3, PTL DEF Spec, NothingStartsWhileUnwinding

\* In these programs break n and continue n reach the loop they were meant
\* for: it stays the same on the way, loops of functions and evals between.
THEOREM TargetsAreFixed ==
  ASSUME ~TrapActions, ~Fallthrough
  PROVE  Spec => TargetIsFixed
<1>1. Init => CInv
  BY InitCInv
<1>2. CInv /\ [Next]_vars => CInv'
  BY NextCInv
<1>3. CInv /\ [Next]_vars =>
        [/\ numBreaks > 0 =>
              loopCounter' - numBreaks' = loopCounter - numBreaks
         /\ numContinues > 1 =>
              loopCounter' - numContinues' = loopCounter - numContinues
         /\ numContinues = 1 => loopCounter' = loopCounter]_vars
  BY TargetStep DEF TargetKept
<1> QED
  BY <1>1, <1>2, <1>3, PTL DEF Spec, TargetIsFixed

=============================================================================
