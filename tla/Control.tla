------------------------------ MODULE Control ------------------------------
(***************************************************************************)
(* The control flow of the shell's executor (execute.c): the C activations *)
(* of execute, executeList, executeCommand, executeFunction and of the     *)
(* compound commands, and the globals through which break, continue and    *)
(* return unwind them.                                                     *)
(*                                                                         *)
(* The program is chosen as it is executed: which pipeline comes next,     *)
(* which kind of command it is, whether a loop has another item.  eval and *)
(* the variables make a loop body differ from one iteration to the next,   *)
(* so this is what the executor has to cope with.  A shell forks by        *)
(* following either side: the parent sees some exit status, the child      *)
(* keeps the parent's globals and its stack, to which it never returns.    *)
(***************************************************************************)
EXTENDS Integers, Sequences, FiniteSets

CONSTANTS
  MaxDepth,     \* Bound: the activations on the stack.
  MaxOperand,   \* Bound: the largest operand of break and continue.
  Fallthrough,  \* Does the program end case items with ";&"?
  TrapActions   \* Does the program install trap actions?

ASSUME ControlAssumption ==
  /\ MaxDepth \in Nat \ {0}
  /\ MaxOperand \in Nat \ {0}
  /\ Fallthrough \in BOOLEAN
  /\ TrapActions \in BOOLEAN

VARIABLES
  stack,             \* The activations, innermost last.
  pc,                \* Where the innermost activation is, see Points.
  result,            \* The value a C call returns, 0 when none does.
  lastStatus,        \* The shell's $?.
  loopCounter,
  numBreaks,
  numContinues,
  returning,
  returnStatus,
  arguments,         \* Which call's positional parameters are in force.
  executingTrap,
  executingExitTrap

flags == << loopCounter, numBreaks, numContinues, returning, returnStatus >>
context == << arguments, executingTrap, executingExitTrap >>
vars == << stack, pc, result, lastStatus, flags, context >>

(***************************************************************************)
(* An activation.  "kind" tells apart the callers of execute, or the lists *)
(* of an if or a while; "saved" is what the function restores on its       *)
(* return: lastStatus in executeTrapAction, oldArguments in                *)
(* executeFunction; "status" is the local variable of that name.           *)
(***************************************************************************)
Statuses == {0, 1}
Activations == {"execute", "group", "if", "while", "for", "case",
                "function", "subshell", "member"}
Kinds == {"main", "eval", "dot", "trap", "exit", "substitution",
          "condition", "body", "item", "fall", "none"}
Frame == [fn : Activations, kind : Kinds, status : Statuses, saved : Nat]

Activation(fn, kind, saved) ==
  [fn |-> fn, kind |-> kind, status |-> 0, saved |-> saved]

(***************************************************************************)
(* "main": the loop of main; "pipeline": executeList is about to call      *)
(* executePipeline; "command": executeCommand has been called; "status":   *)
(* executePipeline's command has returned to executeList; "owner":         *)
(* executeList (or executeCommand, to executeFunction) has returned to the *)
(* innermost activation; "iterate": the head of a loop; "exited": the      *)
(* process has ended.                                                      *)
(***************************************************************************)
Points == {"main", "pipeline", "command", "status", "owner", "iterate",
           "exited"}

Top == stack[Len(stack)]
AllButLast(frames) == SubSeq(frames, 1, Len(frames) - 1)
Callers == AllButLast(stack)

Unwinding == returning \/ numBreaks > 0 \/ numContinues > 0

\* Where executeCommand's value goes: executeFunction and the child of
\* executePipeline call it themselves, all others through executeList.
PointAfter(callers) ==
  IF callers = <<>> THEN "main"
  ELSE IF callers[Len(callers)].fn \in {"function", "member"} THEN "owner"
  ELSE "status"

\* A command returns a status without an activation of its own.
Yield(status) ==
  /\ result' = status
  /\ pc' = PointAfter(stack)
  /\ UNCHANGED stack

\* The innermost activation returns.
Leave(status) ==
  /\ result' = status
  /\ stack' = Callers
  /\ pc' = PointAfter(Callers)

\* The innermost activation calls another one, which continues at point.
Enter(frame, point) ==
  /\ Len(stack) < MaxDepth
  /\ stack' = Append(stack, frame)
  /\ pc' = point
  /\ result' = 0

Become(frame, point) ==
  /\ stack' = [stack EXCEPT ![Len(stack)] = frame]
  /\ pc' = point
  /\ result' = 0

Exit ==
  /\ pc' = "exited"
  /\ result' = 0
  /\ UNCHANGED stack

(***************************************************************************)
(* exitShell: the EXIT trap runs if there is one, and at most once; the    *)
(* process ends afterwards.                                                *)
(***************************************************************************)
ExitShell(status) ==
  \/ /\ Exit
     /\ UNCHANGED << executingTrap, executingExitTrap >>
  \/ /\ TrapActions
     /\ ~executingExitTrap
     /\ executingExitTrap' = TRUE
     /\ executingTrap' = TRUE
     /\ Enter(Activation("execute", "exit", status), "pipeline")

(***************************************************************************)
(* main and executeList.                                                   *)
(***************************************************************************)
ReadCommand ==
  /\ pc = "main"
  /\ Enter(Activation("execute", "main", 0), "pipeline")
  /\ UNCHANGED << lastStatus, flags, context >>

SyntaxError ==
  /\ pc = "main"
  /\ lastStatus' = 1
  /\ UNCHANGED << stack, pc, result, flags, context >>

EndOfFile ==
  /\ pc = "main"
  /\ ExitShell(lastStatus)
  /\ UNCHANGED << lastStatus, flags, arguments >>

NextPipeline ==
  /\ pc = "pipeline"
  /\ pc' = "command"
  /\ UNCHANGED << stack, result, lastStatus, flags, context >>

\* A pipeline of several commands: the parent waits for some status, a child
\* executes one of the commands and exits.
ForkPipeline ==
  /\ pc = "pipeline"
  /\ \/ /\ result' \in Statuses
        /\ pc' = "status"
        /\ UNCHANGED stack
     \/ Enter(Activation("member", "none", 0), "command")
  /\ UNCHANGED << lastStatus, flags, context >>

\* The "!" in front of a pipeline, and the same with the operator "~".
NegationBitwise(status) == 0 - status - 1
Negation(status) == 1 - status

\* executeList without its test of the flags.
AfterPipelineUnchecked ==
  /\ pc = "status"
  /\ lastStatus' = result
  /\ result' = 0
  /\ pc' = "pipeline"
  /\ UNCHANGED << stack, flags, context >>

\* "&&" and "||" decide which pipeline is next, or that none is.
AfterPipeline ==
  /\ pc = "status"
  /\ \E bang \in BOOLEAN :
       LET status == IF bang THEN Negation(result) ELSE result IN
       /\ lastStatus' = status
       /\ \/ /\ Unwinding
             /\ pc' = "owner"
             /\ result' = 0
          \/ /\ ~Unwinding
             /\ pc' = "pipeline"
             /\ result' = 0
          \/ /\ ~Unwinding
             /\ pc' = "owner"
             /\ result' = status
  /\ UNCHANGED << stack, flags, context >>

(***************************************************************************)
(* executeCommand: first the pending traps, then the command.  The body of *)
(* a function is a compound command.                                       *)
(***************************************************************************)
Executing == pc = "command"
ExecutingSimple == pc = "command" /\ Top.fn # "function"

\* executeCommand without its test of executingTrap.
RunTrapActionNested ==
  /\ Executing \/ pc = "main"
  /\ TrapActions
  /\ executingTrap' = TRUE
  /\ Enter(Activation("execute", "trap", lastStatus), "pipeline")
  /\ UNCHANGED << lastStatus, flags, arguments, executingExitTrap >>

\* executeCommand, and the reader between two commands.
RunTrapAction ==
  /\ \/ Executing /\ ~executingTrap
     \/ pc = "main"
  /\ TrapActions
  /\ executingTrap' = TRUE
  /\ Enter(Activation("execute", "trap", lastStatus), "pipeline")
  /\ UNCHANGED << lastStatus, flags, arguments, executingExitTrap >>

\* A utility, another builtin, a redirection or an expansion that fails, a
\* for or case without items, the parent's side of a fork.
OrdinaryCommand ==
  /\ Executing
  /\ \E status \in Statuses : Yield(status)
  /\ UNCHANGED << lastStatus, flags, context >>

LeastUnclamped(m, n) == m
Least(m, n) == IF m <= n THEN m ELSE n

ShBreak ==
  /\ ExecutingSimple
  /\ IF loopCounter = 0
       THEN Yield(1) /\ UNCHANGED numBreaks
       ELSE /\ Yield(0)
            /\ \E breaks \in 1..MaxOperand :
                 numBreaks' = Least(breaks, loopCounter)
  /\ UNCHANGED << lastStatus, loopCounter, numContinues, returning,
                  returnStatus, context >>

ShContinue ==
  /\ ExecutingSimple
  /\ IF loopCounter = 0
       THEN Yield(1) /\ UNCHANGED numContinues
       ELSE /\ Yield(0)
            /\ \E continues \in 1..MaxOperand :
                 numContinues' = Least(continues, loopCounter)
  /\ UNCHANGED << lastStatus, loopCounter, numBreaks, returning,
                  returnStatus, context >>

\* The operand, or lastStatus, or 1 for a bad operand.
ShReturn ==
  /\ ExecutingSimple
  /\ returning' = TRUE
  /\ \E status \in Statuses :
       /\ returnStatus' = status
       /\ Yield(status)
  /\ UNCHANGED << lastStatus, loopCounter, numBreaks, numContinues, context >>

ShExit ==
  /\ ExecutingSimple
  /\ \E status \in Statuses :
       /\ lastStatus' = status
       /\ ExitShell(status)
  /\ UNCHANGED << flags, arguments >>

\* eval and dot parse their text and call execute.
Eval ==
  /\ ExecutingSimple
  /\ \E kind \in {"eval", "dot"} :
       Enter(Activation("execute", kind, 0), "pipeline")
  /\ UNCHANGED << lastStatus, flags, context >>

CallFunction ==
  /\ ExecutingSimple
  /\ Enter(Activation("function", "none", arguments), "command")
  /\ arguments' = Len(stack) + 1
  /\ UNCHANGED << lastStatus, flags, executingTrap, executingExitTrap >>

\* The child's side of a fork: a command substitution, a ( ) list.
Fork ==
  /\ Executing
  /\ \/ Enter(Activation("execute", "substitution", 0), "pipeline")
     \/ Enter(Activation("subshell", "none", 0), "pipeline")
  /\ UNCHANGED << lastStatus, flags, context >>

BraceGroup ==
  /\ Executing
  /\ Enter(Activation("group", "none", 0), "pipeline")
  /\ UNCHANGED << lastStatus, flags, context >>

If ==
  /\ Executing
  /\ Enter(Activation("if", "condition", 0), "pipeline")
  /\ UNCHANGED << lastStatus, flags, context >>

\* while and until differ in the condition's sense only.
EnterLoop ==
  /\ Executing
  /\ \/ Enter(Activation("while", "condition", 0), "iterate")
     \/ Enter(Activation("for", "body", 0), "iterate")
  /\ loopCounter' = loopCounter + 1
  /\ UNCHANGED << lastStatus, numBreaks, numContinues, returning,
                  returnStatus, context >>

\* The first item that matches; an item without a list that falls through
\* enters the inner loop directly.
Case ==
  /\ Executing
  /\ \/ Enter(Activation("case", "item", 0), "pipeline")
     \/ /\ Fallthrough
        /\ ~Unwinding
        /\ Enter(Activation("case", "fall", 0), "pipeline")
  /\ UNCHANGED << lastStatus, flags, context >>

(***************************************************************************)
(* What the activations do with the value of their list.                   *)
(***************************************************************************)
Returned(fn) == pc = "owner" /\ Top.fn = fn

\* execute clears returning whoever called it.
Execute ==
  /\ Returned("execute")
  /\ returning' = FALSE
  /\ LET value == IF returning THEN returnStatus ELSE result IN
     CASE Top.kind \in {"main", "eval", "dot"} ->
            /\ Leave(value)
            /\ UNCHANGED << lastStatus, context >>
       [] Top.kind = "trap" ->
            /\ executingTrap' = FALSE
            /\ lastStatus' = Top.saved
            /\ stack' = Callers
            /\ pc' = IF Callers = <<>> THEN "main" ELSE "command"
            /\ result' = 0
            /\ UNCHANGED << arguments, executingExitTrap >>
       [] Top.kind = "exit" ->
            /\ executingTrap' = FALSE
            /\ lastStatus' = Top.saved
            /\ Exit
            /\ UNCHANGED << arguments, executingExitTrap >>
       [] OTHER ->
            /\ ExitShell(lastStatus)
            /\ UNCHANGED << lastStatus, arguments >>
  /\ UNCHANGED << loopCounter, numBreaks, numContinues, returnStatus >>

Group ==
  /\ Returned("group")
  /\ Leave(result)
  /\ UNCHANGED << lastStatus, flags, context >>

Subshell ==
  /\ Returned("subshell") \/ Returned("member")
  /\ Exit
  /\ UNCHANGED << lastStatus, flags, context >>

\* A condition that fails is followed by the next one, by else or by
\* nothing.
IfClause ==
  /\ Returned("if")
  /\ \/ Top.kind = "condition" /\ Unwinding /\ Leave(0)
     \/ /\ Top.kind = "condition"
        /\ ~Unwinding
        /\ Become([Top EXCEPT !.kind = "body"], "pipeline")
     \/ /\ Top.kind = "condition"
        /\ ~Unwinding
        /\ result # 0
        /\ \/ Become(Top, "pipeline")
           \/ Leave(0)
     \/ Top.kind = "body" /\ Leave(result)
  /\ UNCHANGED << lastStatus, flags, context >>

CaseItem ==
  /\ Returned("case")
  /\ \/ Leave(result)
     \/ /\ Fallthrough
        /\ Top.kind = "item" => ~Unwinding
        /\ Become([Top EXCEPT !.kind = "fall"], "pipeline")
  /\ UNCHANGED << lastStatus, flags, context >>

\* A return that bypasses the clean-up.
FunctionWithoutCleanup ==
  /\ Returned("function")
  /\ Leave(IF returning THEN returnStatus ELSE result)
  /\ returning' = FALSE
  /\ arguments' = IF returning THEN arguments ELSE Top.saved
  /\ UNCHANGED << lastStatus, loopCounter, numBreaks, numContinues,
                  returnStatus, executingTrap, executingExitTrap >>

Function ==
  /\ Returned("function")
  /\ Leave(IF returning THEN returnStatus ELSE result)
  /\ returning' = FALSE
  /\ arguments' = Top.saved
  /\ UNCHANGED << lastStatus, loopCounter, numBreaks, numContinues,
                  returnStatus, executingTrap, executingExitTrap >>

(***************************************************************************)
(* Loops.  After a list returned, a pending return leaves the loop, then a *)
(* pending break, then a pending continue of an outer loop.                *)
(***************************************************************************)
LoopStatus == IF Top.kind = "body" THEN result ELSE Top.status

LeaveLoop(status) ==
  /\ Leave(status)
  /\ loopCounter' = loopCounter - 1

\* A return that leaves the loop uncounted.
LoopReturnsUncounted ==
  /\ returning
  /\ Leave(LoopStatus)
  /\ UNCHANGED << loopCounter, numBreaks, numContinues >>

LoopReturns ==
  /\ returning
  /\ LeaveLoop(LoopStatus)
  /\ UNCHANGED << numBreaks, numContinues >>

\* break n leaves one loop only.
LoopBreaksOnce ==
  /\ ~returning
  /\ numBreaks > 0
  /\ numBreaks' = 0
  /\ LeaveLoop(LoopStatus)
  /\ UNCHANGED numContinues

LoopBreaks ==
  /\ ~returning
  /\ numBreaks > 0
  /\ numBreaks' = numBreaks - 1
  /\ LeaveLoop(LoopStatus)
  /\ UNCHANGED numContinues

\* The loop that is continued does not take the continue back.
LoopContinuesForever ==
  /\ ~returning
  /\ numBreaks = 0
  /\ numContinues > 0
  /\ numContinues' = IF numContinues > 1 THEN numContinues - 1 ELSE 1
  /\ IF numContinues > 1
       THEN LeaveLoop(LoopStatus)
       ELSE /\ Become([Top EXCEPT !.status = LoopStatus], "iterate")
            /\ UNCHANGED loopCounter
  /\ UNCHANGED numBreaks

LoopContinues ==
  /\ ~returning
  /\ numBreaks = 0
  /\ numContinues > 0
  /\ numContinues' = numContinues - 1
  /\ IF numContinues > 1
       THEN LeaveLoop(LoopStatus)
       ELSE /\ Become([Top EXCEPT !.status = LoopStatus], "iterate")
            /\ UNCHANGED loopCounter
  /\ UNCHANGED numBreaks

\* The condition decides between the body and the end; a body is followed
\* by the next iteration.
LoopProceeds ==
  /\ ~Unwinding
  /\ \/ /\ Top.kind = "condition"
        /\ \/ /\ Become([Top EXCEPT !.kind = "body"], "pipeline")
              /\ UNCHANGED loopCounter
           \/ LeaveLoop(LoopStatus)
     \/ /\ Top.kind = "body"
        /\ Become([Top EXCEPT !.status = LoopStatus], "iterate")
        /\ UNCHANGED loopCounter
  /\ UNCHANGED << numBreaks, numContinues >>

Loop ==
  /\ Returned("while") \/ Returned("for")
  /\ LoopReturns \/ LoopBreaks \/ LoopContinues \/ LoopProceeds
  /\ UNCHANGED << lastStatus, returning, returnStatus, context >>

\* The head of a loop: a while evaluates its condition, a for takes its next
\* item or ends.
Iterate ==
  /\ pc = "iterate"
  /\ \/ /\ Top.fn = "while"
        /\ Become([Top EXCEPT !.kind = "condition"], "pipeline")
        /\ UNCHANGED loopCounter
     \/ /\ Top.fn = "for"
        /\ Become(Top, "pipeline")
        /\ UNCHANGED loopCounter
     \/ /\ Top.fn = "for"
        /\ LeaveLoop(Top.status)
  /\ UNCHANGED << lastStatus, numBreaks, numContinues, returning,
                  returnStatus, context >>

\* The process has ended.
Exited == pc = "exited" /\ UNCHANGED vars

Init ==
  /\ stack = <<>>
  /\ pc = "main"
  /\ result = 0
  /\ lastStatus = 0
  /\ loopCounter = 0
  /\ numBreaks = 0
  /\ numContinues = 0
  /\ returning = FALSE
  /\ returnStatus = 0
  /\ arguments = 0
  /\ executingTrap = FALSE
  /\ executingExitTrap = FALSE

Next ==
  \/ ReadCommand \/ SyntaxError \/ EndOfFile
  \/ NextPipeline \/ ForkPipeline \/ AfterPipeline
  \/ RunTrapAction \/ OrdinaryCommand
  \/ ShBreak \/ ShContinue \/ ShReturn \/ ShExit
  \/ Eval \/ CallFunction \/ Fork
  \/ BraceGroup \/ If \/ EnterLoop \/ Case
  \/ Execute \/ Group \/ Subshell \/ IfClause \/ CaseItem \/ Function
  \/ Loop \/ Iterate
  \/ Exited

Spec == Init /\ [][Next]_vars

\* The executor is sequential code: it goes on as long as it can.
FairSpec == Spec /\ WF_vars(Next)

(***************************************************************************)
(* Properties.                                                             *)
(***************************************************************************)

\* The types of the globals and of the activations: every status is what the
\* code computes one to be, 0 or 1, whatever is negated, saved or returned.
TypeOK ==
  /\ stack \in Seq(Frame)
  /\ pc \in Points
  /\ result \in Statuses
  /\ lastStatus \in Statuses
  /\ loopCounter \in Nat
  /\ numBreaks \in Nat
  /\ numContinues \in Nat
  /\ returning \in BOOLEAN
  /\ returnStatus \in Statuses
  /\ arguments \in Nat
  /\ executingTrap \in BOOLEAN
  /\ executingExitTrap \in BOOLEAN

\* loopCounter is the number of loops the process is in: every way out of a
\* loop undoes the increment, whatever functions, evals, traps and forks lie
\* between the loops (executeCompoundCommand, executeFor).
LoopsOf(frames) ==
  {i \in 1..Len(frames) : frames[i].fn \in {"while", "for"}}
LoopsCounted == loopCounter = Cardinality(LoopsOf(stack))

\* While a function runs the positional parameters are those of its call,
\* and those of the caller again afterwards, however the function ended
\* (executeFunction).
Calls == {i \in 1..Len(stack) : stack[i].fn = "function"}
ArgumentsOfInnermostCall ==
  IF Calls = {} THEN arguments = 0
  ELSE arguments \in Calls /\ \A i \in Calls : i <= arguments

\* A trap action is never interrupted by another trap action, only by the
\* EXIT trap that ends the process (executingTrap, executingExitTrap).
Actions(kind) == {i \in 1..Len(stack) : stack[i].kind = kind}
TrapActionsDoNotNest ==
  /\ Cardinality(Actions("trap")) <= 1
  /\ Cardinality(Actions("exit")) <= 1
  /\ \A i \in Actions("trap"), j \in Actions("exit") : i < j

\* A break or a continue never asks for more loops than there are (sh_break,
\* sh_continue and the loops).
PendingWithinLoops ==
  /\ numBreaks <= loopCounter
  /\ numContinues <= loopCounter

OnePending ==
  /\ numBreaks = 0 \/ numContinues = 0
  /\ returning => numBreaks = 0 /\ numContinues = 0
  /\ stack = <<>> => ~Unwinding

\* At most one of break, continue and return is pending, for loops that there
\* are, and nothing is pending at the top level: whoever calls executeList
\* looks at all three and takes back what has arrived.
PendingAddsUp == PendingWithinLoops /\ OnePending

\* Once break n or continue n has been executed, the loop it leaves or
\* continues stays the same until it is reached: each loop left on the way
\* counts once, and the last continue leaves none.
TargetIsFixed ==
  [][/\ numBreaks > 0 =>
         loopCounter' - numBreaks' = loopCounter - numBreaks
     /\ numContinues > 1 =>
         loopCounter' - numContinues' = loopCounter - numContinues
     /\ numContinues = 1 => loopCounter' = loopCounter]_vars

\* After break, continue or return nothing is executed any more until the
\* loop or the function is reached.
NothingStartsWhileUnwinding ==
  [][Unwinding => pc' # "command" /\ Len(stack') <= Len(stack)]_vars

\* Every break, continue and return arrives, or the process ends.
UnwindingEnds == Unwinding ~> (~Unwinding \/ pc = "exited")

=============================================================================
