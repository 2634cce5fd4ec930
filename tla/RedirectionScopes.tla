------------------------- MODULE RedirectionScopes -------------------------
(***************************************************************************)
(* What redirections promise.  The redirections of a command are a scope:  *)
(* they hold while it is executed, and when it ends, or when one of them   *)
(* fails, each descriptor they name is again what it was outside.  The     *)
(* redirections of exec stay.                                              *)
(***************************************************************************)
EXTENDS Integers, Sequences

CONSTANTS
  Descriptors,   \* The descriptors a script can name, 0 to 9 in C.
  Values         \* What a descriptor can refer to, or that it is closed.

VARIABLES
  descriptors,
  scopes         \* For each command that is executed, innermost last: what
                 \* the descriptors it redirects are outside of it.

vars == << descriptors, scopes >>

Last == Len(scopes)
Outer == SubSeq(scopes, 1, Last - 1)
NoRedirections == [fd \in {} |-> fd]

Init ==
  /\ descriptors \in [Descriptors -> Values]
  /\ scopes = <<>>

Enter ==
  /\ scopes' = Append(scopes, NoRedirections)
  /\ UNCHANGED descriptors

\* The first redirection of a descriptor in a scope decides.
Naming(scope, fd) ==
  [d \in DOMAIN scope \cup {fd} |->
     IF d \in DOMAIN scope THEN scope[d] ELSE descriptors[d]]

Redirect ==
  /\ scopes # <<>>
  /\ \E fd \in Descriptors, value \in Values :
       /\ descriptors' = [descriptors EXCEPT ![fd] = value]
       /\ scopes' = [scopes EXCEPT ![Last] = Naming(scopes[Last], fd)]

Leave ==
  /\ scopes # <<>>
  /\ descriptors' = [fd \in Descriptors |->
                       IF fd \in DOMAIN scopes[Last] THEN scopes[Last][fd]
                       ELSE descriptors[fd]]
  /\ scopes' = Outer

\* The builtin exec.
Exec ==
  /\ \E fd \in Descriptors, value \in Values :
       descriptors' = [descriptors EXCEPT ![fd] = value]
  /\ UNCHANGED scopes

\* A child, whose input and output may be pipes, or a script that is executed
\* in this process: the scopes of the caller are no longer left.
Detach ==
  /\ \E inPipe, outPipe \in Values :
       descriptors' \in {descriptors,
                         [descriptors EXCEPT ![0] = inPipe],
                         [descriptors EXCEPT ![1] = outPipe],
                         [descriptors EXCEPT ![0] = inPipe, ![1] = outPipe]}
  /\ scopes' \in {<<>>, << NoRedirections >>}

Next == Enter \/ Redirect \/ Leave \/ Exec \/ Detach

Spec == Init /\ [][Next]_vars

=============================================================================
