----------------------------- MODULE LineEditor -----------------------------
(***************************************************************************)
(* What the line editor promises: it shows one of the lines of the history *)
(* or a new one, and the keys change what is shown.  The history gets the  *)
(* line that is entered; a line of it changes only if the user edits it    *)
(* and then leaves it for another one, or by a completion.                 *)
(***************************************************************************)
EXTENDS Integers, Sequences

CONSTANTS Characters, EndOfFile, Nothing

VARIABLES
  lines,      \* The history, and behind it the new line.
  at,         \* Which of them is shown.
  shown, cursor,
  touched,    \* Is it an edited line of the history?
  returned    \* What the last call has returned, without the newline.

vars == << lines, at, shown, cursor, touched, returned >>

New == Len(lines)
History == SubSeq(lines, 1, New - 1)

Shows(i) ==
  /\ at' = i
  /\ shown' = lines'[i]
  /\ cursor' = Len(lines'[i])
  /\ touched' = FALSE

Starts(history) == lines' = Append(history, <<>>) /\ Shows(New')

Init ==
  /\ lines = << <<>> >> /\ at = 1
  /\ shown = <<>> /\ cursor = 0 /\ touched = FALSE
  /\ returned = Nothing

Prompt == returned' = Nothing /\ UNCHANGED << lines, at, shown, cursor, touched >>

\* Of the lines only the new one changes at once, or the one that is completed.
Becomes(text, place, atOnce) ==
  /\ shown' = text
  /\ cursor' = place
  /\ lines' = IF at = New \/ atOnce THEN [lines EXCEPT ![at] = text] ELSE lines
  /\ touched' = (at # New /\ ~atOnce)
  /\ UNCHANGED << at, returned >>

Insert(c, atOnce) ==
  Becomes(SubSeq(shown, 1, cursor) \o << c >>
            \o SubSeq(shown, cursor + 1, Len(shown)), cursor + 1, atOnce)

Type(c) == Insert(c, FALSE)
Complete(c) == Insert(c, ~touched)

Without(i) == SubSeq(shown, 1, i - 1) \o SubSeq(shown, i + 1, Len(shown))
Erase ==
  \/ cursor > 0 /\ Becomes(Without(cursor), cursor - 1, FALSE)
  \/ cursor < Len(shown) /\ Becomes(Without(cursor + 1), cursor, FALSE)

\* A key that has nothing to erase makes it an edited line nevertheless.
Touch == cursor \in {0, Len(shown)} /\ Becomes(shown, cursor, FALSE)

Move ==
  /\ cursor' \in {cursor - 1, cursor + 1} \cap 0..Len(shown)
  /\ UNCHANGED << lines, at, shown, touched, returned >>

Recall ==
  \E i \in {at - 1, at + 1} \cap DOMAIN lines :
    /\ lines' = [lines EXCEPT ![at] = shown]
    /\ Shows(i)
    /\ UNCHANGED returned

\* The line that is returned is the last one of the history. An empty line is
\* told from the end of the file; if the last line of the history has been
\* emptied, that one decides.
Return(wanted) ==
  LET repeats == History # <<>> /\ shown = lines[New - 1]
  IN  /\ IF shown # <<>> THEN returned' = shown
         ELSE returned' \in {wanted} \cup (IF repeats THEN {<<>>, EndOfFile} ELSE {})
      /\ Starts(IF shown = <<>> \/ repeats THEN History ELSE Append(History, shown))

Forget == Starts(<<>>) /\ returned' = Nothing

Next ==
  \/ Prompt \/ Erase \/ Touch \/ Move \/ Recall \/ Forget
  \/ \E c \in Characters : Type(c) \/ Complete(c)
  \/ \E wanted \in {<<>>, EndOfFile} : Return(wanted)

Spec == Init /\ [][Next]_vars

=============================================================================
