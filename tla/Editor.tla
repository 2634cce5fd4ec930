------------------------------- MODULE Editor -------------------------------
(***************************************************************************)
(* The line editor and its history (interactive.c).  Each line has a       *)
(* buffer in memory; the entries of the history, the new line and the      *)
(* recalled line that is being edited own one each, and the editor passes  *)
(* them from one to the other.  readCommandInteractive returns a pointer   *)
(* to one of them.                                                         *)
(*                                                                         *)
(* A key is one step, also if it sends several characters.  Drawing is     *)
(* left out, and which completions there are.                              *)
(***************************************************************************)
EXTENDS Integers, SequencesExt

CONSTANTS
  Buffers,       \* The places in memory for buffers.
  Characters,
  Free,          \* What is no buffer.
  MaxCharacters, \* Bound: the characters of all lines together.
  MaxHistory,    \* Bound: the entries of the history.
  EndOfFile,     \* The call has returned false,
  Nothing        \* or not yet.

ASSUME EditorAssumption == MaxCharacters \in Nat /\ MaxHistory \in Nat

\* There is memory for the lines of the history, a new and an edited one.
ASSUME MemoryAssumption ==
  IsFiniteSet(Buffers) /\ Cardinality(Buffers) >= MaxHistory + 2

VARIABLES
  editor,   \* The memory, the history and the local variables, see Editors.
  phase,    \* Is a line read, is this a script, or has the shell ended?
  line      \* What the last call has returned.

vars == << editor, phase, line >>

\* A buffer has the bufferUsed characters of the line and further ones, which
\* matter if there are none: an empty line is told from the end of the input by
\* its first byte.
Contents == [text : Seq(Characters), first : {"junk", "NUL", "other"}]

NewlineString == "newline"    \* The constant "\n".

ASSUME NamesAssumption ==
  /\ {NewlineString, EndOfFile, Nothing} \cap Buffers = {}
  /\ NewlineString \notin {EndOfFile, Nothing}
  /\ Free \notin Contents

\* The field entry says where the pointer of that name points to: historyEdited
\* is entry = "edited".
Editors ==
  [heap : [Buffers -> Contents \cup {Free}],
   history : Seq(Buffers),
   new : Buffers, edited : Buffers,
   entry : {"new", "edited", "recalled"},
   historyPosition : Nat,
   position : Nat]

Fresh(text) ==
  [text |-> text, first |-> IF text = <<>> THEN "junk" ELSE "other"]

Recalled(m) == m.historyPosition + 1
EntryOf(m) ==
  CASE m.entry = "new" -> m.new
    [] m.entry = "edited" -> m.edited
    [] m.entry = "recalled" -> m.history[Recalled(m)]
Text(m) == m.heap[EntryOf(m)].text

\* The buffers that can still be reached. A place that no pointer leads to is
\* as good as free, and malloc gives one of these.
Owned(m) ==
  Range(m.history) \cup {m.new}
    \cup (IF m.entry = "edited" THEN {m.edited} ELSE {})
RoomIn(m) == MapThenSumSet(LAMBDA b : Len(m.heap[b].text), Owned(m)) < MaxCharacters

Malloc(owned) == CHOOSE b \in Buffers : b \notin owned
Nowhere == Malloc({})

-----------------------------------------------------------------------------

\* Deviation: the edited entry and the history share the buffer.
BeginEditInPlace(m) ==
  IF m.entry # "recalled" THEN m
  ELSE [m EXCEPT !.edited = m.history[Recalled(m)], !.entry = "edited"]

\* beginEdit, if a recalled line has not been edited before: the edited entry
\* gets its buffer, and the history a copy.
BeginEdit(m) ==
  LET old == m.history[Recalled(m)]
      text == m.heap[old].text
      copy == Malloc(Owned(m))
  IN  IF m.entry # "recalled" THEN m
      ELSE [m EXCEPT
              !.heap[copy] = Fresh(text),
              !.history[Recalled(m)] = copy,
              !.edited = old,
              !.entry = "edited"]

AddToBuffer(m, c) ==
  LET more == [m.heap[EntryOf(m)] EXCEPT
                 !.text = InsertAt(@, m.position + 1, c),
                 !.first = "other"]
  IN  [m EXCEPT !.heap[EntryOf(m)] = more, !.position = @ + 1]

\* delete: the character at an offset.
DeleteAt(m, at) ==
  [m EXCEPT !.heap[EntryOf(m)].text = RemoveAt(@, at + 1), !.position = at]

\* Deviation: the edited line is dropped.
DropEdit(m) ==
  IF m.entry # "edited" THEN m
  ELSE [m EXCEPT !.heap[m.edited] = Free, !.edited = Nowhere]

\* The edited line replaces the recalled one, of which the buffer is freed.
KeepEdit(m) ==
  IF m.entry # "edited" THEN m
  ELSE [m EXCEPT !.heap[m.history[Recalled(m)]] = Free,
                 !.history[Recalled(m)] = m.edited,
                 !.edited = Nowhere]

Recall(m, to) ==
  LET kept == [KeepEdit(m) EXCEPT
                 !.historyPosition = to,
                 !.entry = IF to = Len(m.history) THEN "new" ELSE "recalled"]
  IN  [kept EXCEPT !.position = Len(Text(kept))]

\* The end of the call: what is returned, and the history behind it. The line
\* of the last entry is not added again, but that entry returned. A recalled
\* line is added as a copy.
Return(m) ==
  LET repeats == m.history # <<>> /\ Text(m) = m.heap[Last(m.history)].text
      pointer == IF repeats THEN "recalled" ELSE m.entry
      b == IF repeats THEN Last(m.history) ELSE EntryOf(m)
      freed == IF pointer = "new" /\ Text(m) # <<>> THEN m
               ELSE [m EXCEPT !.heap[m.new] = Free]
      copy == Malloc(Range(m.history))
      kept == CASE repeats \/ Text(m) = <<>> -> freed
                [] pointer = "recalled" /\ ~repeats /\ Text(m) # <<>> ->
                     [freed EXCEPT !.heap[copy] = m.heap[b],
                                   !.history = Append(@, copy)]
                [] OTHER -> [freed EXCEPT !.history = Append(@, b)]
      lines == IF Text(m) # <<>> THEN {b}
               ELSE CASE m.heap[b].first = "NUL" -> {EndOfFile}
                      [] m.heap[b].first = "other" -> {NewlineString}
                      [] m.heap[b].first = "junk" -> {EndOfFile, NewlineString}
  IN  {[editor |-> kept, line |-> l] : l \in lines}

\* The local variables are gone; buffers that only they have led to are leaked.
Forget(m) ==
  LET owned == Range(m.history)
  IN  [m EXCEPT !.heap = [b \in Buffers |-> IF b \in owned THEN @[b] ELSE Free],
                !.new = Malloc(owned), !.edited = Nowhere, !.entry = "new",
                !.historyPosition = Len(m.history), !.position = 0]

-----------------------------------------------------------------------------

TypeOK ==
  /\ editor \in Editors
  /\ phase \in {"prompt", "reading", "script", "over", "crashed"}
  /\ line \in Buffers \cup {NewlineString, EndOfFile, Nothing}

\* initializeInteractive
Init ==
  /\ editor = [heap |-> [b \in Buffers |-> Free], history |-> <<>>,
               new |-> Nowhere, edited |-> Nowhere, entry |-> "new",
               historyPosition |-> 0, position |-> 0]
  /\ phase = "prompt"
  /\ line = Nothing

\* The beginning of readCommandInteractive, for a command or another line of it.
BeginLine ==
  /\ phase = "prompt"
  /\ editor' = [editor EXCEPT !.heap[editor.new] = Fresh(<<>>)]
  /\ phase' = "reading"
  /\ line' = Nothing

Reading == phase = "reading"
InScript == phase \in {"script", "crashed"}
Key == Reading /\ UNCHANGED << phase, line >>

AddCharacter ==
  /\ Key
  /\ RoomIn(editor)
  /\ \E c \in Characters : editor' = AddToBuffer(BeginEdit(editor), c)

Backspace ==
  /\ Key
  /\ editor' = LET m == BeginEdit(editor)
               IN  IF m.position = 0 THEN m ELSE DeleteAt(m, m.position - 1)

DeleteKey ==
  /\ Key
  /\ editor' = LET m == BeginEdit(editor)
               IN  IF m.position = Len(Text(m)) THEN m ELSE DeleteAt(m, m.position)

\* Deviation: the cursor leaves the line.
LeftOfAll == Key /\ editor' = [editor EXCEPT !.position = @ - 1]

Left ==
  /\ Key
  /\ editor.position > 0
  /\ editor' = [editor EXCEPT !.position = @ - 1]

Right ==
  /\ Key
  /\ editor.position < Len(Text(editor))
  /\ editor' = [editor EXCEPT !.position = @ + 1]

Up ==
  /\ Key
  /\ editor.historyPosition > 0
  /\ editor' = Recall(editor, editor.historyPosition - 1)

Down ==
  /\ Key
  /\ editor.historyPosition < Len(editor.history)
  /\ editor' = Recall(editor, editor.historyPosition + 1)

\* tab: a completion, here a character, is added to the line, which may be a
\* recalled one that has not been edited.
Tab ==
  /\ Key
  /\ RoomIn(editor) /\ Text(editor) # <<>>
  /\ \E c \in Characters : editor' = AddToBuffer(editor, c)

EndLine(m) ==
  \E r \in Return(m) :
    /\ Len(r.editor.history) <= MaxHistory
    /\ editor' = Forget(r.editor)
    /\ line' = r.line

Enter ==
  /\ Reading
  /\ EndLine([editor EXCEPT !.heap[EntryOf(editor)].first = "other"])
  /\ phase' = "prompt"

\* In front of a command the end of the file ends the shell, which the main
\* loop notices when the call has returned.
ControlD ==
  /\ Reading
  /\ Text(editor) = <<>>
  /\ EndLine([editor EXCEPT !.heap[EntryOf(editor)].first = "NUL"])
  /\ phase' \in {"prompt", "over"}

\* read fails, or the terminal is gone, and will fail again: what the shell does
\* then is left out.
ReadFails ==
  /\ Reading
  /\ EndLine(editor)
  /\ phase' = "over"

\* executeScript, in the shell or in a child of it, with freeInteractive. What
\* reads the script is not the line editor, but the pointers stay: a script that
\* is executed by a script has them, and frees the buffers again. That is taken
\* for a crash, though it could also go on.
ExecuteScript ==
  /\ phase \in {"prompt", "script"}
  /\ editor.history # <<>>
  /\ editor' = [Forget(editor) EXCEPT !.heap = [b \in Buffers |-> Free]]
  /\ phase' = IF \E b \in Range(editor.history) : editor.heap[b] = Free
              THEN "crashed" ELSE "script"
  /\ line' = Nothing

Over == phase \in {"over", "crashed"} /\ UNCHANGED vars

Next ==
  \/ BeginLine \/ AddCharacter \/ Backspace \/ DeleteKey \/ Left \/ Right
  \/ Up \/ Down \/ Tab \/ Enter \/ ControlD \/ ReadFails \/ ExecuteScript
  \/ Over

Spec == Init /\ [][Next]_vars

-----------------------------------------------------------------------------

(* beginEdit, the keys and the end of the call pass buffers on and free them:
   no two of the lines that are kept share a buffer, and none is freed. A
   shared one would be freed twice by freeInteractive. *)
BuffersAreOwned ==
  LET lines == editor.history
                 \o (IF Reading THEN << editor.new >> ELSE <<>>)
                 \o (IF editor.entry = "edited" THEN << editor.edited >> ELSE <<>>)
  IN  /\ IsInjective(lines)
      /\ InScript \/ \A b \in Range(lines) : editor.heap[b] # Free

(* What readCommandInteractive promises: LineEditor, which knows no buffers. A
   line that is returned is that of an entry of the history. *)
EditedLines ==
  INSTANCE LineEditor WITH
    lines <- (IF InScript THEN <<>>
              ELSE [i \in DOMAIN editor.history |->
                      editor.heap[editor.history[i]].text])
               \o << IF Reading THEN editor.heap[editor.new].text ELSE <<>> >>,
    at <- IF InScript THEN 1 ELSE Recalled(editor),
    shown <- IF Reading THEN Text(editor) ELSE <<>>,
    cursor <- editor.position,
    touched <- editor.entry = "edited",
    returned <- IF line \in Range(editor.history) THEN editor.heap[line].text
                ELSE IF line = NewlineString THEN <<>> ELSE line
EditsLines == EditedLines!Spec

=============================================================================
