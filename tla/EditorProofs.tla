---------------------------- MODULE EditorProofs ----------------------------
(***************************************************************************)
(* Proofs about Editor, for any number of lines and characters: the types, *)
(* that no two lines share a buffer and none is freed while it is used,    *)
(* and that the editor does what LineEditor promises.                      *)
(*                                                                         *)
(* The invariant EInv says how the pointers of the editor are related; an  *)
(* operation of the editor is described by what it does to the texts.      *)
(***************************************************************************)
EXTENDS Editor, FiniteSetTheorems, SequenceTheorems, TLAPS

(***************************************************************************)
(* The invariant.                                                          *)
(***************************************************************************)
Places(m) == 1..Len(m.history)

\* The entries of the history, the new line and the edited one have buffers of
\* their own.
Separate(m) ==
  /\ \A i, j \in Places(m) : m.history[i] = m.history[j] => i = j
  /\ \A i \in Places(m) : m.history[i] # m.new
  /\ m.entry = "edited" => /\ m.edited # m.new
                           /\ \A i \in Places(m) : m.history[i] # m.edited

Good(m) ==
  /\ m \in Editors
  /\ Len(m.history) <= MaxHistory
  /\ m.historyPosition <= Len(m.history)
  /\ m.entry = "new" <=> m.historyPosition = Len(m.history)
  /\ Separate(m)

\* The buffers have not been freed.
Kept(m) == \A i \in Places(m) : m.heap[m.history[i]] \in Contents
Written(m) ==
  /\ Kept(m)
  /\ m.heap[m.new] \in Contents
  /\ m.entry = "edited" => m.heap[m.edited] \in Contents

\* A line is edited, with the cursor in it.
Edits(m) == Good(m) /\ Written(m) /\ m.position <= Len(Text(m))

\* Between two lines.
Rests(m) == Good(m) /\ m.entry = "new" /\ m.position = 0

EInv ==
  /\ phase \in {"prompt", "reading", "script", "over", "crashed"}
  /\ line \in Buffers \cup {NewlineString, EndOfFile, Nothing}
  /\ Reading => Edits(editor) /\ line = Nothing
  /\ ~Reading => Rests(editor)
  /\ ~InScript => Kept(editor)
  /\ InScript => line = Nothing

\* What LineEditor knows of an editor.
Texts(m) == [i \in DOMAIN m.history |-> m.heap[m.history[i]].text]
NewText(m) == m.heap[m.new].text

(***************************************************************************)
(* Memory.                                                                 *)
(***************************************************************************)
\* There is a buffer besides those of the history and another one.
LEMMA MallocIs ==
  ASSUME NEW h \in Seq(Buffers), Len(h) <= MaxHistory, NEW x,
         NEW S, S \subseteq Range(h) \cup {x}
  PROVE  Malloc(S) \in Buffers /\ Malloc(S) \notin S
<1>1. /\ MaxHistory \in Nat /\ Len(h) \in Nat
      /\ IsFiniteSet(Buffers) /\ Cardinality(Buffers) >= MaxHistory + 2
      /\ h \in [1..Len(h) -> Buffers]
  BY EditorAssumption, MemoryAssumption
<1>2. IsFiniteSet(1..Len(h)) /\ Cardinality(1..Len(h)) = Len(h)
  <2>1. 1 \in Int /\ Len(h) \in Int /\ (1 > Len(h) => Len(h) = 0)
        /\ Len(h) - 1 + 1 = Len(h)
    BY <1>1
  <2>2. \A b \in Int : /\ IsFiniteSet(1..b)
                      /\ Cardinality(1..b) = IF 1 > b THEN 0 ELSE b - 1 + 1
    BY FS_Interval
  <2> QED
    BY <2>1, <2>2
<1>3. h \in Surjection(1..Len(h), Range(h))
  BY <1>1 DEF Surjection, Range
<1>4. IsFiniteSet(Range(h)) /\ Cardinality(Range(h)) <= Len(h)
  BY <1>2, <1>3, FS_Surjection
<1>5. /\ IsFiniteSet(Range(h) \cup {x})
      /\ Cardinality(Range(h) \cup {x}) <= Cardinality(Range(h)) + 1
      /\ Cardinality(Range(h)) \in Nat
  <2>1. Cardinality(Range(h)) \in Nat
    BY <1>4, FS_CardinalityType
  <2> QED
    BY <1>4, <2>1, FS_AddElement
<1>6. Cardinality(S) <= Cardinality(Range(h) \cup {x})
      /\ IsFiniteSet(S)
  BY <1>5, FS_Subset
<1>7. Cardinality(S) \in Nat /\ Cardinality(Range(h) \cup {x}) \in Nat
  BY <1>5, <1>6, FS_CardinalityType
<1>8. \E b \in Buffers : b \notin S
  <2> SUFFICES ASSUME Buffers \subseteq S PROVE FALSE
    OBVIOUS
  <2>1. Cardinality(Buffers) <= Cardinality(S) /\ Cardinality(Buffers) \in Nat
    BY <1>1, <1>6, FS_Subset, FS_CardinalityType
  <2> QED
    BY <1>1, <1>4, <1>5, <1>6, <1>7, <2>1
<1> QED
  BY <1>8 DEF Malloc

LEMMA NowhereIs == Nowhere \in Buffers
<1>1. << >> \in Seq(Buffers) /\ Len(<< >>) <= MaxHistory
  BY EditorAssumption
<1> QED
  BY <1>1, MallocIs DEF Nowhere

\* The fields of an editor.
LEMMA FieldsAre ==
  ASSUME NEW m \in Editors
  PROVE  /\ m.heap \in [Buffers -> Contents \cup {Free}]
         /\ m.history \in Seq(Buffers)
         /\ m.new \in Buffers /\ m.edited \in Buffers
         /\ m.entry \in {"new", "edited", "recalled"}
         /\ m.historyPosition \in Nat
         /\ m.position \in Nat
         /\ Len(m.history) \in Nat /\ DOMAIN m.history = Places(m)
         /\ Places(m) \subseteq Nat
         /\ \A i \in Places(m) : m.history[i] \in Buffers
         /\ Range(m.history) = {m.history[i] : i \in Places(m)}
<1>1. /\ m.heap \in [Buffers -> Contents \cup {Free}]
      /\ m.history \in Seq(Buffers)
      /\ m.new \in Buffers /\ m.edited \in Buffers
      /\ m.entry \in {"new", "edited", "recalled"}
      /\ m.historyPosition \in Nat
      /\ m.position \in Nat
  BY DEF Editors
<1> QED
  BY <1>1 DEF Places, Range

LEMMA PlacesAre ==
  ASSUME NEW m \in Editors, NEW i \in Places(m)
  PROVE  m.history[i] \in Range(m.history)
<1>1. DOMAIN m.history = Places(m)
  BY FieldsAre
<1> QED
  BY <1>1 DEF Range

\* The parts of a line's content.
LEMMA ContentsAre ==
  /\ \A c \in Contents : c.text \in Seq(Characters)
  /\ \A c \in Contents : c.first \in {"junk", "NUL", "other"}
  /\ \A t \in Seq(Characters) : Fresh(t) \in Contents /\ Fresh(t).text = t
  /\ Free \notin Contents
<1>1. \A t \in Seq(Characters) : Fresh(t) \in Contents /\ Fresh(t).text = t
  BY DEF Contents, Fresh
<1> QED
  BY <1>1, NamesAssumption DEF Contents

\* The line that is shown has a buffer, and the place of a recalled one.
LEMMA EntryIs ==
  ASSUME NEW m, Good(m), Written(m)
  PROVE  /\ EntryOf(m) \in Buffers /\ m.heap[EntryOf(m)] \in Contents
         /\ Text(m) = m.heap[EntryOf(m)].text
         /\ Text(m) \in Seq(Characters) /\ Len(Text(m)) \in Nat
         /\ m.entry # "new" => Recalled(m) \in Places(m)
         /\ m.entry = "new" => EntryOf(m) = m.new
         /\ m.entry = "edited" => EntryOf(m) = m.edited
         /\ m.entry = "recalled" => EntryOf(m) = m.history[Recalled(m)]
<1>1. m \in Editors
  BY DEF Good
<1>2. m.entry # "new" => Recalled(m) \in Places(m)
  BY <1>1, FieldsAre DEF Good, Recalled, Places
<1>3. /\ m.entry = "new" => EntryOf(m) = m.new
      /\ m.entry = "edited" => EntryOf(m) = m.edited
      /\ m.entry = "recalled" => EntryOf(m) = m.history[Recalled(m)]
  BY DEF EntryOf
<1>4. EntryOf(m) \in Buffers /\ m.heap[EntryOf(m)] \in Contents
  BY <1>1, <1>2, <1>3, FieldsAre DEF Written, Kept
<1>5. Text(m) = m.heap[EntryOf(m)].text /\ Text(m) \in Seq(Characters)
  BY <1>4, ContentsAre DEF Text
<1> QED
  BY <1>2, <1>3, <1>4, <1>5

\* The texts of the lines.
LEMMA TextsAre ==
  ASSUME NEW m \in Editors
  PROVE  /\ DOMAIN Texts(m) = Places(m)
         /\ \A i \in Places(m) : Texts(m)[i] = m.heap[m.history[i]].text
         /\ Kept(m) => Texts(m) \in Seq(Seq(Characters))
         /\ Kept(m) => Len(Texts(m)) = Len(m.history)
<1>1. /\ DOMAIN Texts(m) = Places(m)
      /\ \A i \in Places(m) : Texts(m)[i] = m.heap[m.history[i]].text
      /\ Len(m.history) \in Nat
  BY FieldsAre DEF Texts
<1>2. ASSUME Kept(m)
      PROVE  Texts(m) \in Seq(Seq(Characters)) /\ Len(Texts(m)) = Len(m.history)
  <2>1. \A i \in Places(m) : m.heap[m.history[i]].text \in Seq(Characters)
    BY <1>2, ContentsAre DEF Kept
  <2>2. Texts(m) = [i \in 1..Len(m.history) |-> m.heap[m.history[i]].text]
    BY FieldsAre DEF Texts, Places
  <2> QED
    BY <1>1, <2>1, <2>2 DEF Places
<1> QED
  BY <1>1, <1>2

\* The lines that LineEditor knows.
Lines(m) == Texts(m) \o << NewText(m) >>

LEMMA OneMoreIs ==
  ASSUME NEW S, NEW s \in Seq(S), NEW x \in S
  PROVE  /\ s \o << x >> \in Seq(S)
         /\ Len(s \o << x >>) = Len(s) + 1
         /\ DOMAIN (s \o << x >>) = 1..Len(s) + 1
         /\ \A i \in 1..Len(s) : (s \o << x >>)[i] = s[i]
         /\ (s \o << x >>)[Len(s) + 1] = x
<1>1. << x >> \in Seq(S) /\ Len(<< x >>) = 1 /\ << x >>[1] = x /\ Len(s) \in Nat
  OBVIOUS
<1>2. s \o << x >> \in Seq(S) /\ Len(s \o << x >>) = Len(s) + 1
  BY <1>1
<1>3. \A i \in 1..Len(s) + 1 :
        (s \o << x >>)[i] = IF i <= Len(s) THEN s[i] ELSE << x >>[i - Len(s)]
  BY <1>1
<1>4. Len(s) + 1 \in 1..Len(s) + 1 /\ ~(Len(s) + 1 <= Len(s))
      /\ Len(s) + 1 - Len(s) = 1
  BY <1>1
<1>5. (s \o << x >>)[Len(s) + 1] = x
  BY <1>1, <1>3, <1>4
<1> QED
  BY <1>1, <1>2, <1>3, <1>5

LEMMA LinesAre ==
  ASSUME NEW m, Good(m), Written(m)
  PROVE  /\ Lines(m) \in Seq(Seq(Characters))
         /\ Len(Lines(m)) = Len(m.history) + 1
         /\ DOMAIN Lines(m) = 1..Len(m.history) + 1
         /\ \A i \in Places(m) : Lines(m)[i] = m.heap[m.history[i]].text
         /\ Lines(m)[Len(m.history) + 1] = NewText(m)
         /\ SubSeq(Lines(m), 1, Len(m.history)) = Texts(m)
         /\ Recalled(m) \in DOMAIN Lines(m)
         /\ m.entry = "new" <=> Recalled(m) = Len(m.history) + 1
         /\ m.entry # "edited" => Lines(m)[Recalled(m)] = Text(m)
<1>1. /\ m \in Editors /\ m.historyPosition \in Nat /\ Len(m.history) \in Nat
      /\ m.historyPosition <= Len(m.history)
      /\ m.entry = "new" <=> m.historyPosition = Len(m.history)
      /\ m.entry \in {"new", "edited", "recalled"}
  BY FieldsAre DEF Good
<1>2. /\ DOMAIN Texts(m) = Places(m)
      /\ \A i \in Places(m) : Texts(m)[i] = m.heap[m.history[i]].text
      /\ Texts(m) \in Seq(Seq(Characters)) /\ Len(Texts(m)) = Len(m.history)
  BY <1>1, TextsAre DEF Written
<1>3. NewText(m) \in Seq(Characters)
  BY ContentsAre DEF NewText, Written
<1>4. /\ Lines(m) \in Seq(Seq(Characters))
      /\ Len(Lines(m)) = Len(m.history) + 1
      /\ DOMAIN Lines(m) = 1..Len(m.history) + 1
      /\ \A i \in Places(m) : Lines(m)[i] = Texts(m)[i]
      /\ Lines(m)[Len(m.history) + 1] = NewText(m)
  BY <1>1, <1>2, <1>3, OneMoreIs DEF Lines, Places
<1>5. SubSeq(Lines(m), 1, Len(m.history)) = Texts(m)
  <2>1. /\ SubSeq(Lines(m), 1, Len(m.history)) \in Seq(Seq(Characters))
        /\ Len(SubSeq(Lines(m), 1, Len(m.history))) = Len(m.history)
        /\ \A i \in Places(m) : SubSeq(Lines(m), 1, Len(m.history))[i] = Lines(m)[i]
    BY <1>1, <1>4 DEF Places
  <2> QED
    BY <1>2, <1>4, <2>1 DEF Places
<1>6. /\ Recalled(m) \in DOMAIN Lines(m)
      /\ m.entry = "new" <=> Recalled(m) = Len(m.history) + 1
  <2>1. Recalled(m) \in 1..Len(m.history) + 1
    BY <1>1 DEF Recalled
  <2>2. Recalled(m) = Len(m.history) + 1 <=> m.historyPosition = Len(m.history)
    BY <1>1 DEF Recalled
  <2> QED
    BY <1>1, <1>4, <2>1, <2>2
<1>7. m.entry # "edited" => Lines(m)[Recalled(m)] = Text(m)
  <2>1. CASE m.entry = "new"
    BY <1>4, <1>6, <2>1, EntryIs DEF NewText
  <2>2. CASE m.entry = "recalled"
    BY <1>2, <1>4, <2>2, EntryIs
  <2> QED
    BY <1>1, <2>1, <2>2
<1> QED
  BY <1>2, <1>4, <1>5, <1>6, <1>7

\* Two editors have the same lines but for one of them.
Differ(m, n, at, text) ==
  /\ at \in 1..Len(m.history) + 1
  /\ Len(n.history) = Len(m.history)
  /\ \A i \in Places(m) :
       n.heap[n.history[i]].text
         = IF i = at THEN text ELSE m.heap[m.history[i]].text
  /\ NewText(n) = IF at = Len(m.history) + 1 THEN text ELSE NewText(m)

LEMMA LinesDiffer ==
  ASSUME NEW m, Good(m), Written(m), NEW n, Good(n), Written(n),
         NEW at, NEW text, Differ(m, n, at, text)
  PROVE  Lines(n) = [Lines(m) EXCEPT ![at] = text]
<1> USE DEF Differ
<1>1. Len(m.history) \in Nat
  BY FieldsAre DEF Good
<1>2. /\ DOMAIN Lines(m) = 1..Len(m.history) + 1
      /\ \A i \in Places(m) : Lines(m)[i] = m.heap[m.history[i]].text
      /\ Lines(m)[Len(m.history) + 1] = NewText(m)
      /\ Lines(m) \in Seq(Seq(Characters))
  BY LinesAre
<1>3. /\ DOMAIN Lines(n) = 1..Len(m.history) + 1
      /\ \A i \in Places(m) : Lines(n)[i] = n.heap[n.history[i]].text
      /\ Lines(n)[Len(m.history) + 1] = NewText(n)
      /\ Lines(n) \in Seq(Seq(Characters))
  BY LinesAre DEF Places
<1>4. \A i \in 1..Len(m.history) + 1 : i \in Places(m) \/ i = Len(m.history) + 1
  BY <1>1 DEF Places
<1>5. \A i \in 1..Len(m.history) + 1 :
        Lines(n)[i] = IF i = at THEN text ELSE Lines(m)[i]
  <2> SUFFICES ASSUME NEW i \in 1..Len(m.history) + 1
               PROVE  Lines(n)[i] = IF i = at THEN text ELSE Lines(m)[i]
    OBVIOUS
  <2>1. CASE i \in Places(m)
    BY <1>2, <1>3, <2>1
  <2>2. CASE i = Len(m.history) + 1
    BY <1>2, <1>3, <2>2
  <2> QED
    BY <1>4, <2>1, <2>2
<1>6. Lines(n) = [i \in 1..Len(m.history) + 1 |-> Lines(n)[i]]
  BY <1>1, <1>3
<1> QED
  BY <1>2, <1>5, <1>6

(***************************************************************************)
(* The operations.                                                         *)
(***************************************************************************)
\* The line that is shown gets another content.
WithEntry(m, c, p) == [m EXCEPT !.heap[EntryOf(m)] = c, !.position = p]

\* n is m with another text in the line that is shown.
Shows(m, n, text, p) ==
  /\ Edits(n) /\ Text(n) = text /\ n.position = p
  /\ n.entry = m.entry /\ n.historyPosition = m.historyPosition
  /\ n.history = m.history
  /\ m.entry = "edited" => Lines(n) = Lines(m)
  /\ m.entry # "edited" => Lines(n) = [Lines(m) EXCEPT ![Recalled(m)] = text]

LEMMA EntryChanges ==
  ASSUME NEW m, Edits(m), NEW c \in Contents, NEW p \in Nat, p <= Len(c.text),
         NEW n, n = WithEntry(m, c, p)
  PROVE  Shows(m, n, c.text, p)
<1> DEFINE e == EntryOf(m)
<1>1. /\ m \in Editors /\ Good(m) /\ Written(m) /\ Separate(m)
      /\ Len(m.history) \in Nat
  BY FieldsAre DEF Edits, Good
<1>2. /\ e \in Buffers
      /\ m.entry # "new" => Recalled(m) \in Places(m)
      /\ m.entry = "new" => e = m.new
      /\ m.entry = "edited" => e = m.edited
      /\ m.entry = "recalled" => e = m.history[Recalled(m)]
  BY <1>1, EntryIs
<1> HIDE DEF e
<1>3. /\ n \in Editors
      /\ n.heap = [m.heap EXCEPT ![e] = c]
      /\ n.history = m.history /\ n.new = m.new /\ n.edited = m.edited
      /\ n.entry = m.entry /\ n.historyPosition = m.historyPosition
      /\ n.position = p
  BY <1>1, <1>2 DEF Editors, WithEntry, e
<1>4. Places(n) = Places(m) /\ EntryOf(n) = e /\ Recalled(n) = Recalled(m)
  BY <1>3 DEF Places, EntryOf, Recalled, e
<1>5. \A b \in Buffers : n.heap[b] = IF b = e THEN c ELSE m.heap[b]
  BY <1>1, <1>3, FieldsAre
<1>6. Good(n)
  BY <1>1, <1>3, <1>4 DEF Good, Separate
<1>7. Written(n)
  <2>1. /\ \A i \in Places(m) : m.history[i] \in Buffers
        /\ m.new \in Buffers /\ m.edited \in Buffers
    BY <1>1, FieldsAre
  <2> QED
    BY <1>1, <1>3, <1>4, <1>5, <2>1 DEF Written, Kept
<1>8. Text(n) = c.text
  BY <1>2, <1>4, <1>5 DEF Text
<1>9. Edits(n)
  BY <1>3, <1>6, <1>7, <1>8 DEF Edits
<1>10. /\ \A i \in Places(m) : m.history[i] \in Buffers
       /\ m.new \in Buffers /\ m.edited \in Buffers
  BY <1>1, FieldsAre
<1>11. Recalled(m) \in 1..Len(m.history) + 1
       /\ (m.entry = "new" <=> Recalled(m) = Len(m.history) + 1)
  BY <1>1, LinesAre
<1>12. ASSUME m.entry # "edited"
       PROVE  Lines(n) = [Lines(m) EXCEPT ![Recalled(m)] = c.text]
  <2>1. \A i \in Places(m) : e = m.history[i] <=> i = Recalled(m)
    <3>1. CASE m.entry = "new"
      BY <1>1, <1>2, <1>11, <3>1 DEF Separate, Places
    <3>2. CASE m.entry = "recalled"
      BY <1>1, <1>2, <3>2 DEF Separate
    <3> QED
      BY <1>1, <1>12, <3>1, <3>2, FieldsAre
  <2>2. \A i \in Places(m) :
          n.heap[n.history[i]].text
            = IF i = Recalled(m) THEN c.text ELSE m.heap[m.history[i]].text
    BY <1>3, <1>5, <1>10, <2>1
  <2>3. e = m.new <=> Recalled(m) = Len(m.history) + 1
    <3>1. CASE m.entry = "new"
      BY <1>2, <1>11, <3>1
    <3>2. CASE m.entry = "recalled"
      BY <1>1, <1>2, <1>11, <3>2 DEF Separate
    <3> QED
      BY <1>1, <1>12, <3>1, <3>2, FieldsAre
  <2>4. NewText(n) = IF Recalled(m) = Len(m.history) + 1 THEN c.text ELSE NewText(m)
    BY <1>3, <1>5, <1>10, <2>3 DEF NewText
  <2>5. Differ(m, n, Recalled(m), c.text)
    BY <1>3, <1>11, <2>2, <2>4 DEF Differ
  <2> QED
    BY <1>1, <1>6, <1>7, <2>5, LinesDiffer
<1>13. ASSUME m.entry = "edited" PROVE Lines(n) = Lines(m)
  <2>1. /\ \A i \in Places(m) : n.heap[n.history[i]] = m.heap[m.history[i]]
        /\ n.heap[n.new] = m.heap[m.new]
    BY <1>1, <1>2, <1>3, <1>5, <1>10, <1>13 DEF Separate
  <2>2. Texts(n) = Texts(m) /\ NewText(n) = NewText(m)
    BY <1>1, <1>3, <2>1, FieldsAre DEF Texts, NewText
  <2> QED
    BY <2>2 DEF Lines
<1> QED
  BY <1>3, <1>8, <1>9, <1>12, <1>13 DEF Shows

\* The line that is shown is one of the lines, unless it is an edited one.
LEMMA LineIsShown ==
  ASSUME NEW m, Good(m), Written(m), m.entry # "edited"
  PROVE  [Lines(m) EXCEPT ![Recalled(m)] = Text(m)] = Lines(m)
<1>1. /\ Lines(m) \in Seq(Seq(Characters))
      /\ Lines(m)[Recalled(m)] = Text(m)
  BY LinesAre
<1> QED
  BY <1>1

\* beginEdit: nothing changes but who owns the buffers.
LEMMA BeginEditIs ==
  ASSUME NEW m, Edits(m), NEW n, n = BeginEdit(m)
  PROVE  /\ Edits(n) /\ Text(n) = Text(m) /\ Lines(n) = Lines(m)
         /\ n.position = m.position /\ n.historyPosition = m.historyPosition
         /\ n.entry = IF m.entry = "recalled" THEN "edited" ELSE m.entry
         /\ Len(n.history) = Len(m.history)
<1>1. CASE m.entry # "recalled"
  BY <1>1 DEF BeginEdit
<1>2. CASE m.entry = "recalled"
  <2> DEFINE at == Recalled(m)
             old == m.history[at]
             copy == Malloc(Owned(m))
             fresh == Fresh(m.heap[old].text)
  <2>1. /\ m \in Editors /\ Good(m) /\ Written(m) /\ Separate(m)
        /\ Len(m.history) \in Nat /\ Len(m.history) <= MaxHistory
        /\ at \in Places(m) /\ old \in Buffers
        /\ \A i \in Places(m) : m.history[i] \in Buffers
        /\ m.new \in Buffers
    BY <1>2, FieldsAre, EntryIs DEF Edits, Good
  <2>2. /\ Text(m) = m.heap[old].text /\ m.heap[old] \in Contents
        /\ Text(m) \in Seq(Characters)
    BY <1>2, <2>1, EntryIs
  <2>3. copy \in Buffers /\ copy # m.new
        /\ \A i \in Places(m) : m.history[i] # copy
    <3>1. Owned(m) = Range(m.history) \cup {m.new}
      BY <1>2 DEF Owned
    <3>2. m.history \in Seq(Buffers)
      BY <2>1, FieldsAre
    <3>3. copy \in Buffers /\ copy \notin Owned(m)
      BY <2>1, <3>1, <3>2, MallocIs
    <3>4. \A i \in Places(m) : m.history[i] \in Range(m.history)
      BY <2>1, PlacesAre
    <3> QED
      BY <3>1, <3>3, <3>4
  <2>4. fresh \in Contents /\ fresh.text = Text(m)
    BY <2>2, ContentsAre
  <2>5. n = [m EXCEPT !.heap[copy] = fresh, !.history[at] = copy,
                      !.edited = old, !.entry = "edited"]
    BY <1>2 DEF BeginEdit
  <2> HIDE DEF at, old, copy, fresh
  <2>6. /\ n.heap = [m.heap EXCEPT ![copy] = fresh]
        /\ n.history = [m.history EXCEPT ![at] = copy]
        /\ n.new = m.new /\ n.edited = old /\ n.entry = "edited"
        /\ n.historyPosition = m.historyPosition
        /\ n.position = m.position
        /\ n \in Editors
    <3> DEFINE heap == [m.heap EXCEPT ![copy] = fresh]
               history == [m.history EXCEPT ![at] = copy]
    <3>1. heap \in [Buffers -> Contents \cup {Free}] /\ history \in Seq(Buffers)
      BY <2>1, <2>3, <2>4, FieldsAre, ExceptSeq DEF Places
    <3>2. n = [m EXCEPT !.heap = heap, !.history = history,
                        !.edited = old, !.entry = "edited"]
      BY <2>5
    <3> HIDE DEF heap, history
    <3>3. /\ n.heap = heap /\ n.history = history
          /\ n.new = m.new /\ n.edited = old /\ n.entry = "edited"
          /\ n.historyPosition = m.historyPosition
          /\ n.position = m.position
          /\ n \in Editors
      BY <2>1, <3>1, <3>2 DEF Editors
    <3> QED
      BY <3>3 DEF heap, history
  <2>7. /\ Len(n.history) = Len(m.history) /\ Places(n) = Places(m)
        /\ \A i \in Places(m) :
             n.history[i] = IF i = at THEN copy ELSE m.history[i]
    BY <2>1, <2>6, FieldsAre DEF Places
  <2>8. \A b \in Buffers : n.heap[b] = IF b = copy THEN fresh ELSE m.heap[b]
    BY <2>1, <2>6, FieldsAre
  <2>9. \A i \in Places(m) : m.history[i] = old <=> i = at
    BY <2>1 DEF Separate, old
  <2>10. old # m.new /\ old # copy
    BY <2>1, <2>3 DEF Separate, old
  <2>11. Separate(n)
    <3>1. \A i, j \in Places(n) : n.history[i] = n.history[j] => i = j
      BY <2>1, <2>3, <2>7 DEF Separate
    <3>2. \A i \in Places(n) : n.history[i] # n.new
      BY <2>1, <2>3, <2>6, <2>7 DEF Separate
    <3>3. \A i \in Places(n) : n.history[i] # n.edited
      BY <2>6, <2>7, <2>9, <2>10
    <3> QED
      BY <2>6, <2>10, <3>1, <3>2, <3>3 DEF Separate
  <2>12. m.historyPosition # Len(m.history)
    BY <1>2, <2>1 DEF Good
  <2>13. Good(n)
    BY <2>1, <2>6, <2>7, <2>11, <2>12 DEF Good
  <2>14. Written(n)
    <3>1. \A i \in Places(n) : n.heap[n.history[i]] \in Contents
      BY <2>1, <2>3, <2>4, <2>7, <2>8 DEF Written, Kept
    <3>2. n.heap[n.new] \in Contents /\ n.heap[n.edited] \in Contents
      BY <2>1, <2>2, <2>3, <2>6, <2>8, <2>10 DEF Written
    <3> QED
      BY <3>1, <3>2 DEF Written, Kept
  <2>15. Text(n) = Text(m)
    <3>1. EntryOf(n) = old
      BY <2>6 DEF EntryOf
    <3> QED
      BY <2>1, <2>2, <2>8, <2>10, <3>1 DEF Text
  <2>16. Edits(n)
    BY <2>6, <2>13, <2>14, <2>15 DEF Edits
  <2>17. Lines(n) = Lines(m)
    <3>1. \A i \in Places(m) :
            n.heap[n.history[i]].text
              = IF i = at THEN Text(m) ELSE m.heap[m.history[i]].text
      BY <2>1, <2>3, <2>4, <2>7, <2>8
    <3>2. NewText(n) = NewText(m)
      BY <2>1, <2>3, <2>6, <2>8 DEF NewText
    <3>3. at \in 1..Len(m.history) + 1 /\ at # Len(m.history) + 1
      BY <2>1 DEF Places
    <3>4. Differ(m, n, at, Text(m))
      BY <2>7, <3>1, <3>2, <3>3 DEF Differ
    <3>5. Lines(n) = [Lines(m) EXCEPT ![at] = Text(m)]
      BY <2>1, <2>13, <2>14, <3>4, LinesDiffer
    <3> QED
      BY <1>2, <2>1, <3>5, LineIsShown DEF at
  <2> QED
    BY <1>2, <2>6, <2>7, <2>15, <2>16, <2>17
<1> QED
  BY <1>1, <1>2

\* Another line is shown, and the one that has been edited is kept.
LEMMA RecallIs ==
  ASSUME NEW m, Edits(m), NEW to \in Nat, to <= Len(m.history),
         NEW n, n = Recall(m, to)
  PROVE  /\ Edits(n) /\ n.historyPosition = to /\ n.entry # "edited"
         /\ n.position = Len(Text(n))
         /\ Lines(n) = [Lines(m) EXCEPT ![Recalled(m)] = Text(m)]
         /\ Len(n.history) = Len(m.history)
<1> DEFINE at == Recalled(m)
           entry == IF to = Len(m.history) THEN "new" ELSE "recalled"
           kept == [KeepEdit(m) EXCEPT !.historyPosition = to, !.entry = entry]
<1>1. /\ m \in Editors /\ Good(m) /\ Written(m) /\ Separate(m)
      /\ Len(m.history) \in Nat /\ Len(m.history) <= MaxHistory
      /\ \A i \in Places(m) : m.history[i] \in Buffers
      /\ m.new \in Buffers /\ m.edited \in Buffers
      /\ m.entry \in {"new", "edited", "recalled"}
  BY FieldsAre DEF Edits, Good
<1>2. n = [kept EXCEPT !.position = Len(Text(kept))]
  BY DEF Recall
<1>3. entry \in {"new", "recalled"}
      /\ (entry = "new" <=> to = Len(m.history))
  OBVIOUS
<1> HIDE DEF kept, entry
<1>4. /\ Good(kept) /\ Written(kept) /\ kept.historyPosition = to
      /\ kept.entry = entry /\ Len(kept.history) = Len(m.history)
      /\ Lines(kept) = [Lines(m) EXCEPT ![at] = Text(m)]
  <2>1. CASE m.entry # "edited"
    <3>1. kept = [m EXCEPT !.historyPosition = to, !.entry = entry]
      BY <2>1 DEF kept, KeepEdit
    <3>2. /\ kept \in Editors /\ kept.historyPosition = to /\ kept.entry = entry
          /\ kept.heap = m.heap /\ kept.history = m.history /\ kept.new = m.new
      BY <1>1, <1>3, <3>1 DEF Editors
    <3>3. Good(kept)
      BY <1>1, <1>3, <3>2 DEF Good, Separate, Places
    <3>4. Written(kept)
      BY <1>1, <1>3, <3>2 DEF Written, Kept, Places
    <3>5. Lines(kept) = Lines(m)
      BY <3>2 DEF Lines, Texts, NewText
    <3>6. Lines(m) = [Lines(m) EXCEPT ![at] = Text(m)]
      BY <1>1, <2>1, LineIsShown
    <3> QED
      BY <3>2, <3>3, <3>4, <3>5, <3>6
  <2>2. CASE m.entry = "edited"
    <3> DEFINE old == m.history[at]
    <3>1. at \in Places(m) /\ old \in Buffers
      BY <1>1, <2>2, EntryIs
    <3>2. KeepEdit(m) = [m EXCEPT !.heap[old] = Free, !.history[at] = m.edited,
                                  !.edited = Nowhere]
      BY <2>2 DEF KeepEdit
    <3> HIDE DEF at, old
    <3>3. /\ kept \in Editors /\ kept.historyPosition = to /\ kept.entry = entry
          /\ kept.heap = [m.heap EXCEPT ![old] = Free]
          /\ kept.history = [m.history EXCEPT ![at] = m.edited]
          /\ kept.new = m.new
      <4> DEFINE heap == [m.heap EXCEPT ![old] = Free]
                 history == [m.history EXCEPT ![at] = m.edited]
      <4>1. heap \in [Buffers -> Contents \cup {Free}] /\ history \in Seq(Buffers)
        BY <1>1, <3>1, FieldsAre, ExceptSeq DEF Places
      <4>2. kept = [m EXCEPT !.heap = heap, !.history = history,
                             !.edited = Nowhere,
                             !.historyPosition = to, !.entry = entry]
        BY <3>2 DEF kept
      <4> HIDE DEF heap, history
      <4>3. /\ kept.heap = heap /\ kept.history = history
            /\ kept.new = m.new /\ kept.entry = entry
            /\ kept.historyPosition = to /\ kept \in Editors
        BY <1>1, <1>3, <4>1, <4>2, NowhereIs DEF Editors
      <4> QED
        BY <4>3 DEF heap, history
    <3>4. /\ Len(kept.history) = Len(m.history) /\ Places(kept) = Places(m)
          /\ \A i \in Places(m) :
               kept.history[i] = IF i = at THEN m.edited ELSE m.history[i]
      BY <1>1, <3>1, <3>3, FieldsAre DEF Places
    <3>5. \A b \in Buffers : kept.heap[b] = IF b = old THEN Free ELSE m.heap[b]
      BY <1>1, <3>1, <3>3, FieldsAre
    <3>6. /\ m.edited # m.new /\ m.edited # old /\ m.new # old
          /\ \A i \in Places(m) : m.history[i] # m.edited
          /\ \A i \in Places(m) : m.history[i] = old <=> i = at
      BY <1>1, <2>2, <3>1 DEF Separate, old
    <3>7. Separate(kept)
      <4>1. \A i, j \in Places(kept) : kept.history[i] = kept.history[j] => i = j
        BY <1>1, <3>4, <3>6 DEF Separate
      <4>2. \A i \in Places(kept) : kept.history[i] # kept.new
        BY <1>1, <3>3, <3>4, <3>6 DEF Separate
      <4> QED
        BY <1>3, <3>3, <4>1, <4>2 DEF Separate
    <3>8. Good(kept)
      BY <1>1, <1>3, <3>3, <3>4, <3>7 DEF Good
    <3>9. Written(kept)
      <4>1. \A i \in Places(kept) : kept.heap[kept.history[i]] \in Contents
        BY <1>1, <2>2, <3>4, <3>5, <3>6 DEF Written, Kept
      <4>2. kept.heap[kept.new] \in Contents
        BY <1>1, <3>3, <3>5, <3>6 DEF Written
      <4> QED
        BY <1>3, <3>3, <4>1, <4>2 DEF Written, Kept
    <3>10. Text(m) = m.heap[m.edited].text
      BY <1>1, <2>2, EntryIs
    <3>11. \A i \in Places(m) :
             kept.heap[kept.history[i]].text
               = IF i = at THEN Text(m) ELSE m.heap[m.history[i]].text
      BY <1>1, <3>4, <3>5, <3>6, <3>10
    <3>12. NewText(kept) = NewText(m)
      BY <1>1, <3>3, <3>5, <3>6 DEF NewText
    <3>13. at \in 1..Len(m.history) + 1 /\ at # Len(m.history) + 1
      BY <1>1, <3>1 DEF Places
    <3>14. Differ(m, kept, at, Text(m))
      BY <3>4, <3>11, <3>12, <3>13 DEF Differ
    <3>15. Lines(kept) = [Lines(m) EXCEPT ![at] = Text(m)]
      BY <1>1, <3>8, <3>9, <3>14, LinesDiffer
    <3> QED
      BY <3>3, <3>4, <3>8, <3>9, <3>15
  <2> QED
    BY <2>1, <2>2
<1> DEFINE p == Len(Text(kept))
<1>5. p \in Nat /\ kept \in Editors
  BY <1>4, EntryIs DEF Good
<1>6. n = [kept EXCEPT !.position = p]
  BY <1>2
<1> HIDE DEF p
<1>7. /\ n \in Editors /\ n.position = p
      /\ n.heap = kept.heap /\ n.history = kept.history /\ n.new = kept.new
      /\ n.edited = kept.edited /\ n.entry = kept.entry
      /\ n.historyPosition = kept.historyPosition
  BY <1>5, <1>6 DEF Editors
<1>8. Good(n) /\ Written(n) /\ Lines(n) = Lines(kept)
  <2>1. Places(n) = Places(kept)
    BY <1>7 DEF Places
  <2>2. Separate(n)
    BY <1>4, <1>7, <2>1 DEF Good, Separate
  <2>3. Good(n)
    BY <1>4, <1>7, <2>2 DEF Good
  <2>4. Written(n)
    BY <1>4, <1>7, <2>1 DEF Written, Kept
  <2> QED
    BY <1>7, <2>3, <2>4 DEF Lines, Texts, NewText
<1>9. Text(n) = Text(kept)
  BY <1>7 DEF Text, EntryOf, Recalled
<1>10. p = Len(Text(n)) /\ p <= p
  BY <1>5, <1>9 DEF p
<1>11. Edits(n)
  BY <1>7, <1>8, <1>10 DEF Edits
<1> QED
  BY <1>3, <1>4, <1>7, <1>8, <1>10, <1>11

\* A text with another character, or without one.
With(s, p, ch) == SubSeq(s, 1, p) \o << ch >> \o SubSeq(s, p + 1, Len(s))
Without(s, at) == SubSeq(s, 1, at) \o SubSeq(s, at + 2, Len(s))

LEMMA WithIs ==
  ASSUME NEW s \in Seq(Characters), NEW p \in Nat, p <= Len(s),
         NEW ch \in Characters
  PROVE  /\ With(s, p, ch) \in Seq(Characters)
         /\ Len(With(s, p, ch)) = Len(s) + 1
         /\ InsertAt(s, p + 1, ch) = With(s, p, ch)
<1> DEFINE before == SubSeq(s, 1, p)  after == SubSeq(s, p + 1, Len(s))
           both == before \o << ch >>
<1>1. /\ before \in Seq(Characters) /\ Len(before) = p
      /\ after \in Seq(Characters) /\ Len(after) = Len(s) - p
  OBVIOUS
<1>2. << ch >> \in Seq(Characters) /\ Len(<< ch >>) = 1
  OBVIOUS
<1>3. With(s, p, ch) = both \o after
  BY DEF With
<1>4. InsertAt(s, p + 1, ch) = With(s, p, ch)
  <2>1. (p + 1) - 1 = p
    OBVIOUS
  <2>2. InsertAt(s, p + 1, ch) = SubSeq(s, 1, (p + 1) - 1) \o << ch >> \o after
    BY DEF InsertAt
  <2> QED
    BY <1>3, <2>1, <2>2
<1> HIDE DEF before, after
<1>5. both \in Seq(Characters) /\ Len(both) = p + 1
  BY <1>1, <1>2
<1> HIDE DEF both
<1>6. /\ both \o after \in Seq(Characters)
      /\ Len(both \o after) = Len(both) + Len(after)
  BY <1>1, <1>5, ConcatProperties
<1>7. Len(both \o after) = Len(s) + 1
  BY <1>1, <1>5, <1>6
<1> QED
  BY <1>3, <1>4, <1>6, <1>7

LEMMA WithoutIs ==
  ASSUME NEW s \in Seq(Characters), NEW at \in Nat, at < Len(s)
  PROVE  /\ Without(s, at) \in Seq(Characters)
         /\ Len(Without(s, at)) >= at
         /\ RemoveAt(s, at + 1) = Without(s, at)
<1> DEFINE before == SubSeq(s, 1, at)  after == SubSeq(s, at + 2, Len(s))
<1>1. /\ before \in Seq(Characters) /\ Len(before) = at
      /\ after \in Seq(Characters) /\ Len(after) \in Nat
  OBVIOUS
<1>2. Without(s, at) = before \o after
  BY DEF Without
<1>3. RemoveAt(s, at + 1) = Without(s, at)
  <2>1. (at + 1) - 1 = at /\ (at + 1) + 1 = at + 2
    OBVIOUS
  <2>2. RemoveAt(s, at + 1)
          = SubSeq(s, 1, (at + 1) - 1) \o SubSeq(s, (at + 1) + 1, Len(s))
    BY DEF RemoveAt
  <2> QED
    BY <1>2, <2>1, <2>2
<1> HIDE DEF before, after
<1>4. /\ before \o after \in Seq(Characters)
      /\ Len(before \o after) = Len(before) + Len(after)
  BY <1>1, ConcatProperties
<1>5. Len(before \o after) >= at
  BY <1>1, <1>4
<1> QED
  BY <1>2, <1>3, <1>4, <1>5

\* addToBuffer: a character is added before the cursor.
LEMMA AddToBufferIs ==
  ASSUME NEW m, Edits(m), NEW ch \in Characters, NEW n, n = AddToBuffer(m, ch),
         NEW text, text = With(Text(m), m.position, ch)
  PROVE  Shows(m, n, text, m.position + 1)
<1> DEFINE s == Text(m)
           p == m.position
           e == EntryOf(m)
           more == [m.heap[e] EXCEPT !.text = InsertAt(@, p + 1, ch),
                                     !.first = "other"]
<1>1. /\ m \in Editors /\ Good(m) /\ Written(m)
      /\ e \in Buffers /\ m.heap[e] \in Contents /\ s = m.heap[e].text
      /\ s \in Seq(Characters) /\ Len(s) \in Nat /\ p \in Nat /\ p <= Len(s)
  BY FieldsAre, EntryIs DEF Edits, Good
<1>3. n = [m EXCEPT !.heap[e] = more, !.position = p + 1]
  BY DEF AddToBuffer
<1>4. InsertAt(m.heap[e].text, p + 1, ch) = text
  BY <1>1, WithIs
<1>5. text \in Seq(Characters) /\ Len(text) = Len(s) + 1
  BY <1>1, WithIs
<1> HIDE DEF s, p, e
<1>6. more \in Contents /\ more.text = text
  BY <1>1, <1>4, <1>5 DEF Contents
<1> HIDE DEF more
<1> DEFINE q == p + 1
<1>7. q \in Nat /\ q <= Len(more.text) /\ n = WithEntry(m, more, q)
  BY <1>1, <1>3, <1>5, <1>6 DEF WithEntry, e
<1> HIDE DEF q
<1>8. Shows(m, n, more.text, q)
  BY <1>6, <1>7, EntryChanges
<1> QED
  BY <1>6, <1>8 DEF q, p

\* delete: the character at an offset goes.
LEMMA DeleteAtIs ==
  ASSUME NEW m, Edits(m), NEW at \in Nat, at < Len(Text(m)),
         NEW n, n = DeleteAt(m, at),
         NEW text, text = Without(Text(m), at)
  PROVE  Shows(m, n, text, at)
<1> DEFINE s == Text(m)
           e == EntryOf(m)
           less == [m.heap[e] EXCEPT !.text = RemoveAt(@, at + 1)]
<1>1. /\ m \in Editors /\ Good(m) /\ Written(m)
      /\ e \in Buffers /\ m.heap[e] \in Contents /\ s = m.heap[e].text
      /\ s \in Seq(Characters) /\ Len(s) \in Nat
  BY EntryIs DEF Edits, Good
<1>3. n = [m EXCEPT !.heap[e] = less, !.position = at]
  <2>1. n = [m EXCEPT !.heap[e].text = RemoveAt(@, at + 1), !.position = at]
    BY DEF DeleteAt
  <2> QED
    BY <1>1, <2>1
<1>4. RemoveAt(m.heap[e].text, at + 1) = text
  BY <1>1, WithoutIs
<1>5. text \in Seq(Characters) /\ Len(text) >= at
  BY <1>1, WithoutIs
<1> HIDE DEF s, e
<1>6. less \in Contents /\ less.text = text
  BY <1>1, <1>4, <1>5 DEF Contents
<1> HIDE DEF less
<1>7. at <= Len(less.text)
  BY <1>5, <1>6
<1>8. n = WithEntry(m, less, at)
  BY <1>3 DEF WithEntry, e
<1>9. Shows(m, n, less.text, at)
  BY <1>6, <1>7, <1>8, EntryChanges
<1> QED
  BY <1>6, <1>9

\* The cursor moves in the line.
LEMMA CursorMoves ==
  ASSUME NEW m, Edits(m), NEW p \in Nat, p <= Len(Text(m)),
         NEW n, n = [m EXCEPT !.position = p]
  PROVE  /\ Edits(n) /\ Text(n) = Text(m) /\ n.position = p
         /\ n.entry = m.entry /\ n.historyPosition = m.historyPosition
         /\ n.history = m.history /\ Lines(n) = Lines(m)
<1>1. /\ m \in Editors /\ Good(m) /\ Written(m)
  BY DEF Edits, Good
<1>2. /\ n \in Editors /\ n.position = p
      /\ n.heap = m.heap /\ n.history = m.history /\ n.new = m.new
      /\ n.edited = m.edited /\ n.entry = m.entry
      /\ n.historyPosition = m.historyPosition
  BY <1>1 DEF Editors
<1>3. Places(n) = Places(m)
  BY <1>2 DEF Places
<1>4. Separate(n)
  BY <1>1, <1>2, <1>3 DEF Good, Separate
<1>5. Good(n)
  BY <1>1, <1>2, <1>4 DEF Good
<1>6. Written(n)
  BY <1>1, <1>2, <1>3 DEF Written, Kept
<1>7. Lines(n) = Lines(m) /\ Text(n) = Text(m)
  <2>1. EntryOf(n) = EntryOf(m)
    BY <1>2 DEF EntryOf, Recalled
  <2>2. Texts(n) = Texts(m) /\ NewText(n) = NewText(m)
    BY <1>2 DEF Texts, NewText
  <2>3. Text(n) = Text(m)
    BY <1>2, <2>1 DEF Text
  <2> QED
    BY <2>2, <2>3 DEF Lines
<1> QED
  BY <1>2, <1>5, <1>6, <1>7 DEF Edits

(***************************************************************************)
(* The end of the call.                                                    *)
(***************************************************************************)
\* The content of the line gets another first byte, which its text does not
\* show.
LEMMA FirstChanges ==
  ASSUME NEW m, Edits(m), NEW f \in {"junk", "NUL", "other"},
         NEW n, n = [m EXCEPT !.heap[EntryOf(m)].first = f]
  PROVE  /\ Edits(n) /\ Text(n) = Text(m) /\ Lines(n) = Lines(m)
         /\ n.historyPosition = m.historyPosition /\ n.history = m.history
<1> DEFINE e == EntryOf(m)
           c == [m.heap[e] EXCEPT !.first = f]
           p == m.position
<1>1. /\ m \in Editors /\ Good(m) /\ Written(m)
      /\ m.entry \in {"new", "edited", "recalled"}
      /\ e \in Buffers /\ m.heap[e] \in Contents /\ Text(m) = m.heap[e].text
      /\ m.heap \in [Buffers -> Contents \cup {Free}]
      /\ p \in Nat /\ p <= Len(Text(m))
  BY FieldsAre, EntryIs DEF Edits, Good
<1>2. c \in Contents /\ c.text = Text(m)
  BY <1>1 DEF Contents
<1> HIDE DEF c, e, p
<1>3. n = WithEntry(m, c, p)
  <2>1. n = [m EXCEPT !.heap[e] = c]
    BY DEF c, e
  <2>2. [m EXCEPT !.heap[e] = c] = [m EXCEPT !.heap[e] = c, !.position = p]
    BY <1>1 DEF Editors, p
  <2> QED
    BY <2>1, <2>2 DEF WithEntry, e
<1>4. Shows(m, n, c.text, p)
  BY <1>1, <1>2, <1>3, EntryChanges
<1>5. Lines(n) = Lines(m)
  <2>1. CASE m.entry = "edited"
    BY <1>4, <2>1 DEF Shows
  <2>2. CASE m.entry # "edited"
    <3>1. Lines(n) = [Lines(m) EXCEPT ![Recalled(m)] = Text(m)]
      BY <1>2, <1>4, <2>2 DEF Shows
    <3> QED
      BY <1>1, <2>2, <3>1, LineIsShown
  <2> QED
    BY <2>1, <2>2
<1> QED
  BY <1>2, <1>4, <1>5 DEF Shows

\* The local variables are forgotten: of the buffers those of the history stay.
LEMMA ForgetIs ==
  ASSUME NEW k \in Editors, Len(k.history) <= MaxHistory,
         \A i, j \in Places(k) : k.history[i] = k.history[j] => i = j,
         NEW n, n = Forget(k)
  PROVE  /\ Rests(n) /\ n.history = k.history
         /\ n.historyPosition = Len(k.history)
         /\ \A i \in Places(k) : n.heap[k.history[i]] = k.heap[k.history[i]]
<1> DEFINE owned == Range(k.history)
           heap == [b \in Buffers |-> IF b \in owned THEN k.heap[b] ELSE Free]
           new == Malloc(owned)
           last == Len(k.history)
<1>1. /\ k.heap \in [Buffers -> Contents \cup {Free}]
      /\ k.history \in Seq(Buffers)
      /\ k.edited \in Buffers /\ last \in Nat
      /\ \A i \in Places(k) : k.history[i] \in Buffers
      /\ \A i \in Places(k) : k.history[i] \in owned
  <2>1. \A i \in Places(k) : k.history[i] \in owned
    BY PlacesAre
  <2> QED
    BY <2>1, FieldsAre
<1>2. new \in Buffers /\ new \notin owned
  BY <1>1, MallocIs
<1>3. Nowhere \in Buffers
  BY NowhereIs
<1>4. heap \in [Buffers -> Contents \cup {Free}]
  BY <1>1
<1> DEFINE k1 == [k EXCEPT !.heap = heap, !.new = new, !.edited = Nowhere]
<1>5. n = [k1 EXCEPT !.entry = "new", !.historyPosition = last, !.position = 0]
  BY DEF Forget
<1>6. \A i \in Places(k) : heap[k.history[i]] = k.heap[k.history[i]]
  BY <1>1
<1> HIDE DEF heap, new, owned, last
<1>7. /\ n \in Editors /\ n.heap = heap /\ n.history = k.history /\ n.new = new
      /\ n.entry = "new" /\ n.historyPosition = last /\ n.position = 0
  <2>1. /\ k1 \in Editors /\ k1.heap = heap /\ k1.history = k.history
        /\ k1.new = new
    BY <1>1, <1>2, <1>3, <1>4 DEF Editors
  <2> HIDE DEF k1
  <2>2. /\ n.heap = k1.heap /\ n.history = k1.history /\ n.new = k1.new
        /\ n.entry = "new" /\ n.historyPosition = last /\ n.position = 0
    BY <1>5, <2>1 DEF Editors
  <2>3. n \in Editors
    <3> DEFINE k2 == [k1 EXCEPT !.entry = "new", !.historyPosition = last]
    <3>1. k2 \in Editors
      BY <1>1, <2>1 DEF Editors
    <3>2. n = [k2 EXCEPT !.position = 0]
      BY <1>5
    <3> HIDE DEF k2
    <3> QED
      BY <3>1, <3>2 DEF Editors
  <2> QED
    BY <2>1, <2>2, <2>3
<1>8. Places(n) = Places(k)
  BY <1>7 DEF Places
<1>9. Separate(n)
  BY <1>1, <1>2, <1>7, <1>8 DEF Separate
<1>10. Good(n)
  BY <1>1, <1>7, <1>9 DEF Good, last
<1> QED
  BY <1>6, <1>7, <1>10 DEF Rests, last

Repeats(m) ==
  /\ m.history # << >>
  /\ Text(m) = m.heap[Last(m.history)].text

\* Nothing is added to the history, or a line x.
Keeps(m, k) ==
  /\ k \in Editors /\ k.history = m.history
  /\ \A i \in Places(m) : k.heap[m.history[i]] = m.heap[m.history[i]]
Adds(m, k, x) ==
  /\ k \in Editors /\ k.history = Append(m.history, x)
  /\ \A i \in Places(m) : k.heap[m.history[i]] = m.heap[m.history[i]]
  /\ x \in Buffers /\ \A i \in Places(m) : m.history[i] # x
  /\ k.heap[x] \in Contents /\ k.heap[x].text = Text(m)

LEMMA ReturnKeeps ==
  ASSUME NEW m, Edits(m), Text(m) = << >> \/ Repeats(m), NEW r \in Return(m)
  PROVE  /\ Keeps(m, r.editor)
         /\ Text(m) # << >> => r.line = Last(m.history)
         /\ Text(m) = << >> => r.line \in {EndOfFile, NewlineString}
<1> DEFINE freed == [m EXCEPT !.heap[m.new] = Free]
<1>1. /\ m \in Editors /\ Good(m) /\ Written(m) /\ Separate(m)
      /\ m.new \in Buffers /\ \A i \in Places(m) : m.history[i] \in Buffers
      /\ m.heap \in [Buffers -> Contents \cup {Free}]
      /\ Len(m.history) \in Nat /\ m.history \in Seq(Buffers)
  BY FieldsAre DEF Edits, Good
<1>2. Keeps(m, freed)
  <2>1. /\ freed \in Editors /\ freed.history = m.history
        /\ freed.heap = [m.heap EXCEPT ![m.new] = Free]
    BY <1>1 DEF Editors
  <2>2. \A i \in Places(m) : freed.heap[m.history[i]] = m.heap[m.history[i]]
    BY <1>1, <2>1 DEF Separate
  <2> QED
    BY <2>1, <2>2 DEF Keeps
<1>3. r.editor = freed
  <2>1. CASE Repeats(m)
    BY <2>1 DEF Return, Repeats
  <2>2. CASE ~Repeats(m)
    <3>1. Text(m) = << >>
      BY <2>2
    <3>2. \A x \in Return(m) : x.editor = freed
      BY <2>2, <3>1, SMTT(30) DEF Return, Repeats
    <3> QED
      BY <3>2
  <2> QED
    BY <2>1, <2>2
<1>4. m.history # << >> =>
        m.heap[Last(m.history)] \in Contents
  <2>1. m.history # << >> => Len(m.history) \in Places(m)
    BY <1>1 DEF Places
  <2> QED
    BY <1>1, <2>1 DEF Last, Written, Kept
<1>5. m.heap[EntryOf(m)] \in Contents
  BY <1>1, EntryIs
<1>6. CASE Repeats(m)
  <2>1. m.heap[Last(m.history)].first \in {"junk", "NUL", "other"}
    BY <1>4, <1>6, ContentsAre DEF Repeats
  <2>2. Text(m) # << >> => r.line = Last(m.history)
    BY <1>6 DEF Return, Repeats
  <2>3. Text(m) = << >> => r.line \in {EndOfFile, NewlineString}
    BY <1>6, <2>1 DEF Return, Repeats
  <2> QED
    BY <1>2, <1>3, <1>6, <2>2, <2>3
<1>7. CASE ~Repeats(m)
  <2>1. m.heap[EntryOf(m)].first \in {"junk", "NUL", "other"}
    BY <1>5, ContentsAre
  <2>2. Text(m) = << >> => r.line \in {EndOfFile, NewlineString}
    BY <1>7, <2>1 DEF Return, Repeats
  <2> QED
    BY <1>2, <1>3, <1>7, <2>2
<1> QED
  BY <1>6, <1>7

LEMMA ReturnAdds ==
  ASSUME NEW m, Edits(m), Text(m) # << >>, ~Repeats(m), NEW r \in Return(m)
  PROVE  \E x \in Buffers :
           /\ Adds(m, r.editor, x)
           /\ r.line = x \/ \E i \in Places(m) : /\ r.line = m.history[i]
                                                 /\ m.heap[r.line].text = Text(m)
<1> DEFINE freed == [m EXCEPT !.heap[m.new] = Free]
<1>1. /\ m \in Editors /\ Good(m) /\ Written(m) /\ Separate(m)
      /\ m.new \in Buffers /\ m.edited \in Buffers
      /\ \A i \in Places(m) : m.history[i] \in Buffers
      /\ m.heap \in [Buffers -> Contents \cup {Free}]
      /\ Len(m.history) \in Nat /\ m.history \in Seq(Buffers)
      /\ Len(m.history) <= MaxHistory
      /\ m.entry \in {"new", "edited", "recalled"}
  BY FieldsAre DEF Edits, Good
<1>2. /\ EntryOf(m) \in Buffers /\ m.heap[EntryOf(m)] \in Contents
      /\ Text(m) = m.heap[EntryOf(m)].text
      /\ m.entry = "new" => EntryOf(m) = m.new
      /\ m.entry = "edited" => EntryOf(m) = m.edited
      /\ m.entry = "recalled" => EntryOf(m) = m.history[Recalled(m)]
      /\ m.entry # "new" => Recalled(m) \in Places(m)
  BY <1>1, EntryIs
<1>3. r.line = EntryOf(m)
  BY DEF Return, Repeats
<1>4. /\ freed \in Editors /\ freed.history = m.history
      /\ freed.heap = [m.heap EXCEPT ![m.new] = Free]
  BY <1>1 DEF Editors
<1>8. \A b \in Buffers : Append(m.history, b) \in Seq(Buffers)
  BY <1>1
<1>9. \E l : r = [editor |-> r.editor, line |-> l]
  BY DEF Return
<1>5. CASE m.entry = "new"
  <2>1. r.editor = [m EXCEPT !.history = Append(@, m.new)]
    BY <1>2, <1>5 DEF Return, Repeats
  <2>2. r.editor \in Editors /\ r.editor.history = Append(m.history, m.new)
        /\ r.editor.heap = m.heap
    BY <1>1, <1>8, <2>1 DEF Editors
  <2>3. Adds(m, r.editor, m.new)
    BY <1>1, <1>2, <1>5, <2>2 DEF Adds, Separate
  <2> QED
    BY <1>1, <1>2, <1>3, <1>5, <2>3
<1>6. CASE m.entry = "edited"
  <2>1. r.editor = [freed EXCEPT !.history = Append(@, EntryOf(m))]
    <3> DEFINE added == [freed EXCEPT !.history = Append(@, EntryOf(m))]
    <3>1. m.entry # "new" /\ m.entry # "recalled"
      BY <1>6
    <3>2. Return(m) = {[editor |-> added, line |-> EntryOf(m)]}
      BY <3>1 DEF Return, Repeats
    <3> QED
      BY <3>2
  <2> HIDE DEF freed
  <2>2. r.editor \in Editors /\ r.editor.history = Append(m.history, m.edited)
        /\ r.editor.heap = [m.heap EXCEPT ![m.new] = Free]
    <3> DEFINE history == Append(m.history, m.edited)
    <3>1. history \in Seq(Buffers)
      BY <1>1, <1>8
    <3>2. r.editor = [freed EXCEPT !.history = history]
      BY <1>2, <1>4, <1>6, <2>1
    <3> HIDE DEF history
    <3>3. /\ r.editor \in Editors /\ r.editor.history = history
          /\ r.editor.heap = freed.heap
      BY <1>4, <3>1, <3>2 DEF Editors
    <3> QED
      BY <1>4, <3>3 DEF history
  <2>3. Adds(m, r.editor, m.edited)
    BY <1>1, <1>2, <1>6, <2>2 DEF Adds, Separate
  <2> QED
    BY <1>1, <1>2, <1>3, <1>6, <2>3
<1>7. CASE m.entry = "recalled"
  <2> DEFINE copy == Malloc(Range(m.history))
             c == m.heap[EntryOf(m)]
  <2>1. copy \in Buffers /\ copy \notin Range(m.history)
    BY <1>1, MallocIs
  <2>2. \A i \in Places(m) : m.history[i] # copy
    <3>1. \A i \in Places(m) : m.history[i] \in Range(m.history)
      BY <1>1, PlacesAre
    <3> QED
      BY <2>1, <3>1
  <2>3. r.editor = [freed EXCEPT !.heap[copy] = c, !.history = Append(@, copy)]
    <3> DEFINE added == [freed EXCEPT !.heap[copy] = c, !.history = Append(@, copy)]
    <3>1. Return(m) = {[editor |-> added, line |-> EntryOf(m)]}
      BY <1>7 DEF Return, Repeats
    <3> QED
      BY <3>1
  <2> HIDE DEF freed, copy, c
  <2>4. r.editor \in Editors /\ r.editor.history = Append(m.history, copy)
        /\ r.editor.heap = [[m.heap EXCEPT ![m.new] = Free] EXCEPT ![copy] = c]
    <3> DEFINE heap == [[m.heap EXCEPT ![m.new] = Free] EXCEPT ![copy] = c]
               history == Append(m.history, copy)
    <3>1. heap \in [Buffers -> Contents \cup {Free}] /\ history \in Seq(Buffers)
      BY <1>1, <1>2, <1>8, <2>1 DEF c
    <3>2. r.editor = [freed EXCEPT !.heap = heap, !.history = history]
      BY <1>4, <2>3
    <3> HIDE DEF heap, history
    <3>3. /\ r.editor \in Editors /\ r.editor.history = history
          /\ r.editor.heap = heap
      BY <1>4, <3>1, <3>2 DEF Editors
    <3> QED
      BY <3>3 DEF heap, history
  <2>5. Adds(m, r.editor, copy)
    BY <1>1, <1>2, <2>1, <2>2, <2>4 DEF Adds, Separate, c
  <2> QED
    BY <1>1, <1>2, <1>3, <1>7, <2>1, <2>5
<1> QED
  BY <1>1, <1>5, <1>6, <1>7

\* The history behind the end of the call, and what is returned.
Ended(m, n, l) ==
  /\ Rests(n) /\ Kept(n)
  /\ l \in Buffers \cup {NewlineString, EndOfFile}
  /\ Text(m) = << >> \/ Repeats(m) => Texts(n) = Texts(m)
  /\ ~(Text(m) = << >> \/ Repeats(m)) => Texts(n) = Append(Texts(m), Text(m))
  /\ Text(m) # << >> => l \in Range(n.history) /\ n.heap[l].text = Text(m)
  /\ Text(m) = << >> => l \in {EndOfFile, NewlineString}

LEMMA EndIs ==
  ASSUME NEW m, Edits(m), NEW r \in Return(m),
         Len(r.editor.history) <= MaxHistory, NEW n, n = Forget(r.editor)
  PROVE  Ended(m, n, r.line)
<1> DEFINE k == r.editor
<1> HIDE DEF k
<1>1. /\ m \in Editors /\ Good(m) /\ Written(m) /\ Separate(m) /\ Kept(m)
      /\ Len(m.history) \in Nat /\ m.history \in Seq(Buffers)
      /\ \A i \in Places(m) : m.history[i] \in Buffers
      /\ Len(k.history) <= MaxHistory /\ n = Forget(k)
  BY FieldsAre DEF Edits, Good, Written, k
<1>2. /\ DOMAIN Texts(m) = Places(m)
      /\ \A i \in Places(m) : Texts(m)[i] = m.heap[m.history[i]].text
      /\ Texts(m) \in Seq(Seq(Characters)) /\ Len(Texts(m)) = Len(m.history)
  BY <1>1, TextsAre
<1>3. CASE Text(m) = << >> \/ Repeats(m)
  <2>1. /\ Keeps(m, k)
        /\ Text(m) # << >> => r.line = Last(m.history)
        /\ Text(m) = << >> => r.line \in {EndOfFile, NewlineString}
    BY <1>3, ReturnKeeps DEF k
  <2>2. Places(k) = Places(m) /\ k \in Editors
    BY <2>1 DEF Places, Keeps
  <2>3. \A i, j \in Places(k) : k.history[i] = k.history[j] => i = j
    BY <1>1, <2>1, <2>2 DEF Keeps, Separate
  <2>4. /\ Rests(n) /\ n.history = k.history
        /\ \A i \in Places(k) : n.heap[k.history[i]] = k.heap[k.history[i]]
    BY <1>1, <2>2, <2>3, ForgetIs
  <2>5. /\ n.history = m.history /\ Places(n) = Places(m) /\ n \in Editors
        /\ \A i \in Places(m) : n.heap[n.history[i]] = m.heap[m.history[i]]
    BY <2>1, <2>2, <2>4 DEF Keeps, Rests, Good, Places
  <2>6. Kept(n)
    BY <1>1, <2>5 DEF Kept
  <2>7. Texts(n) = Texts(m)
    <3>1. /\ DOMAIN Texts(n) = Places(m) /\ Texts(n) \in Seq(Seq(Characters))
          /\ Len(Texts(n)) = Len(m.history)
          /\ \A i \in Places(m) : Texts(n)[i] = n.heap[n.history[i]].text
      BY <2>5, <2>6, TextsAre
    <3>2. \A i \in Places(m) : Texts(n)[i] = Texts(m)[i]
      <4> SUFFICES ASSUME NEW i \in Places(m) PROVE Texts(n)[i] = Texts(m)[i]
        OBVIOUS
      <4>1. n.heap[n.history[i]] = m.heap[m.history[i]]
        BY <2>5
      <4> QED
        BY <1>2, <3>1, <4>1
    <3>3. 1..Len(Texts(n)) = Places(m)
      BY <3>1 DEF Places
    <3> QED
      BY <1>2, <3>1, <3>2, <3>3, SeqEqual
  <2>8. ASSUME Text(m) # << >>
        PROVE  /\ r.line \in Range(n.history) /\ n.heap[r.line].text = Text(m)
               /\ r.line \in Buffers
    <3>1. Repeats(m) /\ r.line = m.history[Len(m.history)]
      BY <1>3, <2>1, <2>8 DEF Last
    <3>2. Len(m.history) \in Places(m)
      BY <1>1, <3>1 DEF Repeats, Places
    <3>3. \A i \in Places(n) : n.history[i] \in Range(n.history)
      BY <2>5, PlacesAre
    <3>4. Text(m) = m.heap[m.history[Len(m.history)]].text
      BY <3>1 DEF Repeats, Last
    <3> QED
      BY <1>1, <2>5, <3>1, <3>2, <3>3, <3>4
  <2>9. r.line \in Buffers \cup {NewlineString, EndOfFile}
    BY <2>1, <2>8
  <2> QED
    BY <1>3, <2>1, <2>4, <2>6, <2>7, <2>8, <2>9 DEF Ended
<1>4. CASE Text(m) # << >> /\ ~Repeats(m)
  <2>1. PICK x \in Buffers :
          /\ Adds(m, k, x)
          /\ r.line = x \/ \E i \in Places(m) : /\ r.line = m.history[i]
                                                /\ m.heap[r.line].text = Text(m)
    BY <1>4, ReturnAdds DEF k
  <2> DEFINE new == Len(m.history) + 1
  <2>2. /\ k \in Editors /\ k.history = Append(m.history, x)
        /\ \A i \in Places(m) : k.heap[m.history[i]] = m.heap[m.history[i]]
        /\ \A i \in Places(m) : m.history[i] # x
        /\ k.heap[x] \in Contents /\ k.heap[x].text = Text(m)
    BY <2>1 DEF Adds
  <2>3. /\ Places(k) = Places(m) \cup {new} /\ new \notin Places(m)
        /\ new \in Places(k) /\ Len(k.history) = new
        /\ \A i \in Places(m) : k.history[i] = m.history[i]
        /\ k.history[new] = x
    BY <1>1, <2>2 DEF Places
  <2>4. \A i, j \in Places(k) : k.history[i] = k.history[j] => i = j
    <3> SUFFICES ASSUME NEW i \in Places(k), NEW j \in Places(k),
                        k.history[i] = k.history[j]
                 PROVE  i = j
      OBVIOUS
    <3>1. CASE i \in Places(m) /\ j \in Places(m)
      BY <1>1, <2>3, <3>1 DEF Separate
    <3>2. CASE i = new \/ j = new
      BY <2>2, <2>3, <3>2
    <3> QED
      BY <2>3, <3>1, <3>2
  <2>5. /\ Rests(n) /\ n.history = k.history
        /\ \A i \in Places(k) : n.heap[k.history[i]] = k.heap[k.history[i]]
    <3>1. k \in Editors /\ Len(k.history) <= MaxHistory /\ n = Forget(k)
      BY <1>1, <2>2
    <3> QED
      BY <2>4, <3>1, ForgetIs
  <2>6. Places(n) = Places(k) /\ n \in Editors
    BY <2>5 DEF Rests, Good, Places
  <2>7. /\ n.heap[x] = k.heap[x]
        /\ \A i \in Places(m) : n.heap[n.history[i]] = m.heap[m.history[i]]
        /\ n.history[new] = x
        /\ \A i \in Places(m) : n.history[i] = m.history[i]
    <3>1. n.history[new] = x /\ n.heap[x] = k.heap[x]
      BY <2>3, <2>5
    <3>2. \A i \in Places(m) : n.history[i] = m.history[i]
      BY <2>3, <2>5
    <3>3. \A i \in Places(m) : n.heap[m.history[i]] = k.heap[m.history[i]]
      BY <2>3, <2>5
    <3> QED
      BY <2>2, <3>1, <3>2, <3>3
  <2>8. Kept(n)
    BY <1>1, <2>2, <2>3, <2>6, <2>7 DEF Kept
  <2>9. Texts(n) = Append(Texts(m), Text(m))
    <3>1. /\ Texts(n) \in Seq(Seq(Characters)) /\ Len(Texts(n)) = Len(n.history)
          /\ \A i \in Places(n) : Texts(n)[i] = n.heap[n.history[i]].text
      BY <2>6, <2>8, TextsAre
    <3>2. Text(m) \in Seq(Characters)
      BY <2>2, ContentsAre
    <3>3. /\ Append(Texts(m), Text(m)) \in Seq(Seq(Characters))
          /\ Len(Append(Texts(m), Text(m))) = new
          /\ \A i \in Places(m) : Append(Texts(m), Text(m))[i] = Texts(m)[i]
          /\ Append(Texts(m), Text(m))[new] = Text(m)
      BY <1>1, <1>2, <3>2, AppendProperties DEF Places
    <3>4. Len(Texts(n)) = new /\ 1..new = Places(n)
      BY <2>3, <2>5, <3>1 DEF Places
    <3>5. \A i \in Places(n) : Texts(n)[i] = Append(Texts(m), Text(m))[i]
      <4>1. \A i \in Places(m) : Texts(n)[i] = Texts(m)[i]
        <5> SUFFICES ASSUME NEW i \in Places(m) PROVE Texts(n)[i] = Texts(m)[i]
          OBVIOUS
        <5>1. n.heap[n.history[i]] = m.heap[m.history[i]] /\ i \in Places(n)
          BY <2>3, <2>6, <2>7
        <5> QED
          BY <1>2, <3>1, <5>1
      <4>2. Texts(n)[new] = Text(m)
        <5>1. new \in Places(n) /\ n.heap[n.history[new]] = k.heap[x]
          BY <2>3, <2>6, <2>7
        <5> QED
          BY <2>2, <3>1, <5>1
      <4> QED
        BY <2>3, <2>6, <3>3, <4>1, <4>2
    <3> QED
      BY <3>1, <3>3, <3>4, <3>5, SeqEqual
  <2>10. /\ r.line \in Range(n.history) /\ n.heap[r.line].text = Text(m)
         /\ r.line \in Buffers
    <3>1. \A i \in Places(n) : n.history[i] \in Range(n.history)
      BY <2>6, PlacesAre
    <3>2. CASE r.line = x
      BY <2>1, <2>2, <2>3, <2>6, <2>7, <3>1, <3>2
    <3>3. CASE \E i \in Places(m) : /\ r.line = m.history[i]
                                    /\ m.heap[r.line].text = Text(m)
      BY <1>1, <2>3, <2>6, <2>7, <3>1, <3>3
    <3> QED
      BY <2>1, <3>2, <3>3
  <2> QED
    BY <1>4, <2>5, <2>8, <2>9, <2>10 DEF Ended
<1> QED
  BY <1>3, <1>4

(***************************************************************************)
(* The invariant is inductive, and every step is one of LineEditor.        *)
(***************************************************************************)
\* What LineEditor sees of an editor, a phase and a returned line.
SeenLines(m, p) ==
  (IF p \in {"script", "crashed"} THEN << >> ELSE Texts(m))
    \o << IF p = "reading" THEN NewText(m) ELSE << >> >>
SeenAt(m, p) == IF p \in {"script", "crashed"} THEN 1 ELSE Recalled(m)
SeenShown(m, p) == IF p = "reading" THEN Text(m) ELSE << >>
SeenReturned(m, l) ==
  IF l \in Range(m.history) THEN m.heap[l].text
  ELSE IF l = NewlineString THEN << >> ELSE l

\* While a line is edited.
LEMMA SeenReading ==
  ASSUME NEW m, Edits(m)
  PROVE  /\ SeenLines(m, "reading") = Lines(m)
         /\ SeenAt(m, "reading") = Recalled(m)
         /\ SeenShown(m, "reading") = Text(m)
         /\ SeenReturned(m, Nothing) = Nothing
<1>1. m \in Editors
  BY DEF Edits, Good
<1>2. Nothing \notin Range(m.history) /\ Nothing # NewlineString
  <2>1. \A x \in Range(m.history) : x \in Buffers
    <3>1. \A i \in Places(m) : m.history[i] \in Buffers
      BY <1>1, FieldsAre
    <3>2. Range(m.history) = {m.history[i] : i \in Places(m)}
      BY <1>1, FieldsAre
    <3> QED
      BY <3>1, <3>2
  <2> QED
    BY <2>1, NamesAssumption
<1> QED
  BY <1>2 DEF SeenLines, SeenAt, SeenShown, SeenReturned, Lines

\* Between two lines.
LEMMA SeenResting ==
  ASSUME NEW m, Rests(m), NEW p, p # "reading"
  PROVE  /\ SeenLines(m, p) = Append(IF p \in {"script", "crashed"} THEN << >>
                                     ELSE Texts(m), << >>)
         /\ SeenAt(m, p) = Len(SeenLines(m, p))
         /\ SeenLines(m, p)[Len(SeenLines(m, p))] = << >>
         /\ SeenShown(m, p) = << >>
<1> DEFINE h == IF p \in {"script", "crashed"} THEN << >> ELSE Texts(m)
           S == {Texts(m)[i] : i \in Places(m)} \cup {<< >>}
<1>1. /\ m \in Editors /\ Len(m.history) \in Nat
      /\ m.historyPosition = Len(m.history)
      /\ DOMAIN Texts(m) = Places(m)
  BY FieldsAre, TextsAre DEF Rests, Good
<1>2. Texts(m) \in Seq(S) /\ Len(Texts(m)) = Len(m.history)
  <2>1. Texts(m) = [i \in 1..Len(m.history) |-> Texts(m)[i]]
    BY <1>1 DEF Texts, Places
  <2>2. \A i \in 1..Len(m.history) : Texts(m)[i] \in S
    BY DEF Places
  <2> QED
    BY <1>1, <2>1, <2>2
<1>3. h \in Seq(S) /\ << >> \in S
  BY <1>2
<1>4. SeenLines(m, p) = h \o << << >> >> /\ SeenShown(m, p) = << >>
  BY DEF SeenLines, SeenShown
<1>5. SeenAt(m, p) = Len(h) + 1
  <2>1. CASE p \in {"script", "crashed"}
    BY <2>1 DEF SeenAt
  <2>2. CASE p \notin {"script", "crashed"}
    BY <1>1, <1>2, <2>2 DEF SeenAt, Recalled
  <2> QED
    BY <2>1, <2>2
<1> HIDE DEF h, S
<1>6. /\ h \o << << >> >> = Append(h, << >>)
      /\ Len(h \o << << >> >>) = Len(h) + 1
      /\ (h \o << << >> >>)[Len(h) + 1] = << >>
  <2>1. h \o << << >> >> = Append(h, << >>)
    BY <1>3, AppendIsConcat
  <2> QED
    BY <1>3, <2>1, OneMoreIs
<1>7. SeenLines(m, p) = Append(h, << >>)
  BY <1>4, <1>6
<1> QED
  BY <1>4, <1>5, <1>6, <1>7 DEF h

LEMMA InitE == Init => EInv
<1> SUFFICES ASSUME Init PROVE EInv
  OBVIOUS
<1>1. /\ editor.heap = [b \in Buffers |-> Free] /\ editor.history = << >>
      /\ editor.new = Nowhere /\ editor.edited = Nowhere /\ editor.entry = "new"
      /\ editor.historyPosition = 0 /\ editor.position = 0
      /\ phase = "prompt" /\ line = Nothing
      /\ editor \in Editors
  BY NowhereIs DEF Init, Editors
<1>2. Len(editor.history) = 0 /\ Places(editor) = {} /\ 0 <= MaxHistory
  BY <1>1, EditorAssumption DEF Places
<1>3. Rests(editor)
  BY <1>1, <1>2 DEF Rests, Good, Separate
<1>4. Kept(editor)
  BY <1>2 DEF Kept
<1> QED
  BY <1>1, <1>3, <1>4 DEF EInv, Reading, InScript

\* A key leads to a state in which the line is still edited.
LEMMA KeyStep ==
  ASSUME EInv, Key, Edits(editor')
  PROVE  EInv'
<1>1. phase' = "reading" /\ line' = Nothing
  BY DEF EInv, Key, Reading
<1>2. Edits(editor)'
  BY DEF Edits, Good, Written, Kept, Separate, Places, Text, EntryOf, Recalled
<1>3. Kept(editor)'
  BY <1>2 DEF Edits, Written
<1> QED
  BY <1>1, <1>2, <1>3 DEF EInv, Reading, InScript

LEMMA KeyIs ==
  ASSUME EInv, Key
  PROVE  /\ Edits(editor) /\ phase = "reading" /\ line = Nothing
         /\ phase' = "reading" /\ line' = Nothing
BY DEF EInv, Key, Reading

\* The text of the line becomes another one.
LEMMA BecomesStep ==
  ASSUME EInv, Key, Edits(editor'), NEW text, NEW p,
         Text(editor') = text, editor'.position = p,
         editor'.historyPosition = editor.historyPosition,
         editor.entry = "new" =>
           /\ editor'.entry = "new"
           /\ Lines(editor') = [Lines(editor) EXCEPT ![Recalled(editor)] = text],
         editor.entry # "new" =>
           editor'.entry = "edited" /\ Lines(editor') = Lines(editor)
  PROVE  EditedLines!Becomes(text, p, FALSE)
<1>1. /\ Edits(editor) /\ phase = "reading" /\ line = Nothing
      /\ phase' = "reading" /\ line' = Nothing
  BY KeyIs
<1>2. /\ SeenLines(editor, "reading") = Lines(editor)
      /\ SeenAt(editor, "reading") = Recalled(editor)
      /\ SeenShown(editor, "reading") = Text(editor)
      /\ SeenReturned(editor, Nothing) = Nothing
  BY <1>1, SeenReading
<1>3. /\ SeenLines(editor', "reading") = Lines(editor')
      /\ SeenAt(editor', "reading") = Recalled(editor')
      /\ SeenShown(editor', "reading") = Text(editor')
      /\ SeenReturned(editor', Nothing) = Nothing
  BY SeenReading
<1>4. Recalled(editor') = Recalled(editor)
  BY DEF Recalled
<1>5. editor.entry = "new" <=> Recalled(editor) = Len(Lines(editor))
  BY <1>1, LinesAre DEF Edits
<1>6. /\ SeenShown(editor', phase') = text /\ editor'.position = p
      /\ SeenAt(editor', phase') = SeenAt(editor, phase)
      /\ SeenReturned(editor', line') = SeenReturned(editor, line)
  BY <1>1, <1>2, <1>3, <1>4
<1>7. SeenLines(editor', phase') =
        IF SeenAt(editor, phase) = Len(SeenLines(editor, phase))
        THEN [SeenLines(editor, phase) EXCEPT ![SeenAt(editor, phase)] = text]
        ELSE SeenLines(editor, phase)
  BY <1>1, <1>2, <1>3, <1>5
<1>8. editor'.entry = "edited"
        <=> SeenAt(editor, phase) # Len(SeenLines(editor, phase))
  BY <1>1, <1>2, <1>5
<1> QED
  BY <1>6, <1>7, <1>8
  DEF EditedLines!Becomes, EditedLines!New, SeenLines, SeenAt, SeenShown,
      SeenReturned, Reading, InScript, Texts, NewText

\* A completion changes the line at once, also a recalled one.
LEMMA CompletesStep ==
  ASSUME EInv, Key, Edits(editor'), NEW text, NEW p,
         Text(editor') = text, editor'.position = p,
         editor'.historyPosition = editor.historyPosition,
         editor'.entry = editor.entry,
         editor.entry = "edited" => Lines(editor') = Lines(editor),
         editor.entry # "edited" =>
           Lines(editor') = [Lines(editor) EXCEPT ![Recalled(editor)] = text]
  PROVE  EditedLines!Becomes(text, p, ~(editor.entry = "edited"))
<1>1. /\ Edits(editor) /\ phase = "reading" /\ line = Nothing
      /\ phase' = "reading" /\ line' = Nothing
  BY KeyIs
<1>2. /\ SeenLines(editor, "reading") = Lines(editor)
      /\ SeenAt(editor, "reading") = Recalled(editor)
      /\ SeenShown(editor, "reading") = Text(editor)
      /\ SeenReturned(editor, Nothing) = Nothing
  BY <1>1, SeenReading
<1>3. /\ SeenLines(editor', "reading") = Lines(editor')
      /\ SeenAt(editor', "reading") = Recalled(editor')
      /\ SeenShown(editor', "reading") = Text(editor')
      /\ SeenReturned(editor', Nothing) = Nothing
  BY SeenReading
<1>4. Recalled(editor') = Recalled(editor)
  BY DEF Recalled
<1>5. editor.entry = "new" <=> Recalled(editor) = Len(Lines(editor))
  BY <1>1, LinesAre DEF Edits
<1>6. /\ SeenShown(editor', phase') = text /\ editor'.position = p
      /\ SeenAt(editor', phase') = SeenAt(editor, phase)
      /\ SeenReturned(editor', line') = SeenReturned(editor, line)
  BY <1>1, <1>2, <1>3, <1>4
<1>7. SeenLines(editor', phase') =
        IF SeenAt(editor, phase) = Len(SeenLines(editor, phase))
           \/ ~(editor.entry = "edited")
        THEN [SeenLines(editor, phase) EXCEPT ![SeenAt(editor, phase)] = text]
        ELSE SeenLines(editor, phase)
  BY <1>1, <1>2, <1>3, <1>5
<1>8. editor'.entry = "edited"
        <=> /\ SeenAt(editor, phase) # Len(SeenLines(editor, phase))
            /\ editor.entry = "edited"
  BY <1>1, <1>2, <1>5
<1> QED
  BY <1>6, <1>7, <1>8
  DEF EditedLines!Becomes, EditedLines!New, SeenLines, SeenAt, SeenShown,
      SeenReturned, Reading, InScript, Texts, NewText

\* A key that changes a line begins to edit it.
LEMMA BegunIs ==
  ASSUME NEW m, Edits(m), NEW b, b = BeginEdit(m), NEW n, NEW text, NEW p,
         Shows(b, n, text, p)
  PROVE  /\ Edits(n) /\ Text(n) = text /\ n.position = p
         /\ n.historyPosition = m.historyPosition
         /\ m.entry = "new" =>
              /\ n.entry = "new"
              /\ Lines(n) = [Lines(m) EXCEPT ![Recalled(m)] = text]
         /\ m.entry # "new" => n.entry = "edited" /\ Lines(n) = Lines(m)
<1>1. /\ Edits(b) /\ Lines(b) = Lines(m)
      /\ b.historyPosition = m.historyPosition
      /\ b.entry = IF m.entry = "recalled" THEN "edited" ELSE m.entry
  BY BeginEditIs
<1>2. Recalled(b) = Recalled(m)
  BY <1>1 DEF Recalled
<1>3. m.entry \in {"new", "edited", "recalled"}
  BY FieldsAre DEF Edits, Good
<1> QED
  BY <1>1, <1>2, <1>3 DEF Shows

\* The line stays as it is.
LEMMA UntouchedShows ==
  ASSUME NEW m, Edits(m), m.entry # "recalled"
  PROVE  Shows(m, m, Text(m), m.position)
<1>1. CASE m.entry = "edited"
  BY <1>1 DEF Shows
<1>2. CASE m.entry # "edited"
  BY <1>2, LineIsShown DEF Shows, Edits
<1> QED
  BY <1>1, <1>2

LEMMA AddCharacterStep ==
  ASSUME EInv, AddCharacter
  PROVE  EInv' /\ \E c \in Characters : EditedLines!Type(c)
<1> DEFINE b == BeginEdit(editor)
<1>1. /\ Edits(editor) /\ phase = "reading" /\ Key
  BY KeyIs DEF AddCharacter
<1>2. /\ Edits(b) /\ Text(b) = Text(editor) /\ b.position = editor.position
  BY <1>1, BeginEditIs
<1> HIDE DEF b
<1>3. PICK c \in Characters : editor' = AddToBuffer(b, c)
  BY DEF AddCharacter, b
<1> DEFINE text == With(Text(editor), editor.position, c)
           p == editor.position + 1
<1>4. Shows(b, editor', text, p)
  BY <1>2, <1>3, AddToBufferIs
<1> HIDE DEF text, p
<1>5. /\ Edits(editor') /\ Text(editor') = text /\ editor'.position = p
      /\ editor'.historyPosition = editor.historyPosition
      /\ editor.entry = "new" =>
           /\ editor'.entry = "new"
           /\ Lines(editor') = [Lines(editor) EXCEPT ![Recalled(editor)] = text]
      /\ editor.entry # "new" =>
           editor'.entry = "edited" /\ Lines(editor') = Lines(editor)
  BY <1>1, <1>4, BegunIs DEF b
<1>6. EditedLines!Becomes(text, p, FALSE)
  BY <1>1, <1>5, BecomesStep
<1>7. EditedLines!Type(c)
  BY <1>1, <1>6 DEF EditedLines!Type, EditedLines!Insert, With, Reading, text, p
<1> QED
  BY <1>1, <1>5, <1>7, KeyStep

LEMMA TabStep ==
  ASSUME EInv, Tab
  PROVE  EInv' /\ \E c \in Characters : EditedLines!Complete(c)
<1>1. /\ Edits(editor) /\ phase = "reading" /\ Key
  BY KeyIs DEF Tab
<1>2. PICK c \in Characters : editor' = AddToBuffer(editor, c)
  BY DEF Tab
<1> DEFINE text == With(Text(editor), editor.position, c)
           p == editor.position + 1
<1>3. Shows(editor, editor', text, p)
  BY <1>1, <1>2, AddToBufferIs
<1> HIDE DEF text, p
<1>4. EditedLines!Becomes(text, p, ~(editor.entry = "edited"))
  BY <1>1, <1>3, CompletesStep DEF Shows
<1>5. EditedLines!Complete(c)
  BY <1>1, <1>4
  DEF EditedLines!Complete, EditedLines!Insert, With, Reading, text, p
<1> QED
  BY <1>1, <1>3, <1>5, KeyStep DEF Shows

\* What the keys that change a line have in common.
LEMMA EditStep ==
  ASSUME EInv, Key, NEW b, b = BeginEdit(editor), NEW text, NEW p,
         Shows(b, editor', text, p)
  PROVE  EInv' /\ EditedLines!Becomes(text, p, FALSE)
<1>1. Edits(editor)
  BY KeyIs
<1>2. /\ Edits(editor') /\ Text(editor') = text /\ editor'.position = p
      /\ editor'.historyPosition = editor.historyPosition
      /\ editor.entry = "new" =>
           /\ editor'.entry = "new"
           /\ Lines(editor') = [Lines(editor) EXCEPT ![Recalled(editor)] = text]
      /\ editor.entry # "new" =>
           editor'.entry = "edited" /\ Lines(editor') = Lines(editor)
  BY <1>1, BegunIs
<1> QED
  BY <1>2, BecomesStep, KeyStep

\* A key that has nothing to erase.
LEMMA TouchStep ==
  ASSUME EInv, Key, editor' = BeginEdit(editor),
         editor.position \in {0, Len(Text(editor))}
  PROVE  EInv' /\ EditedLines!Touch
<1> DEFINE b == BeginEdit(editor)
<1>1. Edits(editor) /\ phase = "reading"
  BY KeyIs
<1>2. /\ Edits(b) /\ Text(b) = Text(editor) /\ b.position = editor.position
      /\ b.entry # "recalled"
  BY <1>1, BeginEditIs
<1>3. Shows(b, editor', Text(editor), editor.position)
  BY <1>2, UntouchedShows
<1>4. EInv' /\ EditedLines!Becomes(Text(editor), editor.position, FALSE)
  BY <1>3, EditStep
<1> QED
  BY <1>1, <1>4 DEF EditedLines!Touch, Reading

LEMMA BackspaceStep ==
  ASSUME EInv, Backspace
  PROVE  EInv' /\ (EditedLines!Touch \/ EditedLines!Erase)
<1> DEFINE b == BeginEdit(editor)
           at == editor.position - 1
<1>1. Edits(editor) /\ phase = "reading" /\ Key
  BY KeyIs DEF Backspace
<1>2. Edits(b) /\ Text(b) = Text(editor) /\ b.position = editor.position
  BY <1>1, BeginEditIs
<1>3. /\ editor.position \in Nat /\ editor.position <= Len(Text(editor))
      /\ Len(Text(editor)) \in Nat
  BY <1>1, FieldsAre, EntryIs DEF Edits, Good
<1>4. editor' = IF b.position = 0 THEN b ELSE DeleteAt(b, b.position - 1)
  BY DEF Backspace
<1> HIDE DEF b
<1>5. CASE editor.position = 0
  <2>1. editor' = BeginEdit(editor)
    BY <1>2, <1>4, <1>5 DEF b
  <2> QED
    BY <1>1, <1>5, <2>1, TouchStep
<1>6. CASE editor.position # 0
  <2>1. /\ at \in Nat /\ at < Len(Text(editor)) /\ editor' = DeleteAt(b, at)
        /\ editor.position > 0 /\ at + 2 = editor.position + 1
    BY <1>2, <1>3, <1>4, <1>6
  <2> DEFINE text == Without(Text(editor), at)
  <2> HIDE DEF at
  <2>2. Shows(b, editor', text, at)
    BY <1>2, <2>1, DeleteAtIs
  <2> HIDE DEF text
  <2>3. EInv' /\ EditedLines!Becomes(text, at, FALSE)
    BY <1>1, <2>2, EditStep DEF b
  <2>4. text = SubSeq(Text(editor), 1, editor.position - 1)
                 \o SubSeq(Text(editor), editor.position + 1, Len(Text(editor)))
    BY <2>1 DEF text, Without, at
  <2>5. EditedLines!Erase
    BY <1>1, <2>1, <2>3, <2>4
    DEF EditedLines!Erase, EditedLines!Without, Reading, at
  <2> QED
    BY <2>3, <2>5
<1> QED
  BY <1>5, <1>6

LEMMA DeleteKeyStep ==
  ASSUME EInv, DeleteKey
  PROVE  EInv' /\ (EditedLines!Touch \/ EditedLines!Erase)
<1> DEFINE b == BeginEdit(editor)
           at == editor.position
<1>1. Edits(editor) /\ phase = "reading" /\ Key
  BY KeyIs DEF DeleteKey
<1>2. Edits(b) /\ Text(b) = Text(editor) /\ b.position = editor.position
  BY <1>1, BeginEditIs
<1>3. /\ editor.position \in Nat /\ editor.position <= Len(Text(editor))
      /\ Len(Text(editor)) \in Nat
  BY <1>1, FieldsAre, EntryIs DEF Edits, Good
<1>4. editor' = IF b.position = Len(Text(b)) THEN b ELSE DeleteAt(b, b.position)
  BY DEF DeleteKey
<1> HIDE DEF b
<1>5. CASE editor.position = Len(Text(editor))
  <2>1. editor' = BeginEdit(editor)
    BY <1>2, <1>4, <1>5 DEF b
  <2> QED
    BY <1>1, <1>5, <2>1, TouchStep
<1>6. CASE editor.position # Len(Text(editor))
  <2>1. at \in Nat /\ at < Len(Text(editor)) /\ editor' = DeleteAt(b, at)
    BY <1>2, <1>3, <1>4, <1>6
  <2> DEFINE text == Without(Text(editor), at)
  <2> HIDE DEF at
  <2>2. Shows(b, editor', text, at)
    BY <1>2, <2>1, DeleteAtIs
  <2> HIDE DEF text
  <2>3. EInv' /\ EditedLines!Becomes(text, at, FALSE)
    BY <1>1, <2>2, EditStep DEF b
  <2>4. (editor.position + 1) - 1 = at /\ (editor.position + 1) + 1 = at + 2
    BY <1>3 DEF at
  <2>5. text = SubSeq(Text(editor), 1, (editor.position + 1) - 1)
                 \o SubSeq(Text(editor), (editor.position + 1) + 1,
                           Len(Text(editor)))
    BY <2>4 DEF text, Without
  <2>6. EditedLines!Erase
    BY <1>1, <2>1, <2>3, <2>5
    DEF EditedLines!Erase, EditedLines!Without, Reading, at
  <2> QED
    BY <2>3, <2>6
<1> QED
  BY <1>5, <1>6

\* Left and Right.
LEMMA MoveStep ==
  ASSUME EInv, Key, NEW p, p \in {editor.position - 1, editor.position + 1},
         p \in 0..Len(Text(editor)), editor' = [editor EXCEPT !.position = p]
  PROVE  EInv' /\ EditedLines!Move
<1>1. /\ Edits(editor) /\ phase = "reading" /\ line = Nothing
      /\ phase' = "reading" /\ line' = Nothing
  BY KeyIs
<1>2. p \in Nat /\ p <= Len(Text(editor))
  OBVIOUS
<1>3. /\ Edits(editor') /\ Text(editor') = Text(editor)
      /\ editor'.position = p /\ editor'.entry = editor.entry
      /\ editor'.historyPosition = editor.historyPosition
      /\ editor'.history = editor.history /\ Lines(editor') = Lines(editor)
  BY <1>1, <1>2, CursorMoves
<1>4. /\ SeenLines(editor', phase') = SeenLines(editor, phase)
      /\ SeenAt(editor', phase') = SeenAt(editor, phase)
      /\ SeenShown(editor', phase') = SeenShown(editor, phase)
      /\ SeenReturned(editor', line') = SeenReturned(editor, line)
      /\ SeenShown(editor, phase) = Text(editor)
  BY <1>1, <1>3, SeenReading DEF Recalled
<1>5. EditedLines!Move
  BY <1>3, <1>4
  DEF EditedLines!Move, SeenLines, SeenAt, SeenShown, SeenReturned, Reading,
      InScript, Texts, NewText
<1> QED
  BY <1>3, <1>5, KeyStep

\* Up and Down.
LEMMA RecallStep ==
  ASSUME EInv, Key, NEW to,
         to \in {editor.historyPosition - 1, editor.historyPosition + 1},
         to \in 0..Len(editor.history), editor' = Recall(editor, to)
  PROVE  EInv' /\ EditedLines!Recall
<1>1. /\ Edits(editor) /\ phase = "reading" /\ line = Nothing
      /\ phase' = "reading" /\ line' = Nothing
      /\ editor \in Editors /\ editor.historyPosition \in Nat
      /\ Len(editor.history) \in Nat
  BY KeyIs, FieldsAre DEF Edits, Good
<1>2. to \in Nat /\ to <= Len(editor.history)
  BY <1>1
<1>3. /\ Edits(editor') /\ editor'.historyPosition = to
      /\ editor'.entry # "edited" /\ editor'.position = Len(Text(editor'))
      /\ Lines(editor') = [Lines(editor) EXCEPT ![Recalled(editor)] = Text(editor)]
  BY <1>1, <1>2, RecallIs
<1> DEFINE i == to + 1
<1>4. /\ i \in {Recalled(editor) - 1, Recalled(editor) + 1}
      /\ i \in DOMAIN Lines(editor) /\ i = Recalled(editor')
  <2>1. DOMAIN Lines(editor) = 1..Len(editor.history) + 1
    BY <1>1, LinesAre DEF Edits
  <2> QED
    BY <1>1, <1>2, <1>3, <2>1 DEF Recalled
<1>5. Lines(editor')[i] = Text(editor')
  BY <1>3, <1>4, LinesAre DEF Edits
<1> HIDE DEF i
<1>6. /\ SeenLines(editor, phase) = Lines(editor)
      /\ SeenAt(editor, phase) = Recalled(editor)
      /\ SeenShown(editor, phase) = Text(editor)
      /\ SeenReturned(editor, line) = Nothing
  BY <1>1, SeenReading
<1>7. /\ SeenLines(editor', phase') = Lines(editor')
      /\ SeenAt(editor', phase') = i
      /\ SeenShown(editor', phase') = Text(editor')
      /\ SeenReturned(editor', line') = Nothing
  BY <1>1, <1>3, <1>4, SeenReading
<1>8. /\ i \in {SeenAt(editor, phase) - 1, SeenAt(editor, phase) + 1}
               \cap DOMAIN SeenLines(editor, phase)
      /\ SeenLines(editor', phase')
           = [SeenLines(editor, phase) EXCEPT
                ![SeenAt(editor, phase)] = SeenShown(editor, phase)]
      /\ SeenAt(editor', phase') = i
      /\ SeenShown(editor', phase') = SeenLines(editor', phase')[i]
      /\ editor'.position = Len(SeenLines(editor', phase')[i])
      /\ SeenReturned(editor', line') = SeenReturned(editor, line)
  <2>1. i \in {SeenAt(editor, phase) - 1, SeenAt(editor, phase) + 1}
              \cap DOMAIN SeenLines(editor, phase)
    BY <1>4, <1>6
  <2>2. SeenLines(editor', phase')
          = [SeenLines(editor, phase) EXCEPT
               ![SeenAt(editor, phase)] = SeenShown(editor, phase)]
    BY <1>3, <1>6, <1>7
  <2>3. /\ SeenAt(editor', phase') = i
        /\ SeenShown(editor', phase') = SeenLines(editor', phase')[i]
        /\ editor'.position = Len(SeenLines(editor', phase')[i])
        /\ SeenReturned(editor', line') = SeenReturned(editor, line)
    BY <1>3, <1>5, <1>6, <1>7
  <2> QED
    BY <2>1, <2>2, <2>3
<1>9. EditedLines!Recall
  BY <1>3, <1>8
  DEF EditedLines!Recall, EditedLines!Shows, SeenLines, SeenAt, SeenShown,
      SeenReturned, Reading, InScript, Texts, NewText
<1> QED
  BY <1>3, <1>9, KeyStep

\* The new line is empty, and was it before.
LEMMA BeginLineStep ==
  ASSUME EInv, BeginLine
  PROVE  EInv' /\ EditedLines!Prompt
<1>1. /\ phase = "prompt" /\ phase' = "reading" /\ line' = Nothing
      /\ editor' = [editor EXCEPT !.heap[editor.new] = Fresh(<< >>)]
  BY DEF BeginLine
<1>2. /\ Rests(editor) /\ Kept(editor) /\ Good(editor) /\ editor \in Editors
      /\ Separate(editor) /\ editor.entry = "new" /\ editor.position = 0
  BY <1>1 DEF EInv, Reading, InScript, Rests, Good
<1>3. /\ editor.heap \in [Buffers -> Contents \cup {Free}]
      /\ editor.new \in Buffers
      /\ \A i \in Places(editor) : editor.history[i] \in Buffers
  BY <1>2, FieldsAre
<1>4. << >> \in Seq(Characters) /\ Len(<< >>) = 0
  OBVIOUS
<1> DEFINE fresh == Fresh(<< >>)
<1>5. fresh \in Contents /\ fresh.text = << >>
  BY <1>4, ContentsAre
<1> HIDE DEF fresh
<1>6. /\ editor' \in Editors
      /\ editor'.heap = [editor.heap EXCEPT ![editor.new] = fresh]
      /\ editor'.history = editor.history /\ editor'.new = editor.new
      /\ editor'.edited = editor.edited /\ editor'.entry = editor.entry
      /\ editor'.historyPosition = editor.historyPosition
      /\ editor'.position = editor.position
  <2> DEFINE heap == [editor.heap EXCEPT ![editor.new] = fresh]
  <2>1. heap \in [Buffers -> Contents \cup {Free}]
    BY <1>3, <1>5
  <2>2. editor' = [editor EXCEPT !.heap = heap]
    BY <1>1 DEF fresh
  <2> HIDE DEF heap
  <2>3. /\ editor' \in Editors /\ editor'.heap = heap
        /\ editor'.history = editor.history /\ editor'.new = editor.new
        /\ editor'.edited = editor.edited /\ editor'.entry = editor.entry
        /\ editor'.historyPosition = editor.historyPosition
        /\ editor'.position = editor.position
    BY <1>2, <2>1, <2>2 DEF Editors
  <2> QED
    BY <2>3 DEF heap
<1>7. /\ \A i \in Places(editor) : editor'.heap[editor.history[i]]
                                     = editor.heap[editor.history[i]]
      /\ editor'.heap[editor.new] = fresh
  BY <1>2, <1>3, <1>6 DEF Separate
<1>8. Places(editor') = Places(editor)
  BY <1>6 DEF Places
<1>9. Good(editor')
  <2>1. Separate(editor')
    BY <1>2, <1>6, <1>8 DEF Separate
  <2> QED
    BY <1>2, <1>6, <2>1 DEF Good
<1>10. Written(editor')
  BY <1>2, <1>5, <1>6, <1>7, <1>8 DEF Written, Kept
<1>11. EntryOf(editor') = editor.new
  BY <1>2, <1>6 DEF EntryOf
<1>12. Text(editor') = << >> /\ NewText(editor') = << >>
  BY <1>5, <1>6, <1>7, <1>11 DEF Text, NewText
<1>13. Edits(editor')
  BY <1>2, <1>4, <1>6, <1>9, <1>10, <1>12 DEF Edits
<1>14. EInv'
  <2>1. Edits(editor)'
    BY <1>13
    DEF Edits, Good, Written, Kept, Separate, Places, Text, EntryOf, Recalled
  <2>2. Kept(editor)'
    BY <2>1 DEF Edits, Written
  <2> QED
    BY <1>1, <2>1, <2>2 DEF EInv, Reading, InScript
<1>15. Texts(editor') = Texts(editor)
  <2>1. DOMAIN editor.history = Places(editor)
    BY <1>2, FieldsAre
  <2> QED
    BY <1>6, <1>7, <2>1 DEF Texts
<1>16. /\ SeenLines(editor', phase') = SeenLines(editor, phase)
       /\ SeenAt(editor', phase') = SeenAt(editor, phase)
       /\ SeenShown(editor', phase') = SeenShown(editor, phase)
       /\ SeenReturned(editor', line') = Nothing
  <2>1. Recalled(editor') = Recalled(editor)
    BY <1>6 DEF Recalled
  <2>2. SeenReturned(editor', line') = Nothing
    BY <1>1, <1>13, SeenReading
  <2>3. SeenLines(editor', phase') = SeenLines(editor, phase)
    BY <1>1, <1>12, <1>15 DEF SeenLines
  <2>4. /\ SeenAt(editor', phase') = SeenAt(editor, phase)
        /\ SeenShown(editor', phase') = SeenShown(editor, phase)
    BY <1>1, <1>12, <2>1 DEF SeenAt, SeenShown
  <2> QED
    BY <2>2, <2>3, <2>4
<1>17. EditedLines!Prompt
  BY <1>6, <1>16
  DEF EditedLines!Prompt, SeenLines, SeenAt, SeenShown, SeenReturned, Reading,
      InScript, Texts, NewText
<1> QED
  BY <1>14, <1>17

\* The end of the call: m is the editor when the line is entered.
LEMMA EndStep ==
  ASSUME EInv, Reading, NEW m, Edits(m),
         Text(m) = Text(editor), Lines(m) = Lines(editor),
         m.history = editor.history,
         EndLine(m), phase' \in {"prompt", "over"}
  PROVE  EInv' /\ \E wanted \in {<< >>, EndOfFile} : EditedLines!Return(wanted)
<1>1. PICK r \in Return(m) :
        /\ Len(r.editor.history) <= MaxHistory
        /\ editor' = Forget(r.editor)
        /\ line' = r.line
  BY DEF EndLine
<1>2. Ended(m, editor', line')
  BY <1>1, EndIs
<1>3. Edits(editor) /\ phase = "reading" /\ line = Nothing
  BY DEF EInv, Reading
<1>4. EInv'
  <2>1. Rests(editor)' /\ Kept(editor)'
    BY <1>2 DEF Ended, Rests, Good, Separate, Places, Kept
  <2> QED
    BY <1>2, <2>1 DEF EInv, Ended, Reading, InScript
<1> DEFINE h == SubSeq(Lines(m), 1, Len(Lines(m)) - 1)
           text == Text(m)
           repeats == h # << >> /\ text = Lines(m)[Len(Lines(m)) - 1]
<1>5. h = Texts(m) /\ Len(Lines(m)) - 1 = Len(m.history)
  <2>1. /\ Len(Lines(m)) = Len(m.history) + 1 /\ Len(m.history) \in Nat
        /\ SubSeq(Lines(m), 1, Len(m.history)) = Texts(m)
    BY LinesAre, FieldsAre DEF Edits, Good
  <2>2. Len(Lines(m)) - 1 = Len(m.history)
    BY <2>1
  <2> QED
    BY <2>1, <2>2
<1>6. repeats <=> Repeats(m)
  <2>1. /\ Len(m.history) \in Nat /\ m.history \in Seq(Buffers)
        /\ Texts(m) \in Seq(Seq(Characters)) /\ Len(Texts(m)) = Len(m.history)
    BY FieldsAre, TextsAre DEF Edits, Good, Written
  <2>2. h # << >> <=> m.history # << >>
    <3>1. Texts(m) = << >> <=> Len(Texts(m)) = 0
      BY <2>1, EmptySeq
    <3>2. m.history = << >> <=> Len(m.history) = 0
      BY <2>1, EmptySeq
    <3> QED
      BY <1>5, <2>1, <3>1, <3>2
  <2>3. m.history # << >> =>
          Lines(m)[Len(m.history)] = m.heap[Last(m.history)].text
    <3>1. m.history # << >> => Len(m.history) \in Places(m)
      BY <2>1 DEF Places
    <3> QED
      BY <3>1, LinesAre DEF Edits, Last
  <2> QED
    BY <1>5, <2>2, <2>3 DEF Repeats
<1> HIDE DEF repeats, h, text
<1>7. /\ SeenLines(editor, phase) = Lines(m)
      /\ SeenShown(editor, phase) = text
  BY <1>3, SeenReading DEF text
<1> DEFINE kept == IF text = << >> \/ repeats THEN h ELSE Append(h, text)
<1>8. SeenLines(editor', phase') = Append(kept, << >>)
  <2>1. Rests(editor') /\ phase' # "reading" /\ phase' \notin {"script", "crashed"}
    BY <1>2 DEF Ended
  <2>2. SeenLines(editor', phase') = Append(Texts(editor'), << >>)
    BY <2>1, SeenResting
  <2>3. Texts(editor') = kept
    BY <1>2, <1>5, <1>6 DEF Ended, text
  <2> QED
    BY <2>2, <2>3
<1>9. /\ SeenAt(editor', phase') = Len(SeenLines(editor', phase'))
      /\ SeenLines(editor', phase')[Len(SeenLines(editor', phase'))] = << >>
      /\ SeenShown(editor', phase') = << >>
      /\ editor'.position = 0 /\ editor'.entry = "new"
  <2>1. Rests(editor') /\ phase' # "reading"
    BY <1>2 DEF Ended
  <2> QED
    BY <2>1, SeenResting DEF Rests
<1>10. text # << >> => SeenReturned(editor', line') = text
  BY <1>2 DEF Ended, SeenReturned, text
<1>11. text = << >> => SeenReturned(editor', line') \in {<< >>, EndOfFile}
  <2> SUFFICES ASSUME text = << >>
               PROVE  SeenReturned(editor', line') \in {<< >>, EndOfFile}
    OBVIOUS
  <2>1. line' \in {EndOfFile, NewlineString}
    BY <1>2 DEF Ended, text
  <2>2. line' \notin Range(editor'.history)
    <3>1. editor' \in Editors
      BY <1>2 DEF Ended, Rests, Good
    <3>2. \A i \in Places(editor') : editor'.history[i] \in Buffers
      BY <3>1, FieldsAre
    <3>3. Range(editor'.history) = {editor'.history[i] : i \in Places(editor')}
      BY <3>1, FieldsAre
    <3> QED
      BY <2>1, <3>2, <3>3, NamesAssumption
  <2> QED
    BY <2>1, <2>2 DEF SeenReturned
<1> HIDE DEF kept
<1>12. PICK wanted \in {<< >>, EndOfFile} :
         text = << >> => SeenReturned(editor', line') = wanted
  BY <1>11
<1>13. Len(<< >>) = 0
  OBVIOUS
<1>14. EditedLines!Return(wanted)
  <2> DEFINE L == (IF InScript THEN << >>
                   ELSE [i \in DOMAIN editor.history |->
                           editor.heap[editor.history[i]].text])
                    \o << IF Reading THEN editor.heap[editor.new].text ELSE << >> >>
             S == IF Reading THEN Text(editor) ELSE << >>
             R == EditedLines!History # << >> /\ S = L[Len(L) - 1]
             N == IF line \in Range(editor.history) THEN editor.heap[line].text
                  ELSE IF line = NewlineString THEN << >> ELSE line
  <2>1. L = Lines(m) /\ S = text
    BY <1>7
    DEF SeenLines, SeenShown, Reading, InScript, Texts, NewText
  <2>2. EditedLines!History = h
    <3>1. EditedLines!History = SubSeq(L, 1, Len(L) - 1)
      BY DEF EditedLines!History, EditedLines!New
    <3> HIDE DEF L
    <3> QED
      BY <2>1, <3>1 DEF h
  <2>3. R <=> repeats
    BY <2>1, <2>2 DEF repeats
  <2>4. N' = SeenReturned(editor', line')
    BY DEF SeenReturned
  <2>5. EditedLines!Return(wanted) <=>
          /\ IF S # << >> THEN N' = S
             ELSE N' \in {wanted} \cup (IF R THEN {<< >>, EndOfFile} ELSE {})
          /\ EditedLines!Starts(IF S = << >> \/ R THEN EditedLines!History
                                ELSE Append(EditedLines!History, S))
    BY DEF EditedLines!Return, EditedLines!New
  <2> HIDE DEF L, S, R, N
  <2>6. IF S # << >> THEN N' = S
        ELSE N' \in {wanted} \cup (IF R THEN {<< >>, EndOfFile} ELSE {})
    BY <1>10, <1>12, <2>1, <2>4
  <2>7. (IF S = << >> \/ R THEN EditedLines!History
         ELSE Append(EditedLines!History, S)) = kept
    BY <2>1, <2>2, <2>3 DEF kept
  <2>8. EditedLines!Starts(IF S = << >> \/ R THEN EditedLines!History
                           ELSE Append(EditedLines!History, S))
    <3> DEFINE history == IF S = << >> \/ R THEN EditedLines!History
                          ELSE Append(EditedLines!History, S)
    <3>1. history = kept
      BY <2>7
    <3> HIDE DEF history
    <3>2. SeenLines(editor', phase') = Append(history, << >>)
      BY <1>8, <3>1
    <3>3. EditedLines!Starts(history)
      BY <1>9, <1>13, <3>2
      DEF EditedLines!Starts, EditedLines!Shows, EditedLines!New, SeenLines,
          SeenAt, SeenShown, Reading, InScript, Texts, NewText
    <3> QED
      BY <3>3 DEF history
  <2> QED
    BY <2>5, <2>6, <2>8
<1> QED
  BY <1>4, <1>14

\* executeScript, and freeInteractive.
LEMMA ExecuteScriptStep ==
  ASSUME EInv, ExecuteScript
  PROVE  EInv' /\ EditedLines!Forget
<1> DEFINE k == Forget(editor)
           free == [b \in Buffers |-> Free]
<1>1. /\ phase \in {"prompt", "script"} /\ phase' \in {"script", "crashed"}
      /\ line' = Nothing /\ editor' = [k EXCEPT !.heap = free]
  BY DEF ExecuteScript
<1>2. Rests(editor) /\ Good(editor) /\ editor \in Editors
  BY <1>1 DEF EInv, Reading, Rests, Good
<1>3. Rests(k)
  BY <1>2, ForgetIs DEF Good, Separate
<1>4. free \in [Buffers -> Contents \cup {Free}]
  OBVIOUS
<1> HIDE DEF k, free
<1>5. /\ editor' \in Editors /\ editor'.history = k.history
      /\ editor'.new = k.new /\ editor'.edited = k.edited
      /\ editor'.entry = k.entry /\ editor'.historyPosition = k.historyPosition
      /\ editor'.position = k.position
  BY <1>1, <1>3, <1>4 DEF Rests, Good, Editors
<1>6. Rests(editor')
  <2>1. Places(editor') = Places(k)
    BY <1>5 DEF Places
  <2>2. Separate(editor')
    BY <1>3, <1>5, <2>1 DEF Rests, Good, Separate
  <2> QED
    BY <1>3, <1>5, <2>2 DEF Rests, Good
<1>7. EInv'
  <2>1. Rests(editor)'
    BY <1>6 DEF Rests, Good, Separate, Places
  <2> QED
    BY <1>1, <2>1 DEF EInv, Reading, InScript
<1>8. /\ SeenLines(editor', phase') = Append(<< >>, << >>)
      /\ SeenAt(editor', phase') = Len(SeenLines(editor', phase'))
      /\ SeenLines(editor', phase')[Len(SeenLines(editor', phase'))] = << >>
      /\ SeenShown(editor', phase') = << >>
      /\ editor'.position = 0 /\ editor'.entry = "new"
  <2>1. phase' # "reading"
    BY <1>1
  <2>2. SeenLines(editor', phase') =
          Append(IF phase' \in {"script", "crashed"} THEN << >>
                 ELSE Texts(editor'), << >>)
    BY <1>6, <2>1, SeenResting
  <2>3. /\ SeenAt(editor', phase') = Len(SeenLines(editor', phase'))
        /\ SeenLines(editor', phase')[Len(SeenLines(editor', phase'))] = << >>
        /\ SeenShown(editor', phase') = << >>
    BY <1>6, <2>1, SeenResting
  <2> QED
    BY <1>1, <1>6, <2>2, <2>3 DEF Rests
<1>9. SeenReturned(editor', line') = Nothing
  <2>1. \A i \in Places(editor') : editor'.history[i] \in Buffers
    BY <1>5, FieldsAre
  <2>2. Range(editor'.history) = {editor'.history[i] : i \in Places(editor')}
    BY <1>5, FieldsAre
  <2>3. Nothing \notin Range(editor'.history) /\ Nothing # NewlineString
    BY <2>1, <2>2, NamesAssumption
  <2> QED
    BY <1>1, <2>3 DEF SeenReturned
<1>10. Len(<< >>) = 0
  OBVIOUS
<1>11. EditedLines!Starts(<< >>)
  BY <1>8, <1>10
  DEF EditedLines!Starts, EditedLines!Shows, EditedLines!New, SeenLines, SeenAt,
      SeenShown, Reading, InScript, Texts, NewText
<1>12. EditedLines!Forget
  BY <1>9, <1>11 DEF EditedLines!Forget, SeenReturned
<1> QED
  BY <1>7, <1>12

\* Each action is a step of LineEditor.
LEMMA NextE ==
  ASSUME EInv, [Next]_vars
  PROVE  EInv' /\ [EditedLines!Next]_(EditedLines!vars)
<1>1. ASSUME UNCHANGED vars
      PROVE  EInv' /\ UNCHANGED EditedLines!vars
  <2>1. editor' = editor /\ phase' = phase /\ line' = line
    BY <1>1 DEF vars
  <2>2. EInv'
    BY <2>1
    DEF EInv, Edits, Rests, Good, Written, Kept, Separate, Places, Text, EntryOf,
        Recalled, Reading, InScript
  <2>3. UNCHANGED EditedLines!vars
    BY <2>1 DEF EditedLines!vars, Reading, InScript, Text, EntryOf, Recalled
  <2> QED
    BY <2>2, <2>3
<1>2. CASE BeginLine
  BY <1>2, BeginLineStep DEF EditedLines!Next
<1>3. CASE AddCharacter
  BY <1>3, AddCharacterStep DEF EditedLines!Next
<1>4. CASE Backspace
  BY <1>4, BackspaceStep DEF EditedLines!Next
<1>5. CASE DeleteKey
  BY <1>5, DeleteKeyStep DEF EditedLines!Next
<1>6. ASSUME Key PROVE Edits(editor) /\ editor \in Editors
  BY <1>6, KeyIs DEF Edits, Good
<1>7. CASE Left
  <2> DEFINE p == editor.position - 1
  <2>1. Key /\ p \in 0..Len(Text(editor))
    <3>1. Key /\ editor.position > 0
      BY <1>7 DEF Left
    <3>2. /\ editor.position \in Nat /\ editor.position <= Len(Text(editor))
          /\ Len(Text(editor)) \in Nat
      BY <1>6, <3>1, FieldsAre, EntryIs DEF Edits
    <3> QED
      BY <3>1, <3>2
  <2>2. editor' = [editor EXCEPT !.position = p]
    BY <1>7 DEF Left
  <2>3. p \in {editor.position - 1, editor.position + 1}
    OBVIOUS
  <2> HIDE DEF p
  <2>4. EInv' /\ EditedLines!Move
    BY <2>1, <2>2, <2>3, MoveStep
  <2> QED
    BY <2>4 DEF EditedLines!Next
<1>8. CASE Right
  <2> DEFINE p == editor.position + 1
  <2>1. Key /\ p \in 0..Len(Text(editor))
    <3>1. Key /\ editor.position < Len(Text(editor))
      BY <1>8 DEF Right
    <3>2. editor.position \in Nat /\ Len(Text(editor)) \in Nat
      BY <1>6, <3>1, FieldsAre, EntryIs DEF Edits
    <3> QED
      BY <3>1, <3>2
  <2>2. editor' = [editor EXCEPT !.position = p]
    BY <1>8 DEF Right
  <2>3. p \in {editor.position - 1, editor.position + 1}
    OBVIOUS
  <2> HIDE DEF p
  <2>4. EInv' /\ EditedLines!Move
    BY <2>1, <2>2, <2>3, MoveStep
  <2> QED
    BY <2>4 DEF EditedLines!Next
<1>9. CASE Up
  <2> DEFINE to == editor.historyPosition - 1
  <2>1. Key /\ to \in 0..Len(editor.history)
    <3>1. Key /\ editor.historyPosition > 0
      BY <1>9 DEF Up
    <3>2. /\ editor.historyPosition \in Nat /\ Len(editor.history) \in Nat
          /\ editor.historyPosition <= Len(editor.history)
      BY <1>6, <3>1, FieldsAre DEF Edits, Good
    <3> QED
      BY <3>1, <3>2
  <2>2. editor' = Recall(editor, to)
    BY <1>9 DEF Up
  <2>3. to \in {editor.historyPosition - 1, editor.historyPosition + 1}
    OBVIOUS
  <2> HIDE DEF to
  <2>4. EInv' /\ EditedLines!Recall
    BY <2>1, <2>2, <2>3, RecallStep
  <2> QED
    BY <2>4 DEF EditedLines!Next
<1>10. CASE Down
  <2> DEFINE to == editor.historyPosition + 1
  <2>1. Key /\ to \in 0..Len(editor.history)
    <3>1. Key /\ editor.historyPosition < Len(editor.history)
      BY <1>10 DEF Down
    <3>2. editor.historyPosition \in Nat /\ Len(editor.history) \in Nat
      BY <1>6, <3>1, FieldsAre DEF Edits, Good
    <3> QED
      BY <3>1, <3>2
  <2>2. editor' = Recall(editor, to)
    BY <1>10 DEF Down
  <2>3. to \in {editor.historyPosition - 1, editor.historyPosition + 1}
    OBVIOUS
  <2> HIDE DEF to
  <2>4. EInv' /\ EditedLines!Recall
    BY <2>1, <2>2, <2>3, RecallStep
  <2> QED
    BY <2>4 DEF EditedLines!Next
<1>11. CASE Tab
  BY <1>11, TabStep DEF EditedLines!Next
<1>12. CASE Enter
  <2> DEFINE m == [editor EXCEPT !.heap[EntryOf(editor)].first = "other"]
  <2>1. /\ Reading /\ EndLine(m) /\ phase' = "prompt"
    BY <1>12 DEF Enter
  <2>2. /\ Edits(m) /\ Text(m) = Text(editor) /\ Lines(m) = Lines(editor)
        /\ m.history = editor.history
    BY <2>1, FirstChanges DEF EInv
  <2> HIDE DEF m
  <2>3. EInv' /\ \E wanted \in {<< >>, EndOfFile} : EditedLines!Return(wanted)
    BY <2>1, <2>2, EndStep
  <2> QED
    BY <2>3 DEF EditedLines!Next
<1>13. CASE ControlD
  <2> DEFINE m == [editor EXCEPT !.heap[EntryOf(editor)].first = "NUL"]
  <2>1. /\ Reading /\ EndLine(m) /\ phase' \in {"prompt", "over"}
    BY <1>13 DEF ControlD
  <2>2. /\ Edits(m) /\ Text(m) = Text(editor) /\ Lines(m) = Lines(editor)
        /\ m.history = editor.history
    BY <2>1, FirstChanges DEF EInv
  <2> HIDE DEF m
  <2>3. EInv' /\ \E wanted \in {<< >>, EndOfFile} : EditedLines!Return(wanted)
    BY <2>1, <2>2, EndStep
  <2> QED
    BY <2>3 DEF EditedLines!Next
<1>14. CASE ReadFails
  <2>1. /\ Reading /\ EndLine(editor) /\ phase' = "over" /\ Edits(editor)
    BY <1>14 DEF ReadFails, EInv
  <2>2. EInv' /\ \E wanted \in {<< >>, EndOfFile} : EditedLines!Return(wanted)
    BY <2>1, EndStep
  <2> QED
    BY <2>2 DEF EditedLines!Next
<1>15. CASE ExecuteScript
  BY <1>15, ExecuteScriptStep DEF EditedLines!Next
<1>16. CASE Over
  BY <1>1, <1>16 DEF Over
<1> QED
  BY <1>1, <1>2, <1>3, <1>4, <1>5, <1>7, <1>8, <1>9, <1>10, <1>11, <1>12, <1>13,
     <1>14, <1>15, <1>16 DEF Next

LEMMA InitLines == Init => EditedLines!Init
<1> SUFFICES ASSUME Init PROVE EditedLines!Init
  OBVIOUS
<1>1. /\ editor.history = << >> /\ editor.entry = "new" /\ editor.position = 0
      /\ phase = "prompt" /\ line = Nothing
  BY DEF Init
<1>2. Rests(editor) /\ phase # "reading"
  BY <1>1, InitE DEF EInv, Reading
<1>3. Texts(editor) = << >>
  <2>1. DOMAIN Texts(editor) = 1..0
    BY <1>1 DEF Texts
  <2> QED
    BY <1>1, <2>1 DEF Texts
<1>4. /\ SeenLines(editor, phase) = Append(<< >>, << >>)
      /\ SeenAt(editor, phase) = Len(SeenLines(editor, phase))
      /\ SeenShown(editor, phase) = << >>
  <2>1. SeenLines(editor, phase) =
          Append(IF phase \in {"script", "crashed"} THEN << >>
                 ELSE Texts(editor), << >>)
    BY <1>2, SeenResting
  <2>2. /\ SeenAt(editor, phase) = Len(SeenLines(editor, phase))
        /\ SeenShown(editor, phase) = << >>
    BY <1>2, SeenResting
  <2> QED
    BY <1>3, <2>1, <2>2
<1>5. Append(<< >>, << >>) = << << >> >> /\ Len(Append(<< >>, << >>)) = 1
  OBVIOUS
<1>6. SeenReturned(editor, line) = Nothing
  <2>1. Range(editor.history) = {} /\ Nothing # NewlineString
    BY <1>1, NamesAssumption DEF Range
  <2> QED
    BY <1>1, <2>1 DEF SeenReturned
<1> QED
  BY <1>1, <1>4, <1>5, <1>6
  DEF EditedLines!Init, SeenLines, SeenAt, SeenShown, SeenReturned, Reading,
      InScript, Texts, NewText

(***************************************************************************)
(* The theorems.                                                           *)
(***************************************************************************)
\* The invariant that the others follow from.
THEOREM EditorInvariant == Spec => []EInv
<1>1. Init => EInv
  BY InitE
<1>2. EInv /\ [Next]_vars => EInv'
  BY NextE
<1> QED
  BY <1>1, <1>2, PTL DEF Spec

\* The variables have their types: the cursor stays in the line, and what is
\* returned is a buffer, the newline or the end of the file.
THEOREM TypeCorrect == Spec => []TypeOK
<1>1. EInv => TypeOK
  <2> SUFFICES ASSUME EInv PROVE TypeOK
    OBVIOUS
  <2>1. editor \in Editors
    BY DEF EInv, Edits, Rests, Good
  <2> QED
    BY <2>1 DEF EInv, TypeOK
<1> QED
  BY <1>1, EditorInvariant, PTL

\* A sequence without repetitions gets another element.
LEMMA InjectiveGrows ==
  ASSUME NEW S, NEW s \in Seq(S), IsInjective(s), NEW x \in S,
         \A i \in 1..Len(s) : s[i] # x
  PROVE  /\ IsInjective(s \o << x >>)
         /\ Range(s \o << x >>) = Range(s) \cup {x}
<1>1. /\ s \o << x >> \in Seq(S)
      /\ DOMAIN (s \o << x >>) = 1..Len(s) + 1 /\ DOMAIN s = 1..Len(s)
      /\ \A i \in 1..Len(s) : (s \o << x >>)[i] = s[i]
      /\ (s \o << x >>)[Len(s) + 1] = x /\ Len(s) \in Nat
  BY OneMoreIs
<1> DEFINE t == s \o << x >>
<1> HIDE DEF t
<1>2. 1..Len(s) + 1 = 1..Len(s) \cup {Len(s) + 1}
  BY <1>1
<1>3. /\ DOMAIN t = DOMAIN s \cup {Len(s) + 1}
      /\ \A i \in DOMAIN s : t[i] = s[i] /\ s[i] # x
      /\ t[Len(s) + 1] = x
  BY <1>1, <1>2 DEF t
<1>4. IsInjective(t)
  BY <1>3 DEF IsInjective
<1>5. Range(t) = Range(s) \cup {x}
  BY <1>3 DEF Range
<1> QED
  BY <1>4, <1>5 DEF t

\* beginEdit, the keys and the end of the call pass buffers on and free them:
\* no two of the lines that are kept share a buffer, and none of them is freed
\* (readCommandInteractive, addHistoryEntry).
THEOREM LinesOwnTheirBuffers == Spec => []BuffersAreOwned
<1>1. EInv => BuffersAreOwned
  <2> SUFFICES ASSUME EInv PROVE BuffersAreOwned
    OBVIOUS
  <2> DEFINE h == editor.history
             withNew == h \o (IF Reading THEN << editor.new >> ELSE << >>)
             lines == withNew
                        \o (IF editor.entry = "edited" THEN << editor.edited >>
                            ELSE << >>)
  <2>1. /\ editor \in Editors /\ Separate(editor) /\ Len(h) \in Nat
        /\ h \in Seq(Buffers) /\ Places(editor) = 1..Len(h)
        /\ DOMAIN h = Places(editor)
        /\ editor.new \in Buffers /\ editor.edited \in Buffers
    BY FieldsAre DEF EInv, Edits, Rests, Good, Places
  <2>2. IsInjective(h)
    BY <2>1 DEF IsInjective, Separate
  <2>3. \A b \in Range(h) : \E i \in Places(editor) : b = h[i]
    BY <2>1 DEF Range
  <2> DEFINE Used == Range(h) \cup (IF Reading THEN {editor.new} ELSE {})
                      \cup (IF editor.entry = "edited" THEN {editor.edited} ELSE {})
  <2>4. IsInjective(lines) /\ Range(lines) = Used
    <3>1. CASE ~Reading
      <4>1. editor.entry = "new"
        BY <3>1 DEF EInv, Rests
      <4>2. withNew = h /\ lines = h
        BY <2>1, <3>1, <4>1
      <4> QED
        BY <2>2, <3>1, <4>1, <4>2
    <3>2. CASE Reading
      <4> DEFINE two == h \o << editor.new >>
      <4>1. lines = two \o (IF editor.entry = "edited" THEN << editor.edited >>
                            ELSE << >>)
        BY <3>2
      <4>2. \A i \in 1..Len(h) : h[i] # editor.new
        BY <2>1 DEF Separate
      <4> HIDE DEF h
      <4>3. IsInjective(two) /\ Range(two) = Range(h) \cup {editor.new}
        BY <2>1, <2>2, <4>2, InjectiveGrows
      <4>4. /\ two \in Seq(Buffers) /\ Len(two) = Len(h) + 1
            /\ \A i \in 1..Len(h) : two[i] = h[i]
            /\ two[Len(h) + 1] = editor.new
        BY <2>1, OneMoreIs
      <4>5. \A i \in 1..Len(two) : i \in 1..Len(h) \/ i = Len(h) + 1
        BY <2>1, <4>4
      <4> HIDE DEF two, lines
      <4>6. CASE editor.entry # "edited"
        <5>1. lines = two
          BY <4>1, <4>4, <4>6
        <5> QED
          BY <3>2, <4>3, <4>6, <5>1
      <4>7. CASE editor.entry = "edited"
        <5>1. /\ editor.edited # editor.new
              /\ \A i \in 1..Len(h) : h[i] # editor.edited
          BY <2>1, <4>7 DEF Separate, h
        <5>2. \A i \in 1..Len(two) : two[i] # editor.edited
          BY <4>4, <4>5, <5>1
        <5>3. /\ IsInjective(two \o << editor.edited >>)
              /\ Range(two \o << editor.edited >>)
                   = Range(two) \cup {editor.edited}
          BY <2>1, <4>3, <4>4, <5>2, InjectiveGrows
        <5> QED
          BY <3>2, <4>1, <4>3, <4>7, <5>3
      <4> QED
        BY <4>6, <4>7
    <3> QED
      BY <3>1, <3>2
  <2>5. ASSUME ~InScript, NEW b \in Used PROVE editor.heap[b] # Free
    <3>1. Kept(editor)
      BY <2>5 DEF EInv
    <3>2. \A i \in Places(editor) : editor.heap[h[i]] \in Contents
      BY <3>1 DEF Kept
    <3>3. CASE b \in Range(h)
      BY <2>3, <3>2, <3>3, ContentsAre
    <3>4. CASE Reading /\ b = editor.new
      BY <3>4, ContentsAre DEF EInv, Edits, Written
    <3>5. CASE editor.entry = "edited" /\ b = editor.edited
      BY <3>5, ContentsAre DEF EInv, Edits, Rests, Written
    <3> QED
      BY <2>5, <3>3, <3>4, <3>5
  <2> HIDE DEF lines, Used
  <2>6. /\ IsInjective(lines)
        /\ InScript \/ \A b \in Range(lines) : editor.heap[b] # Free
    BY <2>4, <2>5
  <2> QED
    BY <2>6 DEF BuffersAreOwned, lines, withNew, h
<1> QED
  BY <1>1, EditorInvariant, PTL

\* Whatever keys are pressed, the editor shows, changes, keeps and returns the
\* lines as LineEditor says, which knows no buffers (readCommandInteractive).
THEOREM EditorImplementsLines == Spec => EditsLines
<1>1. Init => EInv /\ EditedLines!Init
  BY InitE, InitLines
<1>2. EInv /\ [Next]_vars => EInv' /\ [EditedLines!Next]_(EditedLines!vars)
  BY NextE
<1> QED
  BY <1>1, <1>2, PTL DEF Spec, EditsLines, EditedLines!Spec
=============================================================================
