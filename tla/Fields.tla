------------------------------- MODULE Fields -------------------------------
(* What a word becomes (POSIX, XCU 2.6), the reference for Words and Patterns:
   each character of the result keeps whether it was quoted and whether it
   comes from an unquoted expansion, so that nothing has to be found again. *)
EXTENDS Integers, SequencesExt

CONSTANTS Ifs, IsSpecialInDoubleQuotes(_)

Char(c, literal, splits) ==
    [kind |-> "char", char |-> c, literal |-> literal, splits |-> splits]
Mark(kind) == [kind |-> kind]

(* The values of an expansion: those of $@ and of an unquoted $* are fields of
   their own. The mark "none" stands for "$@" without values. *)
Values(e, quoted) ==
    LET value(v) == [i \in DOMAIN v |-> Char(v[i], quoted, ~quoted)]
        between == IF ~quoted THEN <<Mark("end")>>
                   ELSE IF e.kind = "at" THEN <<Mark("break")>>
                   ELSE IF Ifs = << >> THEN << >> ELSE <<Char(Head(Ifs), TRUE, FALSE)>>
        joined[n \in 0..Len(e.values)] ==
          IF n = 0 THEN << >>
          ELSE joined[n - 1] \o (IF n = 1 THEN << >> ELSE between)
                            \o value(e.values[n])
    IN  IF e.values = << >> /\ quoted /\ e.kind = "at" THEN <<Mark("none")>>
        ELSE joined[Len(e.values)]

\* The characters among the marks.
Characters(marks) ==
    LET among[n \in 0..Len(marks)] ==
          IF n = 0 THEN << >>
          ELSE IF marks[n].kind = "char"
          THEN Append(among[n - 1],
                      [char |-> marks[n].char, literal |-> marks[n].literal])
          ELSE among[n - 1]
    IN  among[Len(marks)]

(* One element of a word: its marks are added, among them "quote" for a
   quotation, and its characters. r.within is the quote around it. *)
Read(r, e) ==
    LET c == e.char
        quoted == r.within # "none"
        put(marks) == [r EXCEPT !.marks = @ \o marks,
                                !.chars = @ \o Characters(marks),
                                !.escaped = FALSE]
    IN  IF r.escaped
        THEN put(IF r.within = "\"" /\ ~IsSpecialInDoubleQuotes(c)
                 THEN <<Char("\\", TRUE, FALSE), Char(c, TRUE, FALSE)>>
                 ELSE <<Char(c, TRUE, FALSE)>>)
        ELSE IF quoted /\ c = r.within THEN [r EXCEPT !.within = "none"]
        ELSE IF r.within = "'" THEN put(<<Char(c, TRUE, FALSE)>>)
        ELSE CASE c = "\\" -> [r EXCEPT !.escaped = TRUE]
               [] c \in {"'", "\""} /\ ~quoted ->
                    [put(<<Mark("quote")>>) EXCEPT !.within = c]
               [] OTHER -> put(IF e.kind # "char" THEN Values(e, quoted)
                               ELSE <<Char(c, quoted, FALSE)>>)

\* What has been read after each number of elements.
Reading(word) ==
    LET after[n \in 0..Len(word)] ==
          IF n = 0 THEN [marks |-> << >>, chars |-> << >>, within |-> "none",
                         escaped |-> FALSE]
          ELSE Read(after[n - 1], word[n])
    IN  after

Marked(word) == Reading(word)[Len(word)].marks

\* The characters of a word that is not split.
Unsplit(word) == Reading(word)[Len(word)].chars

(* Field splitting: white space of IFS ends a field, any other character of IFS
   with the white space around it does too, but not an empty one behind white
   space alone. r.soft: the last field was ended by white space. *)
Split(marks) ==
    LET close(r) == [fields |-> Append(r.fields, r.field), field |-> << >>,
                     open |-> FALSE, soft |-> FALSE]
        add(r, m) ==
          LET ifs == m.kind = "char" /\ m.splits /\ \E i \in DOMAIN Ifs : Ifs[i] = m.char
          IN  CASE m.kind = "none" -> r
                [] m.kind = "quote" -> [r EXCEPT !.open = TRUE, !.soft = FALSE]
                [] m.kind = "break" -> [close(r) EXCEPT !.open = TRUE]
                [] m.kind = "end" -> IF r.open THEN close(r) ELSE [r EXCEPT !.soft = FALSE]
                [] OTHER ->
                     CASE ifs /\ m.char = " " ->
                            IF r.open THEN [close(r) EXCEPT !.soft = TRUE] ELSE r
                       [] ifs /\ m.char # " " ->
                            IF r.open \/ ~r.soft THEN close(r) ELSE [r EXCEPT !.soft = FALSE]
                       [] OTHER ->
                            [r EXCEPT !.field = Append(@, [char |-> m.char, literal |-> m.literal]),
                                      !.open = TRUE, !.soft = FALSE]
        end == FoldLeft(add, [fields |-> << >>, field |-> << >>, open |-> FALSE,
                              soft |-> FALSE], marks)
    IN  IF end.open THEN Append(end.fields, end.field) ELSE end.fields

\* The fields of a word: a word of "$@" alone without values has none.
FieldsOf(word) ==
    LET marks == Marked(word)
        only == \A i \in DOMAIN marks : marks[i].kind \in {"quote", "none"}
        none == \E i \in DOMAIN marks : marks[i].kind = "none"
    IN  IF only /\ none THEN << >> ELSE Split(marks)

TextOf(chars) == [i \in DOMAIN chars |-> chars[i].char]
=============================================================================
