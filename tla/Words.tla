-------------------------------- MODULE Words --------------------------------
(* The substitution of words and the removal of quotes (src/expand.c): a word is
   substituted into one string, struct SubstitutionInfo remembers which parts
   of it come from expansions, and field splitting, quote removal and the
   matching of patterns find their way with these. A string is a sequence of
   characters with offsets from 0 as in C; a word is a sequence of elements
   [char, kind, values], whose kind is "char", or "value" for $x, "at" for $@
   and "star" for $*. *)
EXTENDS Integers, SequencesExt

CONSTANT Ifs   \* the characters of IFS, a sequence

Nul == "NUL"
At(string, i) == IF i \in 0..(Len(string) - 1) THEN string[i + 1] ELSE Nul
Least(S) == CHOOSE i \in S : \A j \in S : i <= j

(* substitute, for the values of an expansion in quotes or not. Between two
   values stands a separator, at which "$@" and unquoted "$*" are split. *)
Substitute(w, e, values) ==
    LET quoted == w.double
        splitting == ~quoted /\ ~w.noFieldSplit
        splits == Len(values) > 1 /\ (splitting \/ e.kind = "at")
        info == [begin |-> Len(w.text), end |-> Len(w.text) + Len(Head(values)),
                 startField |-> 0, endField |-> 0,
                 applyFieldSplitting |-> ~quoted, splitAtEnd |-> splits]
        separator == IF Len(values) = 1 THEN << >>
                     ELSE IF Ifs = << >>
                     THEN IF splits THEN <<" ">> ELSE << >> ELSE <<Head(Ifs)>>
    IN  [w EXCEPT !.text = @ \o Head(values) \o separator,
                  !.substs = Append(@, info)]

\* doDollarSubstitutions for $x, $@ and $*.
DoDollarSubstitution(w, e) ==
    LET count == Len(e.values)
        after[n \in 0..count] ==
          IF n = 0 THEN w
          ELSE Substitute(after[n - 1], e, SubSeq(e.values, n, count))
    IN  [after[count] EXCEPT !.deleteIfEmpty = @ \/ (w.double /\ e.kind = "at")]

\* The loop of doSubstitutions for one element of the word.
DoSubstitution(w, e) ==
    LET c == e.char
        u == [w EXCEPT
               !.escaped = IF ~w.single /\ c = "\\" THEN ~@ ELSE FALSE,
               !.single = IF c = "'" /\ ~w.escaped /\ ~w.double THEN ~@ ELSE @,
               !.double = IF c = "\"" /\ ~w.escaped /\ ~w.single THEN ~@ ELSE @]
    IN  IF e.kind # "char" /\ ~w.escaped /\ ~w.single
        THEN DoDollarSubstitution(w, e)
        ELSE [u EXCEPT !.text = Append(@, c)]

\* What the loop has come to after each number of elements.
Substituted(word, noFieldSplit) ==
    LET after[n \in 0..Len(word)] ==
          IF n = 0
          THEN [text |-> << >>, substs |-> << >>, deleteIfEmpty |-> FALSE,
                escaped |-> FALSE, single |-> FALSE, double |-> FALSE,
                noFieldSplit |-> noFieldSplit]
          ELSE DoSubstitution(after[n - 1], word[n])
    IN  after

DoSubstitutions(word, noFieldSplit) == Substituted(word, noFieldSplit)[Len(word)]
-----------------------------------------------------------------------------
EndsAtOrBehind(s, field, i) ==
    field < s.endField \/ (field = s.endField /\ i <= s.end)

\* The substitution s ends behind the character i of a field.
EndsBehind(s, field, i) ==
    field < s.endField \/ (field = s.endField /\ i < s.end)

BeginsStrictlyBefore(s, field, i) ==
    field > s.startField \/ (field = s.startField /\ i > s.begin)

BeginsBefore(s, field, i) ==
    field > s.startField \/ (field = s.startField /\ i >= s.begin)

\* The first substitution from the kth on that ends behind the character.
NextSubstitution(substs, k, field, i) ==
    Least({Len(substs) + 1} \cup
          {m \in k..Len(substs) : EndsBehind(substs[m], field, i)})

InSubstitution(substs, k, field, i) ==
    k <= Len(substs) /\ BeginsBefore(substs[k], field, i)

\* isSpecialInDoubleQuotes
IsSpecialInDoubleQuotes(c) == c \in {"$", "BACKQUOTE", "\\", "\""}

(* Quote removal; field is the number of the field, from 0. r.k is the
   substitution at which the search goes on. *)
RemoveQuotes(text, field, substs) ==
    LET remove(r, i) ==
          LET c == At(text, i)
              k == NextSubstitution(substs, r.k, field, i)
              s == [r EXCEPT !.k = k, !.escaped = FALSE]
              keep == [s EXCEPT !.result = Append(@, c)]
          IN  CASE r.escaped \/ InSubstitution(substs, k, field, i) -> keep
                [] OTHER ->
                   CASE c = "\\" /\ ~r.single /\
                        (r.double => IsSpecialInDoubleQuotes(At(text, i + 1))) ->
                          [s EXCEPT !.escaped = TRUE]
                     [] c = "'" /\ ~r.double -> [s EXCEPT !.single = ~@]
                     [] c = "\"" /\ ~r.single -> [s EXCEPT !.double = ~@]
                     [] OTHER -> keep
        start == [k |-> 1, escaped |-> FALSE, single |-> FALSE, double |-> FALSE,
                  result |-> << >>]
    IN  FoldLeft(remove, start, [i \in 1..Len(text) |-> i - 1]).result
==============================================================================
