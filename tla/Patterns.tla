------------------------------ MODULE Patterns ------------------------------
(* src/match.c: patterns are words after substitution, in which a quoted
   character stands for itself and a character of an expansion is no quote.
   Bracket expressions are left out. fnmatch is the C library's. *)
EXTENDS Words

(* nextChar, for all the characters of a field: what is left of the quotes, and
   whether a character is literal. The search for its substitution begins at
   the first one for every character, but goes on with the number that
   it has reached for an earlier one. *)
NextChar(r, text, i, field, substs) ==
    LET c == At(text, i)
        stays == r.subst > Len(substs) \/ EndsBehind(substs[r.subst], field, i)
        further == NextSubstitution(substs, r.k + 1, field, i)
        s == IF stays THEN r ELSE [r EXCEPT !.k = further, !.subst = further]
        keep == [s EXCEPT !.chars = Append(@,
                            [char |-> c,
                             literal |-> r.single \/ r.double \/ r.escaped]),
                          !.escaped = FALSE, !.subst = 1]
    IN  IF r.escaped \/ InSubstitution(substs, s.subst, field, i) THEN keep
        ELSE CASE c = "'" /\ ~r.double -> [s EXCEPT !.single = ~@]
               [] c = "\"" /\ ~r.single -> [s EXCEPT !.double = ~@]
               [] c = "\\" /\ ~r.single /\
                  (r.double => IsSpecialInDoubleQuotes(At(text, i + 1))) ->
                    [s EXCEPT !.escaped = TRUE]
               [] OTHER -> keep

\* What it has come to in front of each character, and at the end.
Scanned(text, field, substs) ==
    LET after[n \in 0..Len(text)] ==
          IF n = 0
          THEN [k |-> 1, subst |-> 1, chars |-> << >>,
                single |-> FALSE, double |-> FALSE, escaped |-> FALSE]
          ELSE NextChar(after[n - 1], text, n - 1, field, substs)
    IN  after

PatternCharacters(text, field, substs) ==
    Scanned(text, field, substs)[Len(text)].chars

\* preparePattern: literal characters that are special to fnmatch are escaped.
PreparePattern(chars) ==
    FoldLeft(LAMBDA p, c : p \o IF c.literal /\ c.char \in {"\\", "?", "*", "["}
                                THEN <<"\\", c.char>> ELSE <<c.char>>,
             << >>, chars)

ContainsSpecial(chars) ==
    \E i \in DOMAIN chars : ~chars[i].literal /\ chars[i].char \in {"?", "*"}

\* The pattern from its pth character on against the string from its nth on.
Fnmatch(pattern, string) ==
    LET ends == Len(pattern) + 1
        length == Len(string)
        matches[p \in 1..ends, n \in 1..length + 1] ==
          IF p = ends THEN n > length
          ELSE LET c == pattern[p]
               IN  IF c = "*" THEN \E m \in n..length + 1 : matches[p + 1, m]
                   ELSE IF n > length THEN FALSE
                   ELSE IF c = "\\" /\ p + 1 < ends
                   THEN pattern[p + 1] = string[n] /\ matches[p + 2, n + 1]
                   ELSE c \in {"?", string[n]} /\ matches[p + 1, n + 1]
    IN  matches[1, 1]

\* The characters of a pattern, which is not split.
CharactersOfPattern(word) ==
    LET w == DoSubstitutions(word, TRUE) IN PatternCharacters(w.text, 0, w.substs)

\* matchesPattern, of case
MatchesPattern(string, word) == Fnmatch(PreparePattern(CharactersOfPattern(word)), string)

CountsUpForPrefix(isPrefix, greedy) == isPrefix

\* Whether stripPrefixSuffix tries the positions upwards.
CountsUp(isPrefix, greedy) == isPrefix # greedy

(* stripPrefixSuffix: how much ${x#pattern} (isPrefix) and ${x%pattern} remove,
   with greedy those of "##" and "%%". One end of the part that is matched
   moves from counter to the other end of the value, until the part matches;
   the nth round has counter(n). *)
StripPrefixSuffix(string, word, isPrefix, greedy) ==
    LET size == Len(string)
        pattern == PreparePattern(CharactersOfPattern(word))
        counter(n) == IF CountsUp(isPrefix, greedy) THEN n ELSE size - n
        part(n) == IF isPrefix THEN SubSeq(string, 1, counter(n))
                   ELSE SubSeq(string, counter(n) + 1, size)
        matching == {n \in 0..size : Fnmatch(pattern, part(n))}
    IN  IF matching = {} THEN 0 ELSE Len(part(Least(matching)))
=============================================================================
