---------------------------- MODULE PatternWords ----------------------------
(* What match.c promises of patterns: they match what they stand for, and
   remove it. The input is a word as the tokenizer returns it. *)
EXTENDS Patterns, FiniteSets

CONSTANT Strings   \* the values from which something is removed

F == INSTANCE Fields

VARIABLES group,  \* the kind of the input
          input   \* its symbols, for "words" the elements of a word

IsWord == group.kind = "words"

Element(char, kind, values) == [char |-> char, kind |-> kind, values |-> values]

\* The elements that words consist of, for any set of characters.
WordElements(characters) ==
    {Element(c, "char", << >>) : c \in characters} \cup
    {Element("$", "value", <<v>>) : v \in Seq(characters)} \cup
    {Element("$", "at", vs) : vs \in Seq(Seq(characters))} \cup
    {Element("$", "star", vs) : vs \in Seq(Seq(characters))}

IsExpansion(i) == input[i].kind # "char"
Expansions == {i \in DOMAIN input : IsExpansion(i)}

\* The quotes of the word are closed, as those of a token are.
IsComplete == IsWord /\ LET w == DoSubstitutions(input, FALSE)
                        IN  ~w.escaped /\ ~w.single /\ ~w.double

\* The expansions of the word give such a character.
HasValue(c) == \E i \in Expansions :
                 \E n \in DOMAIN input[i].values :
                   \E j \in DOMAIN input[i].values[n] : input[i].values[n][j] = c

(* The words whose quotes are told apart from those of their expansions: the
   word has one expansion, or no expansion gives a quote; and none gives several
   values, between which a pattern has a separator. *)
QuotesAreKnown ==
    /\ \A i \in Expansions : Len(input[i].values) <= 1
    /\ \/ \A i, j \in Expansions : i = j
       \/ \A c \in {"'", "\"", "\\"} : ~HasValue(c)

(* nextChar: the characters of a pattern are those of the word without its
   quotes, and a character is literal exactly if it was quoted; quotes that an
   expansion gives are characters like others. This is so in a word with one
   expansion; with several ones the quotes of the second are taken for those of
   the word. *)
PatternsKeepQuotes ==
    IsComplete /\ QuotesAreKnown => CharactersOfPattern(input) = F!Unsplit(input)

(* stripPrefixSuffix: what is removed is the longest part at that end that the
   pattern matches for "##" and "%%", and the shortest one for "#" and "%". *)
StripIsExtremal ==
    IsComplete /\ QuotesAreKnown =>
        \A s \in Strings, isPrefix, greedy \in BOOLEAN :
            LET part(n) == IF isPrefix THEN SubSeq(s, 1, n)
                           ELSE SubSeq(s, Len(s) - n + 1, Len(s))
                pattern == PreparePattern(F!Unsplit(input))
                matched == {n \in 0..Len(s) : Fnmatch(pattern, part(n))}
                removed == StripPrefixSuffix(s, input, isPrefix, greedy)
            IN  IF matched = {} THEN removed = 0
                ELSE /\ removed \in matched
                     /\ \A n \in matched : IF greedy THEN n <= removed
                                           ELSE removed <= n

(* match.c: patterns match what they stand for, and remove it. *)
PatternsMatchAsWritten == PatternsKeepQuotes /\ StripIsExtremal
=============================================================================
