----------------------------- MODULE MCLanguage -----------------------------
(* The inputs on which the reading of the language is compared with its
   references: tokens for Parser and Grammar, characters for Tokenizer and
   Lexical, the elements of a word for Expansion, Patterns and Fields. An input
   grows by one symbol per step; a sequence of tokens only while the parser or
   the grammar lets it go on. *)
EXTENDS Parser, Tokenizer, Expansion, PatternWords

G == INSTANCE Grammar WITH Names <- {t \in Reserved \cup {"w"} : IsName(t)}
L == INSTANCE Lexical

vars == <<group, input>>

MCIfs == <<" ", ":">>
MCFiles == << <<"a">>, <<"a", "a">> >>
MCStrings == {<<"*", "a">>, <<"a", " ", "a">>}

Group(kind, seed, most) == [kind |-> kind, seed |-> seed, most |-> most]

Groups ==
    {Group(k, << >>, 4) : k \in {"line", "script", "substitution", "words"}} \cup
    {Group("script", <<"if", "w", ";">>, 9),
     Group("script", <<"while", "w", "\n">>, 8),
     Group("script", <<"for", "w">>, 8),
     Group("script", <<"case", "w", "in">>, 8),
     Group("quotes", << >>, 5), Group("operators", << >>, 4),
     Group("hereDocs", <<"<", "<">>, 8),
     Group("hereDocs", <<"<", "<", "a", " ", "<", "<", "a", "a", "\n">>, 14)}

IsTokens == group.kind \in {"line", "script", "substitution"}
IsCharacters == group.kind \in {"quotes", "operators", "hereDocs"}

\* The tokens that are of interest after the first one.
Tokens ==
    LET first == IF group.seed = << >> THEN "none" ELSE Head(group.seed)
    IN  CASE first = "if" -> {"w", ";", "if", "then", "elif", "else", "fi"}
          [] first = "while" -> {"w", "\n", "while", "do", "done", "<", "("}
          [] first = "for" -> {"w", "\n", ";", "in", "do", "done", "for"}
          [] first = "case" ->
               {"w", "\n", ";", ";;", ";&", "|", ")", "(", "esac"}
          [] OTHER -> {"w", "-", "\n", "&&", "|", ";", "&", "!", "{", "}", "(",
                       ")", "<"}

Characters ==
    CASE group.kind = "quotes" ->
           {"a", "\\", "'", "\"", "$", "{", "}", Backquote, " ", "#"}
      [] group.kind = "operators" ->
           {"a", "1", "\\", "<", "&", ";", " ", "#", "\n"}
      [] OTHER -> {"a", "<", "\n", "#"}

Values == {<< >>, <<"a">>, <<" ">>, <<":">>, <<"a", " ">>, <<" ", "a">>,
           <<":", " ">>, <<" ", ":">>, <<":", ":">>, <<"'">>, <<"a", "'">>,
           <<" ", "a", ":">>, <<"a", " ", "a">>, <<"a", ":", "a">>, <<"a", ":">>,
           <<"*">>, <<":", "a", " ">>}
Arguments == {<< >>, << <<"a">>, <<":">> >>, << << >>, <<" ", "a">> >>}
Elements ==
    {Element(c, "char", << >>) : c \in {"a", "'", "\"", "\\", "*"}} \cup
    {Element("$", "value", <<v>>) : v \in Values} \cup
    {Element("$", k, vs) : k \in {"at", "star"}, vs \in Arguments}

\* The result of the parser on the tokens, when none follow or when some do.
Result(eof) ==
    LET s == [ts |-> input, eof |-> eof]
    IN  CASE group.kind = "line" -> Parse(s, FALSE)
          [] group.kind = "script" -> Parse(s, TRUE)
          [] OTHER -> ParseCommandSubstitution(s)

Ends == G!Ends(input)[CASE group.kind = "line" -> "command_line"
                        [] group.kind = "script" -> "script"
                        [] OTHER -> "substitution", 1]

Init == group \in Groups /\ input = group.seed

Add(symbol) == input' = Append(input, symbol) /\ UNCHANGED group
IsShort == Len(input) < group.most

AddToken == /\ IsTokens /\ IsShort
            /\ Result(FALSE) = Unread \/ G!AtEnd \in Ends
            /\ \E t \in Tokens : Add(t)
AddCharacter == IsCharacters /\ IsShort /\ \E c \in Characters : Add(c)
AddElement == /\ IsWord /\ IsShort /\ Cardinality(Expansions) <= 2
              /\ \E e \in Elements : Add(e)

Next == AddToken \/ AddCharacter \/ AddElement
Spec == Init /\ [][Next]_vars
-----------------------------------------------------------------------------
EndsInNewline == input # << >> /\ Last(input) = "\n"

ParsedIfInGrammar ==
    LET accepted == Len(input) + 1 \in Ends
        parsed(eof) == Result(eof) > 0 \/ Result(eof) = NoCmd
    IN  IsTokens =>
            /\ Result(FALSE) = Unread <=> G!AtEnd \in Ends
            /\ IF group.kind = "substitution" THEN parsed(FALSE) <=> accepted
               ELSE EndsInNewline => (parsed(TRUE) <=> accepted)

NullTokenOnlyAfterPipe ==
    IsTokens /\ Result(TRUE) = Crash =>
        /\ EndsInNewline
        /\ \E i \in DOMAIN input :
              input[i] = "|" /\ \A j \in (i + 1)..Len(input) : input[j] = "\n"

(* parser.c: of the inputs that end with a newline, and of the command
   substitutions that end with their parenthesis, exactly those are parsed
   that the grammar has; the parser asks for another token (a further line, in
   a terminal with the prompt PS2) exactly if what it has read is the beginning
   of a command and not the whole of one; and it notices everywhere that
   getToken returns NULL, but for one place: in an input that ends after "|"
   and newlines. *)
ParserFollowsGrammar == ParsedIfInGrammar /\ NullTokenOnlyAfterPipe

Has(s) == \E i \in DOMAIN input : IsPrefix(s, SubSeq(input, i, Len(input)))

(* The inputs that the tokenizer is known to split otherwise: an escaped "#" at
   the beginning of a word begins a comment, after "$$" and "$" with an escaped
   character a "{" begins an expansion, and an operator does not go on in the
   next line. *)
KnownDifference ==
    \/ Has(<<"\\", "#">>) \/ Has(<<"$", "$">>)
    \/ \E c \in Characters \ {"\n"} : Has(<<"$", "\\", c>>)
    \/ \E a, b \in {"&", "<", ";"} : Has(<<a, "\\", "\n", b>>)

\* A here-document of the last line has not been read when the input ends.
DocumentsLeft(t) ==
    t.complete /\ \E i \in DOMAIN t.docs : t.docs[i].content = None

SplitInWords ==
    IsCharacters /\ input # << >> /\ ~KnownDifference =>
        LET t == Tokenize(input)
            words == L!Tokens(input, 1, << >>)
        IN  \/ DocumentsLeft(t)
            \/ /\ t.complete = words.complete
               /\ t.complete => /\ t.tokens = words.tokens
                                /\ [i \in DOMAIN t.docs |-> t.docs[i].content]
                                       = words.docs

HereDocumentsAreRead ==
    IsCharacters /\ DocumentsLeft(Tokenize(input)) =>
        ~EndsInNewline \/ IsSuffix(<<"\\", "\n">>, input)

(* splitTokens: the tokens, their types and the contents of here-documents are
   those of the shell's input, and the input is incomplete if it ends inside a
   quotation, an expansion or a here-document. parseIoRedirect calls
   splitTokens until a here-document has its content: it gets one, or the
   premature end of the input, if the line of the "<<" ends with a newline. (If
   the input ends without one it is called for ever.) *)
TokensAreTheWords == SplitInWords /\ HereDocumentsAreRead
-----------------------------------------------------------------------------
HasCharacter(c) == (\E i \in DOMAIN input : input[i].char = c) \/ HasValue(c)

InDoubleQuotes(i) == DoSubstitutions(SubSeq(input, 1, i - 1), FALSE).double

(* The words that are known to be split otherwise: unquoted expansions that are
   adjacent, unquoted $@ and $* with several values, and "$@" with several
   values and with a quote or a "*" behind it in the word, or without values
   and with another expansion; and patterns with several expansions, of which
   one has a quote. *)
KnownSplit ==
    \/ Cardinality(Expansions) > 1 /\ HasCharacter("*") /\ HasCharacter("'")
    \/ \E i \in 1..(Len(input) - 1) : IsExpansion(i) /\ IsExpansion(i + 1)
    \/ \E i \in DOMAIN input :
         /\ input[i].kind \in {"at", "star"}
         /\ \/ /\ Len(input[i].values) > 1
               /\ \/ ~InDoubleQuotes(i)
                  \/ /\ input[i].kind = "at"
                     /\ \E j \in (i + 1)..Len(input) :
                          input[j].char \in {"'", "\\", "*"}
            \/ input[i].values = << >> /\ Cardinality(Expansions) > 1

(* expand: a word becomes the fields of the standard, without their quotes, and
   each field with a "*" that is not quoted the names that match it. *)
FieldsAreTheStandards ==
    LET names(field) ==
          LET found == Glob(PreparePattern(field))
          IN  IF ContainsSpecial(field) /\ found # << >> THEN found
              ELSE <<F!TextOf(field)>>
    IN  IsComplete /\ input # << >> /\ ~KnownSplit =>
            Expand(input) = FoldLeft(LAMBDA all, f : all \o names(f), << >>,
                                     F!FieldsOf(input))
=============================================================================
