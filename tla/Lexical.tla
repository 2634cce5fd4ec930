------------------------------- MODULE Lexical -------------------------------
(* The words, operators and comments of the shell's input (POSIX, XCU 2.3), as
   a definition by recursion on what stands at a position i of the characters
   s: the reference for Tokenizer. An operator gives what has been read and the
   position at which it ends, or NotEnded if the input ends inside. *)
EXTENDS Integers, SequencesExt

CONSTANTS Backquote, Digits, OperatorCharacters

NotEnded == 0
OperatorTexts == {<<c>> : c \in OperatorCharacters} \cup
    {<<"&", "&">>, <<"|", "|">>, <<";", ";">>, <<";", "&">>, <<"<", "<">>,
     <<"<", "&">>, <<"<", ">">>, <<">", ">">>, <<">", "&">>, <<">", "|">>}

\* The character that ends a context.
Closing == [c \in {"'", "\"", "{", Backquote} |-> IF c = "{" THEN "}" ELSE c]

\* A quote begins here in the given context: the characters that begin it.
Opens(s, i, context) ==
    \/ s[i] = "'" /\ context \notin {"'", "\""}
    \/ s[i] = "\"" /\ context \notin {"'", "\""}
    \/ s[i] = Backquote /\ context \notin {"'", Backquote}

RECURSIVE Continued(_, _), Rest(_, _, _), RestOfWord(_, _), Tokens(_, _, _),
          Bodies(_, _, _)

\* What ends at r.end and has the given text in front of it.
Behind(text, r) == [end |-> r.end, text |-> text \o r.text]

\* The part u and, if it ends, what follows it.
Followed(u, Next(_)) == IF u.end = NotEnded THEN u ELSE Behind(u.text, Next(u.end))

\* The position after the line continuations at i.
Continued(s, i) ==
    IF i < Len(s) /\ s[i] = "\\" /\ s[i + 1] = "\n" THEN Continued(s, i + 2) ELSE i

\* A character, an escaped character or a whole quotation.
Unit(s, i, context) ==
    LET j == Continued(s, i + 1)
    IN  CASE s[i] = "\\" /\ context # "'" /\ i < Len(s) ->
                [end |-> i + 2,
                 text |-> IF s[i + 1] = "\n" THEN << >> ELSE <<"\\", s[i + 1]>>]
          [] s[i] = "$" /\ context # "'" /\ j <= Len(s) /\ s[j] = "{" ->
                Behind(<<"$", "{">>, Rest(s, j + 1, "{"))
          [] Opens(s, i, context) -> Behind(<<s[i]>>, Rest(s, i + 1, s[i]))
          [] OTHER -> [end |-> i + 1, text |-> <<s[i]>>]

\* What follows in a quotation, up to and with its end.
Rest(s, i, context) ==
    IF i > Len(s) THEN [end |-> NotEnded, text |-> << >>]
    ELSE IF s[i] = Closing[context] THEN [end |-> i + 1, text |-> <<s[i]>>]
    ELSE Followed(Unit(s, i, context), LAMBDA j : Rest(s, j, context))

RestOfWord(s, i) ==
    IF i > Len(s) \/ s[i] \in OperatorCharacters \cup {" "}
    THEN [end |-> i, text |-> << >>]
    ELSE Followed(Unit(s, i, "none"), LAMBDA j : RestOfWord(s, j))

\* The first position from i with a newline, or the end.
EndOfLine(s, i) ==
    CHOOSE j \in i..(Len(s) + 1) :
        /\ j > Len(s) \/ s[j] = "\n"
        /\ \A k \in i..(j - 1) : s[k] # "\n"

\* The contents when a line comes first; bodies are those of what follows it.
WithLine(line, delimiters, bodies) ==
    [bodies EXCEPT !.contents =
        IF line = Head(delimiters) THEN <<<< >>>> \o @
        ELSE <<line \o <<"\n">> \o Head(@)>> \o Tail(@)]

(* The contents of the here-documents with the given delimiters from i on: the
   lines up to the one that is the delimiter. *)
Bodies(s, i, delimiters) ==
    LET end == EndOfLine(s, i)
        line == SubSeq(s, i, end - 1)
    IN  IF delimiters = << >> THEN [end |-> i, contents |-> <<<< >>>>]
        ELSE IF i > Len(s) THEN [end |-> NotEnded, contents |-> <<<< >>>>]
        ELSE WithLine(line, delimiters,
                      Bodies(s, IF end < Len(s) THEN end + 1 ELSE Len(s) + 1,
                             IF line = Head(delimiters) THEN Tail(delimiters)
                             ELSE delimiters))

\* The word after "<<" is the delimiter of a here-document.
Delimiters(delimiters, text) ==
    LET known == IF delimiters # << >> /\ Last(delimiters) = << >>
                 THEN Append(Front(delimiters), text) ELSE delimiters
    IN  IF text = <<"<", "<">> THEN Append(known, << >>) ELSE known

Token(type, text, end) == [type |-> type, text |-> text, end |-> end]

WordToken(s, word) ==
    LET isNumber == /\ \A k \in DOMAIN word.text : word.text[k] \in Digits
                    /\ word.end <= Len(s) /\ s[word.end] \in {"<", ">"}
    IN  Token(IF isNumber THEN "IO_NUMBER" ELSE "TOKEN", word.text, word.end)

\* The longest operator.
OperatorToken(s, i) ==
    LET op == CHOOSE t \in OperatorTexts :
                /\ IsPrefix(t, SubSeq(s, i, Len(s)))
                /\ \A u \in OperatorTexts :
                      IsPrefix(u, SubSeq(s, i, Len(s))) => Len(u) <= Len(t)
    IN  Token("OPERATOR", op, i + Len(op))

NextToken(s, i) ==
    IF s[i] \in OperatorCharacters THEN OperatorToken(s, i)
    ELSE WordToken(s, RestOfWord(s, i))

Before(token, r) ==
    [r EXCEPT !.tokens = <<[type |-> token.type, text |-> token.text]>> \o @]

Incomplete == [tokens |-> << >>, docs |-> << >>, complete |-> FALSE]
Newline == Token("OPERATOR", <<"\n">>, 0)

\* The token and those that follow it; an operator may end the input.
TokensFrom(s, token, delimiters) ==
    IF token.end = NotEnded THEN Incomplete
    ELSE Before(token,
                IF token.type = "OPERATOR" /\ token.end > Len(s)
                THEN [tokens |-> << >>, docs |-> << >>, complete |-> delimiters = << >>]
                ELSE Tokens(s, token.end, Delimiters(delimiters, token.text)))

TokensBehind(s, bodies) ==
    IF bodies.end = NotEnded THEN Incomplete
    ELSE Before(Newline, [Tokens(s, bodies.end, << >>) EXCEPT
                            !.docs = Front(bodies.contents) \o @])

(* The tokens from i on; delimiters are those of the here-documents that the
   next newline begins. A newline ends the input unless an operator does. *)
Tokens(s, i, delimiters) ==
    LET j == Continued(s, i)
    IN  IF j > Len(s)
        THEN Before(Newline, [Incomplete EXCEPT !.complete = delimiters = << >>])
        ELSE CASE s[j] = " " -> Tokens(s, j + 1, delimiters)
               [] s[j] = "#" -> Tokens(s, EndOfLine(s, j), delimiters)
               [] s[j] = "\n" /\ delimiters # << >> /\ j < Len(s) ->
                    TokensBehind(s, Bodies(s, j + 1,
                                           Delimiters(delimiters, <<"\n">>)))
               [] OTHER -> TokensFrom(s, NextToken(s, j), delimiters)
=============================================================================
