------------------------------ MODULE Tokenizer ------------------------------
(* src/tokenizer.c: the input is split into tokens one character at a time.
   The record t is struct Tokenizer: nest is the stack of token statuses (empty
   at the top level), word the status of the word that is read, buffer its
   characters so far, docs the here-documents of the line and line the line of
   a here-document that is read. A character is a string of length 1, or Backquote; stripTabs
   of "<<-" is left out, and "(" after "$", where the parser is called for the
   end of a command substitution. *)
EXTENDS Integers, SequencesExt

None == "none"
Backquote == "backquote"
Digits == {"0", "1"}
OperatorCharacters == {"\n", "&", "(", ")", ";", "<", ">", "|"}

\* canContinueOperator
CanContinueOperator(s, c) ==
    \/ <<s, c>> \in {<< <<"&">>, "&">>, << <<"|">>, "|">>}
    \/ s = <<";">> /\ c \in {";", "&"}
    \/ s = <<"<">> /\ c \in {"<", "&", ">"}
    \/ s = <<">">> /\ c \in {">", "&", "|"}
    \/ s = <<"<", "<">> /\ c = "-"

\* initTokenizer
Start == [nest |-> << >>, word |-> "none", buffer |-> << >>, backslash |-> FALSE,
          tokens |-> << >>, docs |-> << >>, line |-> << >>]

Status(t) == IF t.nest = << >> THEN "toplevel" ELSE Head(t.nest)
Nest(t, status) == [t EXCEPT !.nest = <<status>> \o @, !.word = "none"]

\* A wrong version: the end of a quotation is the beginning of a word.
UnnestToWord(t) == [t EXCEPT !.nest = Tail(@), !.word = "none"]

Unnest(t) == [t EXCEPT !.nest = Tail(@), !.word = "word"]
Put(t, c) == [t EXCEPT !.buffer = Append(@, c)]

(* delimit: what has been read is a token, and the delimiter of the last
   here-document if that has none. Delimiters are words without quotes. *)
Delimit(t, type) ==
    LET lastDoc == Len(t.docs)
    IN  IF t.buffer = << >> THEN t
        ELSE [t EXCEPT
                !.tokens = Append(@, [type |-> type, text |-> t.buffer]),
                !.buffer = << >>,
                !.docs = IF lastDoc = 0 \/ @[lastDoc].delimiter # None THEN @
                         ELSE [@ EXCEPT ![lastDoc].delimiter = t.buffer]]

\* A here-document of the line has not been read.
DocsMissing(t) == t.docs # << >> /\ Last(t.docs).content = None

\* An operator has ended: "<<" announces a here-document, a newline begins it.
DelimitOperator(t) ==
    LET u == [Delimit(t, "OPERATOR") EXCEPT !.word = "none"]
    IN  IF t.buffer = <<"<", "<">>
        THEN [u EXCEPT !.docs =
                Append(@, [delimiter |-> None, content |-> None])]
        ELSE IF t.buffer = <<"\n">> /\ DocsMissing(u)
        THEN [u EXCEPT !.word = "hereDoc"] ELSE u

(* readHereDocument: the lines up to the delimiter are the content of the first
   here-document that has none. *)
EndOfHereDocument(t) ==
    LET d == CHOOSE i \in DOMAIN t.docs :
                /\ t.docs[i].content = None
                /\ \A j \in 1..(i - 1) : t.docs[j].content # None
        u == [t EXCEPT !.line = << >>]
    IN  IF t.line # t.docs[d].delimiter
        THEN [u EXCEPT !.buffer = @ \o t.line \o <<"\n">>]
        ELSE [u EXCEPT !.docs[d].content = t.buffer, !.buffer = << >>,
                       !.word = IF d = Len(t.docs) THEN "none" ELSE @]

HereDocCharacter(t, c) ==
    IF c = "\n" THEN EndOfHereDocument(t) ELSE [t EXCEPT !.line = Append(@, c)]

\* The end of splitTokens: the beginning of a comment or a part of a word.
OtherCharacter(t, c, escaped) ==
    IF Status(t) = "toplevel" /\ t.word = "none" /\ c = "#"
    THEN Nest(t, "comment")
    ELSE Put([t EXCEPT !.word = IF @ # "none" THEN @
                                ELSE IF c \in Digits /\ ~escaped THEN "number"
                                ELSE "word"], c)

\* A quote, or the "$" or "{" of an expansion.
Quote(t, c) ==
    LET status == Status(t)
        inQuotes == status \in {"singleQuoted", "doubleQuoted"}
    IN  CASE c = "'" /\ ~inQuotes -> Put(Nest(t, "singleQuoted"), c)
          [] c = "'" /\ status = "singleQuoted" -> Put(Unnest(t), c)
          [] c = "\"" /\ ~inQuotes -> Put(Nest(t, "doubleQuoted"), c)
          [] c = "\"" /\ status = "doubleQuoted" -> Put(Unnest(t), c)
          [] c = "$" /\ status # "singleQuoted" ->
                Put([t EXCEPT !.word = "dollarSign"], c)
          [] c = "{" /\ t.word = "dollarSign" -> Put(Nest(t, "parameterExp"), c)
          [] OTHER -> t

RECURSIVE Character(_, _)

\* A character that is not escaped and that Quote has left alone.
Unquoted(t, c) ==
    LET status == Status(t)
    IN  CASE c = "}" /\ status = "parameterExp" -> Put(Unnest(t), c)
          [] c = Backquote /\ status = "backtick" -> Put(Unnest(t), c)
          [] c = Backquote /\ status \notin {"backtick", "singleQuoted"} ->
                Put(Nest(t, "backtick"), c)
          [] c \in OperatorCharacters /\ status = "toplevel" ->
                IF t.buffer = << >> THEN Put([t EXCEPT !.word = "operator"], c)
                ELSE Character([Delimit(t, IF t.word = "number" THEN "IO_NUMBER"
                                           ELSE "TOKEN") EXCEPT !.word = "none"], c)
          [] c = " " /\ status = "toplevel" ->
                Delimit([t EXCEPT !.word = "none"], "TOKEN")
          [] OTHER -> OtherCharacter(t, c, FALSE)

(* splitTokens for the character c. Where it returns a token in front of c, it
   is called again with c. *)
Character(t, c) ==
    LET escaped == t.backslash
        u == [t EXCEPT !.backslash = FALSE,
                       !.word = IF @ = "number" /\
                                   (c \notin Digits \cup {"<", ">"} \/ escaped)
                                THEN "word" ELSE @]
        quote == Quote(u, c)
    IN  CASE t.word = "hereDoc" -> HereDocCharacter(t, c)
          [] Status(t) = "comment" -> IF c = "\n" THEN Character(Unnest(t), c) ELSE t
          [] escaped /\ c = "\n" ->
                [t EXCEPT !.backslash = FALSE, !.buffer = Front(@)]
          [] OTHER ->
               IF ~escaped /\ c = "\\" /\ t.word # "operator" /\
                  Status(t) # "singleQuoted"
               THEN [Put(t, c) EXCEPT !.backslash = TRUE]
               ELSE IF t.word = "operator"
               THEN IF CanContinueOperator(t.buffer, c) THEN Put(t, c)
                    ELSE Character(DelimitOperator(t), c)
               ELSE IF escaped THEN OtherCharacter(u, c, TRUE)
               ELSE IF quote # u THEN quote
               ELSE Unquoted([u EXCEPT !.word = IF @ = "dollarSign" THEN "word"
                                                ELSE @], c)

(* The end of the input: an operator is the last token; after a word a newline
   is added. complete is FALSE for TOKENIZER_PREMATURE_EOF, which a line with
   here-documents that have not begun gets when the parser reads on. *)
AtEndOfInput(t) ==
    LET doc == IF t.word = "hereDoc" /\ t.line # << >> THEN EndOfHereDocument(t)
               ELSE t
        u == IF Status(t) = "comment" THEN Unnest(doc) ELSE doc
        word == Delimit(u, "TOKEN")
        operator == Delimit(t, "OPERATOR")
    IN  IF Status(t) = "toplevel" /\ t.word = "operator"
        THEN [tokens |-> operator.tokens, docs |-> operator.docs,
              complete |-> ~DocsMissing(operator)]
        ELSE IF Status(u) # "toplevel" \/ u.word = "hereDoc"
        THEN [tokens |-> u.tokens, docs |-> u.docs, complete |-> FALSE]
        ELSE [tokens |-> Append(word.tokens, [type |-> "OPERATOR", text |-> <<"\n">>]),
              docs |-> word.docs, complete |-> TRUE]

Tokenize(input) == AtEndOfInput(FoldLeft(Character, Start, input))
==============================================================================
