------------------------------- MODULE Parser -------------------------------
(* The recursive descent parser of src/parser.c, as a recogniser: each parse
   function is an operator of an input s and of the offset of the current
   token, and gives the offset after what it has read or one of the results
   below. s.ts are the tokens read so far and s.eof says that none follow; a
   token stands for its text ("w" for a name, "-" for a word that is none, "<"
   for every redirection with the file descriptor in front of it). The syntax
   tree and the contents of here-documents are left out: no function looks at
   them to decide what comes next. *)
EXTENDS Integers, Sequences

Syntax == 0      \* PARSER_SYNTAX: the error is reported, nothing is executed
Backtrack == -1  \* PARSER_BACKTRACK of parseIoRedirect
Unread == -2     \* the function waits for a token that has not been read
Crash == -3      \* the token is used although getToken has returned NULL
NoCmd == -4      \* PARSER_NO_CMD

Reserved == {"!", "{", "}", "case", "do", "done", "elif", "else", "esac", "fi",
             "for", "if", "in", "then", "until", "while"}
Operators == {"\n", "&", "&&", "(", ")", ";", ";;", ";&", "<", "|", "||"}
IsName(t) == t = "w" \/ t \in Reserved \ {"!", "{", "}"}

\* A wrong version, for the check of the properties: no list ends at elif.
TerminatorsWithoutElif ==
    {")", "}", ";;", "do", "done", "else", "esac", "fi", "then"}

\* isCompoundListTerminator; ";&" is missing from it.
Terminators ==
    {")", "}", ";;", "do", "done", "elif", "else", "esac", "fi", "then"}

\* getToken returns a token, or NULL when no input is left.
HasToken(s, i) == i <= Len(s.ts)

\* What a function returns that tests for NULL and finds it.
NoToken(s) == IF s.eof THEN Syntax ELSE Unread

\* What it returns if it has matched when no token follows.
MatchAtEnd(s, i) == IF s.eof THEN i ELSE Unread

\* result != PARSER_MATCH is passed on, otherwise the function goes on.
Then(result, Continue(_)) == IF result > 0 THEN Continue(result) ELSE result

\* The current token has to be one of texts and is consumed.
Expect(s, i, texts) ==
    IF ~HasToken(s, i) THEN NoToken(s)
    ELSE IF s.ts[i] \in texts THEN i + 1 ELSE Syntax

RECURSIVE SkipNewlines(_, _), ListItems(_, _, _, _), ParsePipeline(_, _),
          PipelineCommands(_, _), ParseCommand(_, _), SimpleCommandItems(_, _, _),
          Redirections(_, _), ForWords(_, _), CaseItems(_, _), CasePatterns(_, _),
          ParseIfClause(_, _)

\* After a newline parseLinebreak reads on, and it matches at the end of input.
SkipNewlines(s, i) ==
    IF ~HasToken(s, i) THEN MatchAtEnd(s, i)
    ELSE IF s.ts[i] = "\n" THEN SkipNewlines(s, i + 1) ELSE i

ParseLinebreak(s, i) == IF HasToken(s, i) THEN SkipNewlines(s, i) ELSE NoToken(s)

ListItems(s, i, compound, allowLinebreak) ==
    Then(ParsePipeline(s, i), LAMBDA j :
      LET t == IF HasToken(s, j) THEN s.ts[j] ELSE "none"
          andOr == t \in {"&&", "||"}
          next == IF andOr THEN ParseLinebreak(s, j + 1)
                  ELSE IF t = "\n" THEN ParseLinebreak(s, j)
                  ELSE IF allowLinebreak THEN ParseLinebreak(s, j + 1) ELSE j + 1
      IN  IF ~HasToken(s, j) THEN MatchAtEnd(s, j)
          ELSE IF ~(andOr \/ t = ";" \/ (allowLinebreak /\ t = "\n")) THEN j
          ELSE Then(next, LAMBDA k :
                 IF andOr THEN ListItems(s, k, compound, allowLinebreak)
                 ELSE IF ~HasToken(s, k)
                 THEN IF compound THEN NoToken(s) ELSE MatchAtEnd(s, k)
                 ELSE IF s.ts[k] \in (IF compound THEN Terminators ELSE {"\n"})
                 THEN k
                 ELSE ListItems(s, k, compound, allowLinebreak)))

ParseList(s, i, compound, allowLinebreak) ==
    Then(IF allowLinebreak THEN ParseLinebreak(s, i) ELSE i,
         LAMBDA j : ListItems(s, j, compound, allowLinebreak))

\* The commands of a pipeline: the token after "|" and its newlines is not
\* tested before parseCommand looks at it.
PipelineCommands(s, i) ==
    Then(ParseCommand(s, i), LAMBDA j :
      IF ~HasToken(s, j) THEN MatchAtEnd(s, j)
      ELSE IF s.ts[j] # "|" THEN j
      ELSE Then(ParseLinebreak(s, j + 1), LAMBDA k : PipelineCommands(s, k)))

ParsePipeline(s, i) ==
    IF ~HasToken(s, i) THEN NoToken(s)
    ELSE IF s.ts[i] = "!" THEN ParsePipeline(s, i + 1)
    ELSE PipelineCommands(s, i)

ParseCompoundListWithTerminator(s, i, terminator) ==
    Then(ParseList(s, i, TRUE, TRUE), LAMBDA j : Expect(s, j, {terminator}))

ParseIoRedirect(s, i) ==
    IF s.ts[i] # "<" THEN Backtrack
    ELSE IF ~HasToken(s, i + 1) THEN NoToken(s)
    ELSE IF s.ts[i + 1] \in Operators THEN Syntax ELSE i + 2

Redirections(s, i) ==
    IF ~HasToken(s, i) THEN MatchAtEnd(s, i)
    ELSE IF s.ts[i] \notin Operators \/ ParseIoRedirect(s, i) = Backtrack THEN i
    ELSE Then(ParseIoRedirect(s, i), LAMBDA j : Redirections(s, j))

\* The loop of parseSimpleCommand for the command that begins at first.
SimpleCommandItems(s, first, i) ==
    IF ~HasToken(s, i) THEN MatchAtEnd(s, i)
    ELSE IF s.ts[i] \notin Operators THEN SimpleCommandItems(s, first, i + 1)
    ELSE IF ParseIoRedirect(s, i) = Backtrack
    THEN IF i > first THEN i ELSE Syntax
    ELSE Then(ParseIoRedirect(s, i), LAMBDA j : SimpleCommandItems(s, first, j))

ParseSimpleCommand(s, i) == SimpleCommandItems(s, i, i)

ForWords(s, i) ==
    IF ~HasToken(s, i) THEN NoToken(s)
    ELSE IF s.ts[i] \notin Operators THEN ForWords(s, i + 1)
    ELSE IF s.ts[i] = ";" THEN i + 1
    ELSE IF s.ts[i] = "\n" THEN i ELSE Syntax

ParseForClause(s, i) ==
    LET \* The words, or none for "$@".
        list(j) == IF ~HasToken(s, j) THEN NoToken(s)
                   ELSE IF s.ts[j] = "in" THEN ForWords(s, j + 1)
                   ELSE IF s.ts[j] = ";" THEN j + 1 ELSE j
        name == IF ~HasToken(s, i + 1) THEN NoToken(s)
                ELSE IF IsName(s.ts[i + 1]) THEN i + 2 ELSE Syntax
    IN  Then(name, LAMBDA j :
        Then(ParseLinebreak(s, j), LAMBDA k :
        Then(list(k), LAMBDA m :
        Then(ParseLinebreak(s, m), LAMBDA n :
        Then(Expect(s, n, {"do"}), LAMBDA o :
             ParseCompoundListWithTerminator(s, o, "done"))))))

\* i is the name; the body has to begin like a compound command.
ParseFunctionDefinition(s, i) ==
    Then(Expect(s, i + 2, {")"}), LAMBDA j :
    Then(ParseLinebreak(s, j), LAMBDA k :
      IF ~HasToken(s, k) THEN NoToken(s)
      ELSE IF s.ts[k] \in Reserved \cup {"("} THEN ParseCommand(s, k)
      ELSE Syntax))

\* The patterns of an item up to the closing parenthesis.
CasePatterns(s, i) ==
    IF ~HasToken(s, i) THEN NoToken(s)
    ELSE IF s.ts[i] \in Operators THEN Syntax
    ELSE IF HasToken(s, i + 1) /\ s.ts[i + 1] = "|" THEN CasePatterns(s, i + 2)
    ELSE Expect(s, i + 1, {")"})

CaseItems(s, i) ==
    LET patterns == IF s.ts[i] = "(" THEN CasePatterns(s, i + 1)
                    ELSE CasePatterns(s, i)
        list(j) == IF ~HasToken(s, j) THEN NoToken(s)
                   ELSE IF s.ts[j] \in {"esac", ";;", ";&"} THEN j
                   ELSE ParseList(s, j, TRUE, TRUE)
        end(j) == IF ~HasToken(s, j) THEN NoToken(s)
                  ELSE IF s.ts[j] = "esac" THEN j
                  ELSE IF s.ts[j] \in {";;", ";&"} THEN ParseLinebreak(s, j + 1)
                  ELSE Syntax
    IN  IF ~HasToken(s, i) THEN NoToken(s)
        ELSE IF s.ts[i] = "esac" THEN i + 1
        ELSE Then(patterns, LAMBDA j :
             Then(ParseLinebreak(s, j), LAMBDA k :
             Then(list(k), LAMBDA m :
             Then(end(m), LAMBDA n : CaseItems(s, n)))))

ParseCaseClause(s, i) ==
    LET word == IF ~HasToken(s, i + 1) THEN NoToken(s)
                ELSE IF s.ts[i + 1] \in Operators THEN Syntax ELSE i + 2
    IN  Then(word, LAMBDA j :
        Then(ParseLinebreak(s, j), LAMBDA k :
        Then(Expect(s, k, {"in"}), LAMBDA m :
        Then(ParseLinebreak(s, m), LAMBDA n : CaseItems(s, n)))))

\* i is the "if" or an "elif".
ParseIfClause(s, i) ==
    Then(ParseCompoundListWithTerminator(s, i + 1, "then"), LAMBDA j :
    Then(ParseList(s, j, TRUE, TRUE), LAMBDA k :
      IF ~HasToken(s, k) THEN NoToken(s)
      ELSE IF s.ts[k] = "elif" THEN ParseIfClause(s, k)
      ELSE IF s.ts[k] = "else"
      THEN ParseCompoundListWithTerminator(s, k + 1, "fi")
      ELSE Expect(s, k, {"fi"})))

ParseCommand(s, i) ==
    LET t == s.ts[i]
        clause == CASE t = "(" -> ParseCompoundListWithTerminator(s, i + 1, ")")
                    [] t = "{" -> ParseCompoundListWithTerminator(s, i + 1, "}")
                    [] t = "for" -> ParseForClause(s, i)
                    [] t = "case" -> ParseCaseClause(s, i)
                    [] t = "if" -> ParseIfClause(s, i)
                    [] t \in {"while", "until"} ->
                         Then(ParseCompoundListWithTerminator(s, i + 1, "do"),
                              LAMBDA j :
                                ParseCompoundListWithTerminator(s, j, "done"))
                    [] OTHER -> Syntax
    IN  IF ~HasToken(s, i) THEN IF s.eof THEN Crash ELSE Unread
        ELSE IF t \in Reserved \cup {"("}
        THEN Then(clause, LAMBDA j : Redirections(s, j))
        ELSE IF ~IsName(t) THEN ParseSimpleCommand(s, i)
        ELSE IF ~HasToken(s, i + 1) /\ ~s.eof THEN Unread
        ELSE IF HasToken(s, i + 1) /\ s.ts[i + 1] = "("
        THEN ParseFunctionDefinition(s, i)
        ELSE ParseSimpleCommand(s, i)

(* parse: a command line, or with readWholeScript all of the input. Tokens that
   are left over after a match are a syntax error, as is input that has not
   been made into tokens yet; a command line ends with its newline. *)
Parse(s, readWholeScript) ==
    LET result ==
          IF ~HasToken(s, 1) THEN IF s.eof THEN NoCmd ELSE Unread
          ELSE IF ~readWholeScript
          THEN IF s.ts[1] = "\n" THEN NoCmd ELSE ParseList(s, 1, FALSE, FALSE)
          ELSE Then(ParseLinebreak(s, 1), LAMBDA i :
                 IF ~HasToken(s, i) THEN IF s.eof THEN NoCmd ELSE Unread
                 ELSE ParseList(s, i, FALSE, TRUE))
        inputLeft(i) == \/ i < Len(s.ts)
                        \/ ~s.eof /\ ~(~readWholeScript /\ s.ts[i] = "\n")
    IN  Then(result, LAMBDA i : IF inputLeft(i) THEN Syntax ELSE i)

\* parseCommandSubstitution: the tokens after "$(" up to its ")".
ParseCommandSubstitution(s) ==
    Then(ParseLinebreak(s, 1), LAMBDA i :
      IF ~HasToken(s, i) THEN NoToken(s)
      ELSE IF s.ts[i] = ")" THEN i + 1
      ELSE ParseCompoundListWithTerminator(s, i, ")"))
=============================================================================
