------------------------------- MODULE Grammar -------------------------------
(* The grammar of the shell (POSIX, XCU 2.10): the reference for Parser. An
   operator gives the set of the positions at which the construct it is named
   for may end in the tokens ts when it begins at i; AtEnd is in the set if the
   tokens end inside the construct, so that it could still be completed. The
   grammar is POSIX's without asynchronous lists; "dxsh:" marks what this shell
   accepts besides, or does not accept. The constructs that contain each other
   find these sets in a function e of the construct and the position. *)
EXTENDS Integers, Sequences

CONSTANTS Reserved,   \* the reserved words
          Operators,  \* the operators; all other tokens are words
          Names       \* the words that are names

AtEnd == 0

\* One of texts.
One(ts, i, texts) ==
    IF i > Len(ts) THEN {AtEnd} ELSE IF ts[i] \in texts THEN {i + 1} ELSE {}

Word(ts, i) ==
    IF i > Len(ts) THEN {AtEnd} ELSE IF ts[i] \in Operators THEN {} ELSE {i + 1}

\* What ends at ends, followed by Next.
Before(ends, Next(_)) ==
    (ends \cap {AtEnd}) \cup UNION {Next(p) : p \in ends \ {AtEnd}}

\* What ends at ends, followed by any number of Next.
Repeat(ends, Next(_)) ==
    LET RECURSIVE Grow(_, _)
        Grow(all, new) ==
            IF new \subseteq all THEN all ELSE Grow(all \cup new, Before(new, Next))
    IN  Grow({}, ends)

\* The construct at i, any number of times, with a separator between each two.
List(e, construct, i, Separator(_)) ==
    Repeat(e[construct, i], LAMBDA p :
        Before(Separator(p), LAMBDA q : e[construct, q]))

Linebreak(ts, i) == Repeat({i}, LAMBDA p : One(ts, p, {"\n"}))

NewlineList(ts, i) == Before(One(ts, i, {"\n"}), LAMBDA p : Linebreak(ts, p))

\* ";" linebreak, or newlines
SequentialSep(ts, i) ==
    NewlineList(ts, i) \cup
    Before(One(ts, i, {";"}), LAMBDA p : Linebreak(ts, p))

Term(ts, e, i) == List(e, "and_or", i, LAMBDA p : SequentialSep(ts, p))

Separated(ts, ends) == Before(ends, LAMBDA p : SequentialSep(ts, p))
OptionallySeparated(ts, ends) == ends \cup Separated(ts, ends)

\* linebreak term [separator]
CompoundList(ts, e, i) ==
    OptionallySeparated(ts, Before(Linebreak(ts, i), LAMBDA p : e["term", p]))

Redirect(ts, i) == Before(One(ts, i, {"<"}), LAMBDA p : Word(ts, p))

(* The first word is not a reserved word, unless a redirection is in front of
   it; all the words that follow belong to the command. *)
SimpleCommand(ts, i) ==
    LET item(p) == Redirect(ts, p) \cup Word(ts, p)
        whole == {p \in Repeat(Before({i}, item), item) :
                    p \in 1..Len(ts) => ts[p] \in Operators \ {"<"}}
    IN  IF i <= Len(ts) /\ ts[i] \in Reserved THEN {} ELSE whole

\* dxsh: a ";" may follow the newlines after the name.
ForClause(ts, e, i) ==
    LET name == Before(One(ts, i, {"for"}), LAMBDA p : One(ts, p, Names))
        inList(p) == Before(Repeat(One(ts, p, {"in"}), LAMBDA q : Word(ts, q)),
                            LAMBDA q : SequentialSep(ts, q))
        noList(p) == {p} \cup SequentialSep(ts, p)
    IN  Before(name, LAMBDA p :
        Before(Linebreak(ts, p), LAMBDA q :
        Before(inList(q) \cup noList(q), LAMBDA r :
        Before(One(ts, r, {"do"}), LAMBDA t :
        Before(e["compound_list", t], LAMBDA u : One(ts, u, {"done"}))))))

\* The patterns of an item. dxsh: after the parenthesis the first may be esac.
CasePatterns(ts, i) ==
    LET first == IF i <= Len(ts) /\ ts[i] = "esac" THEN {}
                 ELSE Word(ts, i) \cup
                      Before(One(ts, i, {"("}), LAMBDA p : Word(ts, p))
        patterns == Repeat(first, LAMBDA p :
                        Before(One(ts, p, {"|"}), LAMBDA q : Word(ts, q)))
    IN  Before(Before(patterns, LAMBDA p : One(ts, p, {")"})),
               LAMBDA p : Linebreak(ts, p))

Terminated(ts, ends, by) ==
    Before(Before(ends, LAMBDA p : One(ts, p, by)), LAMBDA p : Linebreak(ts, p))

\* dxsh: ";&" may not stand behind a separator.
CaseItem(ts, e, i) ==
    Before(CasePatterns(ts, i), LAMBDA p :
        Terminated(ts, {p} \cup e["term", p], {";;", ";&"}) \cup
        Terminated(ts, Separated(ts, e["term", p]), {";;"}))

\* The last item may have no terminator.
LastCaseItem(ts, e, i) ==
    Before(CasePatterns(ts, i), LAMBDA p :
        {p} \cup OptionallySeparated(ts, e["term", p]))

CaseClause(ts, e, i) ==
    LET begin ==
          Before(One(ts, i, {"case"}), LAMBDA p :
          Before(Word(ts, p), LAMBDA q :
          Before(Linebreak(ts, q), LAMBDA r :
          Before(One(ts, r, {"in"}), LAMBDA t : Linebreak(ts, t)))))
        items == Repeat(begin, LAMBDA p : CaseItem(ts, e, p))
    IN  Before(items \cup Before(items, LAMBDA p : LastCaseItem(ts, e, p)),
               LAMBDA p : One(ts, p, {"esac"}))

IfClause(ts, e, i) ==
    LET branch(p, begin) ==
          Before(One(ts, p, {begin}), LAMBDA q :
          Before(e["compound_list", q], LAMBDA r :
          Before(One(ts, r, {"then"}), LAMBDA t : e["compound_list", t])))
        branches == Repeat(branch(i, "if"), LAMBDA p : branch(p, "elif"))
        otherwise == Before(branches, LAMBDA p :
                     Before(One(ts, p, {"else"}), LAMBDA q : e["compound_list", q]))
    IN  Before(branches \cup otherwise, LAMBDA p : One(ts, p, {"fi"}))

\* begin compound_list end
Group(ts, e, i, begin, end) ==
    Before(One(ts, i, {begin}), LAMBDA p :
    Before(e["compound_list", p], LAMBDA q : One(ts, q, {end})))

CompoundCommand(ts, e, i) ==
    LET t == IF i <= Len(ts) THEN ts[i] ELSE "none"
        command == CASE t = "none" -> {AtEnd}
                     [] t = "for" -> ForClause(ts, e, i)
                     [] t = "case" -> CaseClause(ts, e, i)
                     [] t = "if" -> IfClause(ts, e, i)
                     [] t = "(" -> Group(ts, e, i, "(", ")")
                     [] t = "{" -> Group(ts, e, i, "{", "}")
                     [] t \in {"while", "until"} ->
                            Before(Group(ts, e, i, t, "do"), LAMBDA p :
                            Before(e["compound_list", p],
                                   LAMBDA q : One(ts, q, {"done"})))
                     [] OTHER -> {}
    IN  Repeat(command, LAMBDA p : Redirect(ts, p))

\* What stands in front of the body of a function definition.
FunctionName(ts, i) ==
    Before(One(ts, i, Names \ Reserved), LAMBDA p :
    Before(One(ts, p, {"("}), LAMBDA q :
    Before(One(ts, q, {")"}), LAMBDA r : Linebreak(ts, r))))

Command(ts, e, i) ==
    SimpleCommand(ts, i) \cup
    Before({i} \cup FunctionName(ts, i), LAMBDA p : CompoundCommand(ts, e, p))

\* dxsh: "!" may be repeated.
Pipeline(ts, e, i) ==
    Before(Repeat({i}, LAMBDA p : One(ts, p, {"!"})), LAMBDA p :
    List(e, "command", p,
         LAMBDA q : Before(One(ts, q, {"|"}), LAMBDA r : Linebreak(ts, r))))

AndOr(ts, e, i) ==
    List(e, "pipeline", i,
         LAMBDA p : Before(One(ts, p, {"&&", "||"}), LAMBDA q : Linebreak(ts, q)))

\* A command line: a list of and-or lists between ";" in front of a newline.
CommandLine(ts, e) ==
    LET semi(p) == One(ts, p, {";"})
        list == List(e, "and_or", 1, semi)
    IN  Before(list \cup Before(list, semi), LAMBDA p : One(ts, p, {"\n"}))
            \cup One(ts, 1, {"\n"})

\* A script: any number of commands between newlines or ";".
Script(ts, e) == Linebreak(ts, 1) \cup e["compound_list", 1]

\* The rest of a command substitution.
Substitution(ts, e) == Before(Script(ts, e), LAMBDA p : One(ts, p, {")"}))

Ends(ts) ==
    LET e[construct \in {"command_line", "script", "substitution", "compound_list",
                         "term", "and_or", "pipeline", "command"},
          i \in 1..(Len(ts) + 1)] ==
            CASE construct = "command_line" -> CommandLine(ts, e)
              [] construct = "script" -> Script(ts, e)
              [] construct = "substitution" -> Substitution(ts, e)
              [] construct = "compound_list" -> CompoundList(ts, e, i)
              [] construct = "term" -> Term(ts, e, i)
              [] construct = "and_or" -> AndOr(ts, e, i)
              [] construct = "pipeline" -> Pipeline(ts, e, i)
              [] construct = "command" -> Command(ts, e, i)
    IN  e
=============================================================================
