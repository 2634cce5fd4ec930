------------------------------ MODULE Expansion ------------------------------
(* The expansion of a word to fields (src/expand.c): after the substitution
   the string is split, each field becomes the names that match it
   (expandPathnames of src/match.c), and loses its quotes. glob is the C
   library's. *)
EXTENDS Patterns

CONSTANT Files   \* the names that glob finds, in their order

IsIfs(c) == \E i \in DOMAIN Ifs : Ifs[i] = c
IsIfsWhiteSpace(c) == c = " "

(* splitFields, the inner loop: f.text is split in the part from from up to end,
   a delimiter is overwritten with Nul, and f.fields are the offsets of the
   fields. A field ends at the first character of IFS, and among those that
   follow each one that is not white space begins a field of its own, but for
   the first if all before it are white space. *)
RECURSIVE SplitSubstitution(_, _, _)
SplitSubstitution(f, from, end) ==
    LET delimiter(i) == IsIfs(At(f.text, i))
        size == Len(f.text)
        cut == Least({i \in (f.offset + from)..size : i = size \/ delimiter(i)})
        next == Least({i \in (cut + 1)..(size + 1) : i >= end \/ ~delimiter(i)})
        run == (cut + 1)..(next - 1)
        hard(i) == ~IsIfsWhiteSpace(At(f.text, i))
        more == {i \in run : hard(i) /\ (\/ hard(cut) \/ cut = 0
                                         \/ \E j \in run : j < i /\ hard(j))}
        begins == IF cut # 0 \/ hard(0) THEN <<f.offset>> ELSE << >>
    IN  IF f.offset >= end \/ cut >= end THEN f
        ELSE SplitSubstitution(
               [text |-> [i \in 1..size |->
                            IF i - 1 \in more \cup {cut} THEN Nul ELSE f.text[i]],
                fields |-> f.fields \o begins
                            \o SelectSeq([i \in 1..size |-> i - 1],
                                         LAMBDA i : i \in more),
                offset |-> next, substs |-> f.substs], 0, end)

\* One substitution; i is its number.
SplitAt(f, i) ==
    LET s == f.substs[i]
        begin == s.begin - f.offset
        split == IF s.applyFieldSplitting THEN SplitSubstitution(f, begin, s.end)
                 ELSE f
        u == [split EXCEPT
                !.substs[i] = [s EXCEPT !.begin = begin,
                                        !.startField = Len(f.fields),
                                        !.endField = Len(split.fields),
                                        !.end = @ - split.offset]]
        after == s.end
    IN  IF ~s.splitAtEnd THEN u
        ELSE [u EXCEPT !.fields = Append(@, u.offset),
                       !.text[after + 1] = Nul,
                       !.offset = after + 1]

(* The fields of the substituted word w, each up to the next Nul, and the
   substitutions, whose offsets are now those in their fields. *)
SplitFields(w) ==
    LET start == [text |-> w.text, fields |-> << >>, offset |-> 0,
                  substs |-> w.substs]
        f == FoldLeft(SplitAt, start, [i \in DOMAIN w.substs |-> i])
        size == Len(f.text)
        offsets == IF f.offset = size THEN f.fields ELSE Append(f.fields, f.offset)
        field(b) == SubSeq(f.text, b + 1,
                           Least({i \in b..size : At(f.text, i) = Nul}))
    IN  [fields |-> [i \in DOMAIN offsets |-> field(offsets[i])],
         substs |-> f.substs]
-----------------------------------------------------------------------------
Glob(pattern) == SelectSeq(Files, LAMBDA f : Fnmatch(pattern, f))

(* expandPathnames: a field with special characters becomes the names that
   match it, or stays what it is without its quotes if there are none. *)
ExpandPathnames(split) ==
    LET names(i) ==
          LET chars == PatternCharacters(split.fields[i], i - 1, split.substs)
              found == Glob(PreparePattern(chars))
          IN  IF ContainsSpecial(chars) /\ found # << >> THEN found
              ELSE <<RemoveQuotes(split.fields[i], i - 1, split.substs)>>
    IN  FoldLeft(LAMBDA all, i : all \o names(i), << >>,
                 [i \in DOMAIN split.fields |-> i])

\* The end of expand: the empty field of a word of "$@" is none.
WithoutEmptyField(w, fields) ==
    IF w.deleteIfEmpty /\ fields = << << >> >> /\ w.substs = << >> THEN << >>
    ELSE fields

ExpandSubstituted(w) == WithoutEmptyField(w, ExpandPathnames(SplitFields(w)))

\* expand: the fields that a word of a command becomes.
Expand(word) == ExpandSubstituted(DoSubstitutions(word, FALSE))
=============================================================================
