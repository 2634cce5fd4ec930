--------------------------- MODULE PatternsProofs ---------------------------
(* Proofs about Patterns and the part of Words that it uses, for words of any
   length. The functions that go through a word are recursive, and such a
   function is a choice: each one first becomes an equation (SubstitutedIs,
   ScannedIs, ReadingIs, CharactersRun), since a run of its steps exists
   (Recursion). Induction over the length is that of UpTo, by a least number
   that would be an exception. The invariant of the induction is InStep: after
   each element of the word, nextChar, at the place of the text where
   doSubstitutions has come to, has the same characters and the same quotes as
   the reference. *)
EXTENDS PatternWords, SequenceTheorems, WellFoundedInduction, NaturalsInduction,
        TLAPS

\* A set of numbers that has an element has a least one.
LEMMA LeastNumber ==
  ASSUME NEW S, S \subseteq Nat, S # {}
  PROVE  \E x \in S : \A y \in S : x <= y
<1> DEFINE R == OpToRel(<, Nat)
<1>1. IsWellFoundedOn(R, Nat)
  BY NatLessThanWellFounded
<1>2. \A x, y \in Nat : y < x => << y, x >> \in R
  BY DEF OpToRel
<1> HIDE DEF R
<1>3. PICK x \in S : \A y \in S : << y, x >> \notin R
  BY <1>1, WFMin
<1>4. ASSUME NEW y \in S PROVE x <= y
  <2>1. x \in Nat /\ y \in Nat
    OBVIOUS
  <2>2. ~ (y < x)
    BY <1>2, <1>3, <2>1, Zenon
  <2> QED
    BY <2>1, <2>2
<1> QED
  BY <1>4

\* Least, by which NextSubstitution and StripPrefixSuffix search.
LEMMA LeastIs ==
  ASSUME NEW S, S \subseteq Nat, S # {}
  PROVE  Least(S) \in S /\ \A y \in S : Least(S) <= y
BY LeastNumber DEF Least

(* A set of the numbers up to n that has 0, and with each number the next one,
   has them all: the induction of this module. *)
LEMMA UpTo ==
  ASSUME NEW n \in Nat, NEW S, 0 \in S, \A k \in 1..n : k - 1 \in S => k \in S
  PROVE  0..n \subseteq S
<1> SUFFICES ASSUME (0..n) \ S # {} PROVE FALSE
  OBVIOUS
<1> DEFINE Left == (0..n) \ S
<1>1. Left \subseteq Nat /\ Left # {}
  OBVIOUS
<1> HIDE DEF Left
<1>2. PICK m \in Left : \A y \in Left : m <= y
  BY <1>1, LeastNumber
<1>3. m \in 1..n /\ m - 1 \in 0..n /\ ~ (m <= m - 1)
  BY <1>2 DEF Left
<1> QED
  BY <1>2, <1>3 DEF Left

(* What starts with base and goes on with the steps G, n times, exists: this
   makes a recursive definition, which is a CHOICE, an equation. *)
IsRun(f, n, D, base, G) ==
    /\ f \in [0..n -> D]
    /\ f[0] = base
    /\ \A k \in 1..n : f[k] = G[<< f[k - 1], k >>]

\* There is such a run: by induction on how far it goes.
LEMMA Recursion ==
  ASSUME NEW n \in Nat, NEW D, NEW base \in D, NEW G \in [D \X (1..n) -> D]
  PROVE  \E f : IsRun(f, n, D, base, G)
<1> DEFINE Is(f, m) == f \in [0..m -> D] /\ f[0] = base
                       /\ \A k \in 1..m : f[k] = G[<< f[k - 1], k >>]
           S == {m \in 0..n : \E f : Is(f, m)}
<1>1. 0 \in S
  <2>1. Is([k \in 0..0 |-> base], 0)
    OBVIOUS
  <2> HIDE DEF Is
  <2> QED
    BY <2>1
<1>2. ASSUME NEW m \in 1..n, m - 1 \in S PROVE m \in S
  <2>1. PICK f : Is(f, m - 1)
    BY <1>2
  <2>2. m - 1 \in 0..(m - 1) /\ f[m - 1] \in D
    BY <2>1
  <2> DEFINE g == [k \in 0..m |-> IF k < m THEN f[k] ELSE G[<< f[m - 1], m >>]]
  <2>3. G[<< f[m - 1], m >>] \in D
    BY <2>2
  <2>4. g \in [0..m -> D]
    BY <2>1, <2>3
  <2>5. g[0] = base
    BY <2>1
  <2>6. ASSUME NEW k \in 1..m PROVE g[k] = G[<< g[k - 1], k >>]
    <3>1. g[k - 1] = f[k - 1]
      OBVIOUS
    <3>2. CASE k < m
      BY <2>1, <3>1, <3>2
    <3>3. CASE k = m
      <4>1. g[k] = G[<< f[m - 1], m >>]
        BY <3>3
      <4>2. g[k - 1] = f[m - 1]
        BY <3>1, <3>3
      <4> QED
        BY <4>1, <4>2, <3>3
    <3> QED
      BY <3>2, <3>3
  <2>7. Is(g, m)
    BY <2>4, <2>5, <2>6
  <2> HIDE DEF Is, g
  <2> QED
    BY <2>7
<1> HIDE DEF S
<1>3. n \in S
  BY <1>1, <1>2, UpTo
<1>4. PICK f : Is(f, n)
  BY <1>3 DEF S
<1> QED
  BY <1>4 DEF IsRun
-----------------------------------------------------------------------------
(* The state of doSubstitutions for words whose characters are in C. *)
Texts(C) == C \cup {"$", "\\"}

Infos == [begin : Nat, end : Nat, startField : {0}, endField : {0},
          applyFieldSplitting : BOOLEAN, splitAtEnd : BOOLEAN]

WordStates(C) == [text : Seq(Texts(C)), substs : Seq(Infos),
                  deleteIfEmpty : BOOLEAN, escaped : BOOLEAN, single : BOOLEAN,
                  double : BOOLEAN, noFieldSplit : BOOLEAN]

\* The elements of words without expansions that have several values.
NarrowElements(C) == {e \in WordElements(C) : Len(e.values) <= 1}

\* What the elements of these words are.
LEMMA ElementIs ==
  ASSUME NEW C, NEW e \in NarrowElements(C)
  PROVE  /\ e.char \in Texts(C)
         /\ e.values \in Seq(Seq(C))
         /\ Len(e.values) \in {0, 1}
         /\ e.kind \in {"char", "value", "at", "star"}
         /\ e.kind = "char" => e.values = << >>
         /\ e.kind = "value" => Len(e.values) = 1
         /\ e.kind # "char" => e.char = "$"
<1> DEFINE Goal == /\ e.char \in Texts(C)
                   /\ e.values \in Seq(Seq(C))
                   /\ Len(e.values) \in {0, 1}
                   /\ e.kind \in {"char", "value", "at", "star"}
                   /\ e.kind = "char" => e.values = << >>
                   /\ e.kind = "value" => Len(e.values) = 1
                   /\ e.kind # "char" => e.char = "$"
<1>1. ASSUME NEW c \in C, e = [char |-> c, kind |-> "char", values |-> << >>]
      PROVE  Goal
  BY <1>1 DEF Texts
<1>2. ASSUME NEW v \in Seq(C), e = [char |-> "$", kind |-> "value", values |-> <<v>>]
      PROVE  Goal
  <2>1. <<v>> \in Seq(Seq(C)) /\ Len(<<v>>) = 1
    OBVIOUS
  <2> QED
    BY <1>2, <2>1 DEF Texts
<1>3. ASSUME NEW k \in {"at", "star"}, NEW vs \in Seq(Seq(C)),
             e = [char |-> "$", kind |-> k, values |-> vs]
      PROVE  Goal
  <2>1. Len(vs) <= 1 /\ Len(vs) \in Nat
    BY <1>3 DEF NarrowElements
  <2>2. Len(vs) \in {0, 1}
    <3>1. \A n \in Nat : n <= 1 => n \in {0, 1}
      OBVIOUS
    <3> QED
      BY <2>1, <3>1
  <2> QED
    BY <1>3, <2>2 DEF Texts
<1>4. \/ \E c \in C : e = Element(c, "char", << >>)
      \/ \E v \in Seq(C) : e = Element("$", "value", <<v>>)
      \/ \E vs \in Seq(Seq(C)) : e = Element("$", "at", vs)
      \/ \E vs \in Seq(Seq(C)) : e = Element("$", "star", vs)
  BY Zenon DEF NarrowElements, WordElements
<1> HIDE DEF Goal
<1>5. Goal
  BY <1>1, <1>2, <1>3, <1>4, Zenon DEF Element
<1> QED
  BY <1>5 DEF Goal

\* u goes on as w.
KeepsQuotes(u, w) == /\ u.escaped = w.escaped
                     /\ u.single = w.single
                     /\ u.double = w.double
                     /\ u.noFieldSplit = w.noFieldSplit

\* u has one value more than w.
AddsValue(u, w, value) ==
    /\ u.text = w.text \o value
    /\ \E info \in Infos : /\ u.substs = Append(w.substs, info)
                           /\ info.begin = Len(w.text)
                           /\ info.end = Len(w.text) + Len(value)

\* substitute, for one value.
LEMMA SubstituteIs ==
  ASSUME NEW C, NEW w \in WordStates(C), NEW e, NEW values \in Seq(Seq(C)),
         Len(values) = 1, NEW u, u = Substitute(w, e, values)
  PROVE  /\ u \in WordStates(C)
         /\ AddsValue(u, w, values[1])
         /\ KeepsQuotes(u, w)
<1> DEFINE quoted == w.double
           splits == Len(values) > 1 /\ ((~quoted /\ ~w.noFieldSplit) \/ e.kind = "at")
           info == [begin |-> Len(w.text), end |-> Len(w.text) + Len(Head(values)),
                    startField |-> 0, endField |-> 0,
                    applyFieldSplitting |-> ~quoted, splitAtEnd |-> splits]
           text == w.text \o Head(values)
           substs == Append(w.substs, info)
<1>1. Head(values) = values[1] /\ values[1] \in Seq(C)
  <2>1. \A vs \in Seq(Seq(C)) : Len(vs) = 1 => /\ Head(vs) = vs[1]
                                               /\ vs[1] \in Seq(C)
    OBVIOUS
  <2> QED
    BY <2>1
<1>2. text \in Seq(Texts(C)) /\ w.text \in Seq(Texts(C)) /\ w.substs \in Seq(Infos)
  <2>1. w.text \in Seq(Texts(C)) /\ w.substs \in Seq(Infos)
    BY DEF WordStates
  <2>2. values[1] \in Seq(Texts(C))
    BY <1>1 DEF Texts
  <2> QED
    BY <1>1, <2>1, <2>2
<1>3. (~quoted) \in BOOLEAN /\ splits \in BOOLEAN
  OBVIOUS
<1>4. info \in Infos
  <2> HIDE DEF splits, quoted
  <2> QED
    BY <1>1, <1>2, <1>3 DEF Infos
<1>5. Substitute(w, e, values) = [[w EXCEPT !.text = text] EXCEPT !.substs = substs]
  <2>1. text \o << >> = text
    BY <1>2
  <2> QED
    BY <2>1 DEF Substitute
<1>6. substs \in Seq(Infos)
  BY <1>2, <1>4
<1> HIDE DEF text, substs, info
<1>7. [[w EXCEPT !.text = text] EXCEPT !.substs = substs] \in WordStates(C)
  BY <1>2, <1>6 DEF WordStates
<1>8. info.begin = Len(w.text) /\ info.end = Len(w.text) + Len(values[1])
  BY <1>1 DEF info
<1>9. \E i \in Infos :  /\ substs = Append(w.substs, i)
                   /\ i.begin = Len(w.text)
                   /\ i.end = Len(w.text) + Len(values[1])
  BY <1>4, <1>8 DEF substs
<1>10. text = w.text \o values[1]
  BY <1>1 DEF text
<1> QED
  BY <1>5, <1>7, <1>9, <1>10 DEF WordStates, AddsValue, KeepsQuotes

\* The loop of doDollarSubstitutions for at most one value.
LEMMA DollarLoop ==
  ASSUME NEW C, NEW w \in WordStates(C), NEW e \in NarrowElements(C)
  PROVE  LET u == IF e.values = << >> THEN w ELSE Substitute(w, e, e.values)
         IN  DoDollarSubstitution(w, e) =
               [u EXCEPT !.deleteIfEmpty = @ \/ (w.double /\ e.kind = "at")]
<1> DEFINE count == Len(e.values)
           Is(f) == f = [n \in 0..count |->
                           IF n = 0 THEN w
                           ELSE Substitute(f[n - 1], e, SubSeq(e.values, n, count))]
           after == CHOOSE f : Is(f)
           u == IF e.values = << >> THEN w ELSE Substitute(w, e, e.values)
           f0 == [n \in 0..count |-> IF n = 0 THEN w ELSE u]
<1>1. e.values \in Seq(Seq(C)) /\ count \in {0, 1}
  BY ElementIs
<1>2. count = 1 => /\ SubSeq(e.values, 1, count) = e.values
                   /\ e.values # << >>
  BY <1>1
<1>3. count = 0 => e.values = << >>
  BY <1>1
<1>4. DoDollarSubstitution(w, e) =
        [after[count] EXCEPT !.deleteIfEmpty = @ \/ (w.double /\ e.kind = "at")]
  BY DEF DoDollarSubstitution
<1> HIDE DEF count
<1>5. Is(f0)
  <2>1. ASSUME NEW n \in 0..count
        PROVE  f0[n] = IF n = 0 THEN w
                       ELSE Substitute(f0[n - 1], e, SubSeq(e.values, n, count))
    <3>1. CASE n = 0
      BY <3>1
    <3>2. CASE n # 0
      <4>1. n = 1 /\ count = 1 /\ n - 1 = 0
        BY <1>1, <3>2
      <4>2. f0[n - 1] = w
        BY <4>1
      <4>3. f0[n] = u
        BY <4>1
      <4> QED
        BY <4>1, <4>2, <4>3, <1>2
    <3> QED
      BY <3>1, <3>2
  <2> QED
    BY <2>1
<1> HIDE DEF Is
<1>6. Is(after)
  BY <1>5, Zenon
<1> HIDE DEF after
<1>7. after[count] = u
  <2>1. \A n \in 0..count : after[n] =
          IF n = 0 THEN w
          ELSE Substitute(after[n - 1], e, SubSeq(e.values, n, count))
    BY <1>6 DEF Is
  <2>2. after[0] = w
    BY <1>1, <2>1
  <2>3. CASE count = 0
    BY <2>2, <2>3, <1>3
  <2>4. CASE count = 1
    <3>1. after[1] = Substitute(after[0], e, SubSeq(e.values, 1, count))
      BY <2>1, <2>4
    <3> QED
      BY <3>1, <2>2, <2>4, <1>2
  <2> QED
    BY <1>1, <2>3, <2>4
<1> QED
  BY <1>4, <1>7

\* doDollarSubstitutions
LEMMA DollarIs ==
  ASSUME NEW C, NEW w \in WordStates(C), NEW e \in NarrowElements(C),
         NEW u, u = DoDollarSubstitution(w, e)
  PROVE  /\ u \in WordStates(C)
         /\ e.values = << >> => u.text = w.text /\ u.substs = w.substs
         /\ e.values # << >> => AddsValue(u, w, e.values[1])
         /\ KeepsQuotes(u, w)
<1> DEFINE v == IF e.values = << >> THEN w ELSE Substitute(w, e, e.values)
           d == v.deleteIfEmpty \/ (w.double /\ e.kind = "at")
<1>1. e.values \in Seq(Seq(C)) /\ (e.values # << >> => Len(e.values) = 1)
  BY ElementIs
<1>2. /\ v \in WordStates(C)
      /\ e.values = << >> => v.text = w.text /\ v.substs = w.substs
      /\ e.values # << >> => AddsValue(v, w, e.values[1])
      /\ KeepsQuotes(v, w)
  <2>1. CASE e.values = << >>
    BY <2>1 DEF KeepsQuotes
  <2>2. CASE e.values # << >>
    <3>1. v = Substitute(w, e, e.values)
      BY <2>2
    <3> HIDE DEF v
    <3> QED
      BY <1>1, <2>2, <3>1, SubstituteIs
  <2> QED
    BY <2>1, <2>2
<1>3. DoDollarSubstitution(w, e) = [v EXCEPT !.deleteIfEmpty = d]
  BY DollarLoop
<1>4. d \in BOOLEAN
  BY <1>2 DEF WordStates
<1> HIDE DEF v, d
<1>5. [v EXCEPT !.deleteIfEmpty = d] \in WordStates(C)
  BY <1>2, <1>4 DEF WordStates
<1>6. u.text = v.text /\ u.substs = v.substs /\ KeepsQuotes(u, v)
  BY <1>2, <1>3 DEF WordStates, KeepsQuotes
<1> QED
  BY <1>2, <1>3, <1>5, <1>6 DEF AddsValue, KeepsQuotes

\* The element stands for its character, which is "$" if it is an expansion.
IsLiteral(w, e) == e.kind = "char" \/ w.escaped \/ w.single

\* The character c is copied, and changes the quoting if it is a quote.
LiteralRound(u, w, c) ==
    /\ u.text = Append(w.text, c)
    /\ u.substs = w.substs
    /\ u.noFieldSplit = w.noFieldSplit
    /\ u.escaped <=> ~w.single /\ ~w.escaped /\ c = "\\"
    /\ u.single <=> IF c = "'" /\ ~w.escaped /\ ~w.double THEN ~w.single ELSE w.single
    /\ u.double <=> IF c = "\"" /\ ~w.escaped /\ ~w.single THEN ~w.double ELSE w.double

\* One round of the loop of doSubstitutions.
LEMMA RoundIs ==
  ASSUME NEW C, NEW w \in WordStates(C), NEW e \in NarrowElements(C),
         NEW u, u = DoSubstitution(w, e)
  PROVE  /\ u \in WordStates(C)
         /\ IsLiteral(w, e) => LiteralRound(u, w, e.char)
         /\ ~IsLiteral(w, e) => KeepsQuotes(u, w)
         /\ ~IsLiteral(w, e) /\ e.values = << >> =>
              u.text = w.text /\ u.substs = w.substs
         /\ ~IsLiteral(w, e) /\ e.values # << >> => AddsValue(u, w, e.values[1])
<1> DEFINE c == e.char
           escaped == IF ~w.single /\ c = "\\" THEN ~w.escaped ELSE FALSE
           single == IF c = "'" /\ ~w.escaped /\ ~w.double THEN ~w.single ELSE w.single
           double == IF c = "\"" /\ ~w.escaped /\ ~w.single THEN ~w.double ELSE w.double
           text == Append(w.text, c)
           literal == [[[[w EXCEPT !.escaped = escaped] EXCEPT !.single = single]
                         EXCEPT !.double = double] EXCEPT !.text = text]
<1>1. /\ w.escaped \in BOOLEAN /\ w.single \in BOOLEAN /\ w.double \in BOOLEAN
      /\ w.text \in Seq(Texts(C))
  BY DEF WordStates
<1>2. /\ escaped \in BOOLEAN /\ single \in BOOLEAN /\ double \in BOOLEAN
      /\ text \in Seq(Texts(C))
  <2>1. e.char \in Texts(C)
    BY ElementIs
  <2>2. text \in Seq(Texts(C))
    BY <1>1, <2>1
  <2> QED
    BY <1>1, <2>2
<1>3. u = IF ~IsLiteral(w, e) THEN DoDollarSubstitution(w, e) ELSE literal
  BY DEF DoSubstitution, IsLiteral
<1>4. CASE ~IsLiteral(w, e)
  <2>1. u = DoDollarSubstitution(w, e)
    BY <1>3, <1>4
  <2> QED
    BY <1>4, <2>1, DollarIs
<1>5. CASE IsLiteral(w, e)
  <2>1. /\ escaped <=> ~w.single /\ ~w.escaped /\ c = "\\"
        /\ single <=> IF c = "'" /\ ~w.escaped /\ ~w.double
                      THEN ~w.single ELSE w.single
        /\ double <=> IF c = "\"" /\ ~w.escaped /\ ~w.single
                      THEN ~w.double ELSE w.double
    BY <1>1
  <2> HIDE DEF escaped, single, double, text
  <2>2. u = literal
    BY <1>3, <1>5
  <2>3. literal \in WordStates(C)
    BY <1>2 DEF WordStates
  <2>4. /\ literal.text = text /\ literal.substs = w.substs
        /\ literal.escaped = escaped /\ literal.single = single
        /\ literal.double = double /\ literal.noFieldSplit = w.noFieldSplit
    BY DEF WordStates
  <2> HIDE DEF literal
  <2>5. /\ u \in WordStates(C)
        /\ u.text = Append(w.text, c)
        /\ u.substs = w.substs /\ u.noFieldSplit = w.noFieldSplit
        /\ u.escaped = escaped /\ u.single = single /\ u.double = double
    BY <2>2, <2>3, <2>4 DEF text
  <2> QED
    BY <1>5, <2>1, <2>5 DEF LiteralRound
<1> QED
  BY <1>4, <1>5

\* The state with which doSubstitutions begins.
StartOf(noFieldSplit) ==
    [text |-> << >>, substs |-> << >>, deleteIfEmpty |-> FALSE, escaped |-> FALSE,
     single |-> FALSE, double |-> FALSE, noFieldSplit |-> noFieldSplit]

\* The equation of Substituted.
LEMMA SubstitutedIs ==
  ASSUME NEW C, NEW word \in Seq(NarrowElements(C)), NEW noFieldSplit \in BOOLEAN,
         NEW after, after = Substituted(word, noFieldSplit)
  PROVE  /\ after \in [0..Len(word) -> WordStates(C)]
         /\ after[0] = StartOf(noFieldSplit)
         /\ \A k \in 1..Len(word) : after[k] = DoSubstitution(after[k - 1], word[k])
<1> DEFINE n == Len(word)
           start == StartOf(noFieldSplit)
           Is(f) == f = [k \in 0..n |-> IF k = 0 THEN start
                                        ELSE DoSubstitution(f[k - 1], word[k])]
           G == [x \in WordStates(C) \X (1..n) |-> DoSubstitution(x[1], word[x[2]])]
<1>1. n \in Nat
  OBVIOUS
<1>2. start \in WordStates(C)
  BY DEF StartOf, WordStates
<1>3. ASSUME NEW w \in WordStates(C), NEW k \in 1..n
      PROVE  DoSubstitution(w, word[k]) \in WordStates(C)
  <2>1. word[k] \in NarrowElements(C)
    OBVIOUS
  <2> QED
    BY <2>1, RoundIs
<1>4. G \in [WordStates(C) \X (1..n) -> WordStates(C)]
  BY <1>3
<1>5. \A w \in WordStates(C), k \in 1..n : G[<< w, k >>] = DoSubstitution(w, word[k])
  OBVIOUS
<1>6. after = CHOOSE f : Is(f)
  BY DEF Substituted, StartOf
<1> HIDE DEF n, start, G
<1>7. \E f : Is(f)
  <2> \E f : IsRun(f, n, WordStates(C), start, G)
    BY <1>1, <1>2, <1>4, Recursion
  <2> PICK f : IsRun(f, n, WordStates(C), start, G)
    OBVIOUS
  <2>1. /\ f \in [0..n -> WordStates(C)]
        /\ f[0] = start
        /\ \A k \in 1..n : f[k] = G[<< f[k - 1], k >>]
    BY DEF IsRun
  <2>2. ASSUME NEW k \in 0..n
        PROVE  f[k] = IF k = 0 THEN start ELSE DoSubstitution(f[k - 1], word[k])
    <3>1. CASE k = 0
      BY <2>1, <3>1
    <3>2. CASE k # 0
      <4>1. k \in 1..n /\ k - 1 \in 0..n
        BY <1>1, <3>2
      <4> QED
        BY <2>1, <4>1, <1>5, <3>2
    <3> QED
      BY <3>1, <3>2
  <2>3. Is(f)
    BY <2>1, <2>2
  <2> HIDE DEF Is
  <2> QED
    BY <2>3
<1>8. Is(after)
  <2> HIDE DEF Is
  <2> QED
    BY <1>6, <1>7, Zenon
<1>9. after[0] = start /\ \A k \in 1..n : after[k] = DoSubstitution(after[k - 1], word[k])
  <2>1. \A k \in 0..n : after[k] = IF k = 0 THEN start
                                   ELSE DoSubstitution(after[k - 1], word[k])
    BY <1>8
  <2>2. 0 \in 0..n /\ \A k \in 1..n : k \in 0..n /\ k # 0
    BY <1>1
  <2> QED
    BY <2>1, <2>2
<1>10. \A k \in 0..n : after[k] \in WordStates(C)
  <2> DEFINE S == {k \in 0..n : after[k] \in WordStates(C)}
  <2>1. 0 \in S
    BY <1>1, <1>2, <1>9
  <2>2. ASSUME NEW k \in 1..n, k - 1 \in S PROVE k \in S
    BY <2>2, <1>3, <1>9
  <2> HIDE DEF S
  <2>3. 0..n \subseteq S
    BY <1>1, <2>1, <2>2, UpTo
  <2> QED
    BY <2>3 DEF S
<1> QED
  BY <1>8, <1>9, <1>10 DEF n, start
-----------------------------------------------------------------------------
(* u has the text and the substitutions of w and some more behind them. *)
Extends(u, w) ==
    /\ Len(w.text) <= Len(u.text)
    /\ \A i \in 1..Len(w.text) : u.text[i] = w.text[i]
    /\ Len(w.substs) <= Len(u.substs)
    /\ \A x \in 1..Len(w.substs) : u.substs[x] = w.substs[x]
    /\ \A x \in 1..Len(u.substs) :
          x > Len(w.substs) => u.substs[x].begin >= Len(w.text)

\* The substitutions end in the text.
EndInText(w) == \A x \in 1..Len(w.substs) : w.substs[x].end <= Len(w.text)

\* The parts of a state.
LEMMA StateIs ==
  ASSUME NEW C, NEW w \in WordStates(C)
  PROVE  /\ w.text \in Seq(Texts(C)) /\ Len(w.text) \in Nat
         /\ w.substs \in Seq(Infos) /\ Len(w.substs) \in Nat
         /\ \A x \in 1..Len(w.substs) : /\ w.substs[x].begin \in Nat
                                        /\ w.substs[x].end \in Nat
<1>1. /\ w.text \in Seq(Texts(C)) /\ Len(w.text) \in Nat
      /\ w.substs \in Seq(Infos) /\ Len(w.substs) \in Nat
  BY DEF WordStates
<1>2. \A x \in 1..Len(w.substs) : w.substs[x] \in Infos
  BY <1>1
<1> QED
  BY <1>1, <1>2 DEF Infos

\* What two rounds leave as it was, they leave so together.
LEMMA ExtendsIsTransitive ==
  ASSUME NEW C, NEW a \in WordStates(C), NEW b \in WordStates(C),
         NEW c \in WordStates(C), Extends(c, b), Extends(b, a)
  PROVE  Extends(c, a)
<1>1. /\ Len(a.text) \in Nat /\ Len(b.text) \in Nat /\ Len(c.text) \in Nat
      /\ Len(a.substs) \in Nat /\ Len(b.substs) \in Nat /\ Len(c.substs) \in Nat
  BY DEF WordStates
<1>2. \A x \in 1..Len(c.substs) : c.substs[x].begin \in Nat
  BY StateIs
<1>3. /\ Len(a.text) <= Len(b.text) /\ Len(b.text) <= Len(c.text)
      /\ Len(a.substs) <= Len(b.substs) /\ Len(b.substs) <= Len(c.substs)
  BY DEF Extends
<1>4. ASSUME NEW x \in 1..Len(c.substs), x > Len(a.substs)
      PROVE  c.substs[x].begin >= Len(a.text)
  <2>1. CASE x > Len(b.substs)
    <3>1. c.substs[x].begin >= Len(b.text)
      BY <2>1 DEF Extends
    <3> QED
      BY <3>1, <1>1, <1>2, <1>3
  <2>2. CASE x \in 1..Len(b.substs)
    <3>1. c.substs[x] = b.substs[x] /\ b.substs[x].begin >= Len(a.text)
      BY <2>2, <1>4 DEF Extends
    <3> QED
      BY <3>1
  <2> QED
    BY <2>1, <2>2, <1>1
<1>5. \A i \in 1..Len(a.text) : c.text[i] = a.text[i]
  <2>1. \A i \in 1..Len(a.text) : i \in 1..Len(b.text)
    BY <1>1, <1>3
  <2> QED
    BY <2>1 DEF Extends
<1>6. \A x \in 1..Len(a.substs) : c.substs[x] = a.substs[x]
  <2>1. \A x \in 1..Len(a.substs) : x \in 1..Len(b.substs)
    BY <1>1, <1>3
  <2> QED
    BY <2>1 DEF Extends
<1> QED
  BY <1>1, <1>3, <1>4, <1>5, <1>6 DEF Extends

\* A value behind the text, for all that is said about it here.
LEMMA ValueIs ==
  ASSUME NEW C, NEW w \in WordStates(C), NEW value \in Seq(C),
         NEW u \in WordStates(C), AddsValue(u, w, value)
  PROVE  /\ Len(u.text) = Len(w.text) + Len(value)
         /\ \A i \in 1..Len(w.text) : u.text[i] = w.text[i]
         /\ \A j \in 1..Len(value) : u.text[Len(w.text) + j] = value[j]
         /\ Len(u.substs) = Len(w.substs) + 1
         /\ \A x \in 1..Len(w.substs) : u.substs[x] = w.substs[x]
         /\ u.substs[Len(u.substs)].begin = Len(w.text)
         /\ u.substs[Len(u.substs)].end = Len(u.text)
<1>1. w.text \in Seq(Texts(C)) /\ w.substs \in Seq(Infos) /\ value \in Seq(Texts(C))
  BY DEF WordStates, Texts
<1>2. u.text = w.text \o value
  BY DEF AddsValue
<1>3. /\ Len(u.text) = Len(w.text) + Len(value)
      /\ \A i \in 1..Len(w.text) : u.text[i] = w.text[i]
      /\ \A j \in 1..Len(value) : u.text[Len(w.text) + j] = value[j]
  BY <1>1, <1>2
<1>4. PICK info \in Infos : /\ u.substs = Append(w.substs, info)
                            /\ info.begin = Len(w.text)
                            /\ info.end = Len(w.text) + Len(value)
  BY DEF AddsValue
<1>5. /\ Len(u.substs) = Len(w.substs) + 1
      /\ \A x \in 1..Len(w.substs) : u.substs[x] = w.substs[x]
      /\ u.substs[Len(u.substs)] = info
  BY <1>1, <1>4
<1> QED
  BY <1>3, <1>4, <1>5

\* A round only appends to the text and the substitutions.
LEMMA RoundExtends ==
  ASSUME NEW C, NEW w \in WordStates(C), NEW e \in NarrowElements(C),
         NEW u, u = DoSubstitution(w, e)
  PROVE  Extends(u, w) /\ (EndInText(w) => EndInText(u))
<1>1. /\ w.text \in Seq(Texts(C)) /\ w.substs \in Seq(Infos)
      /\ Len(w.text) \in Nat /\ Len(w.substs) \in Nat
      /\ \A x \in 1..Len(w.substs) : w.substs[x].end \in Nat
  BY StateIs
<1>2. u \in WordStates(C)
  BY RoundIs
<1>3. CASE IsLiteral(w, e)
  <2>1. u.text = Append(w.text, e.char) /\ u.substs = w.substs
    <3>1. LiteralRound(u, w, e.char)
      BY <1>3, RoundIs
    <3> QED
      BY <3>1 DEF LiteralRound
  <2>2. Len(u.text) = Len(w.text) + 1
        /\ \A i \in 1..Len(w.text) : u.text[i] = w.text[i]
    BY <1>1, <2>1
  <2>3. Extends(u, w)
    BY <1>1, <2>1, <2>2 DEF Extends
  <2>4. EndInText(w) => EndInText(u)
    BY <1>1, <2>1, <2>2 DEF EndInText
  <2> QED
    BY <2>3, <2>4
<1>4. CASE ~IsLiteral(w, e) /\ e.values = << >>
  <2>1. u.text = w.text /\ u.substs = w.substs
    BY <1>4, RoundIs
  <2> QED
    BY <1>1, <2>1 DEF Extends, EndInText
<1>5. CASE ~IsLiteral(w, e) /\ e.values # << >>
  <2> DEFINE value == e.values[1]
  <2>1. value \in Seq(C)
    BY <1>5, ElementIs
  <2>2. AddsValue(u, w, value)
    BY <1>5, RoundIs
  <2> HIDE DEF value
  <2>3. /\ Len(u.text) = Len(w.text) + Len(value)
        /\ \A i \in 1..Len(w.text) : u.text[i] = w.text[i]
        /\ Len(u.substs) = Len(w.substs) + 1
        /\ \A x \in 1..Len(w.substs) : u.substs[x] = w.substs[x]
        /\ u.substs[Len(u.substs)].begin = Len(w.text)
        /\ u.substs[Len(u.substs)].end = Len(u.text)
    BY <1>2, <2>1, <2>2, ValueIs, SMTT(20)
  <2>4. Len(value) \in Nat
    BY <2>1
  <2>5. \A x \in 1..Len(u.substs) : x \in 1..Len(w.substs) \/ x = Len(u.substs)
    BY <1>1, <2>3
  <2>6. Extends(u, w)
    BY <1>1, <2>3, <2>4, <2>5, SMTT(20) DEF Extends
  <2>7. ASSUME EndInText(w) PROVE EndInText(u)
    <3>1. ASSUME NEW x \in 1..Len(u.substs)
          PROVE  u.substs[x].end <= Len(u.text)
      <4>1. CASE x = Len(u.substs)
        <5>1. u.substs[x].end = Len(u.text) /\ Len(u.text) \in Nat
          BY <1>1, <2>3, <2>4, <4>1
        <5> QED
          BY <5>1
      <4>2. CASE x \in 1..Len(w.substs)
        <5>1. w.substs[x].end <= Len(w.text) /\ w.substs[x].end \in Nat
          BY <1>1, <2>7, <4>2 DEF EndInText
        <5>2. u.substs[x] = w.substs[x]
          BY <2>3, <4>2
        <5>3. Len(u.text) = Len(w.text) + Len(value)
          BY <2>3
        <5> HIDE DEF EndInText
        <5> QED
          BY <1>1, <2>4, <5>1, <5>2, <5>3
      <4> QED
        BY <2>5, <4>1, <4>2
    <3> QED
      BY <3>1 DEF EndInText
  <2> QED
    BY <2>6, <2>7
<1> QED
  BY <1>3, <1>4, <1>5

\* Each state of the loop is found again in the last one.
LEMMA LastExtends ==
  ASSUME NEW C, NEW word \in Seq(NarrowElements(C)), NEW noFieldSplit \in BOOLEAN,
         NEW U, U = Substituted(word, noFieldSplit)
  PROVE  \A k \in 0..Len(word) : Extends(U[Len(word)], U[k]) /\ EndInText(U[k])
<1> DEFINE n == Len(word)
           S == {k \in 0..n : EndInText(U[k])}
           E == {d \in 0..n : Extends(U[n], U[n - d])}
<1>1. n \in Nat /\ \A k \in 1..n : k - 1 \in 0..n /\ k \in 0..n
  OBVIOUS
<1>2. /\ \A k \in 0..n : U[k] \in WordStates(C)
      /\ U[0] = StartOf(noFieldSplit)
      /\ \A k \in 1..n : U[k] = DoSubstitution(U[k - 1], word[k])
  BY SubstitutedIs
<1>3. \A k \in 1..n : word[k] \in NarrowElements(C)
  OBVIOUS
<1> HIDE DEF n
<1>4. ASSUME NEW k \in 1..n
      PROVE  Extends(U[k], U[k - 1]) /\ (EndInText(U[k - 1]) => EndInText(U[k]))
  BY <1>1, <1>2, <1>3, RoundExtends
<1>5. 0..n \subseteq S
  <2>1. 0 \in S
    BY <1>1, <1>2 DEF EndInText, StartOf
  <2>2. ASSUME NEW k \in 1..n, k - 1 \in S PROVE k \in S
    BY <1>1, <1>4, <2>2
  <2> HIDE DEF S
  <2> QED
    BY <1>1, <2>1, <2>2, UpTo
<1>6. 0..n \subseteq E
  <2>1. 0 \in E
    <3>1. Extends(U[n], U[n])
      <4>1. U[n] \in WordStates(C)
        BY <1>1, <1>2
      <4>2. Len(U[n].text) \in Nat /\ Len(U[n].substs) \in Nat
        BY <4>1, StateIs
      <4> QED
        BY <4>2 DEF Extends
    <3>2. n - 0 = n /\ 0 \in 0..n
      BY <1>1
    <3> QED
      BY <3>1, <3>2
  <2>2. ASSUME NEW d \in 1..n, d - 1 \in E PROVE d \in E
    <3> DEFINE k == n - d + 1
    <3>1. k \in 1..n /\ n - (d - 1) = k /\ k - 1 = n - d /\ d \in 0..n
          /\ k \in 0..n /\ n - d \in 0..n /\ n \in 0..n
      BY <1>1
    <3>2. Extends(U[n], U[k])
      BY <2>2, <3>1
    <3>3. Extends(U[k], U[n - d])
      BY <1>4, <3>1
    <3> HIDE DEF k
    <3>4. Extends(U[n], U[n - d])
      <4>1. /\ U[n] \in WordStates(C) /\ U[k] \in WordStates(C)
            /\ U[n - d] \in WordStates(C)
        BY <1>2, <3>1
      <4> QED
        BY <4>1, <3>2, <3>3, ExtendsIsTransitive
    <3> QED
      BY <3>1, <3>4
  <2> HIDE DEF E
  <2> QED
    BY <1>1, <2>1, <2>2, UpTo
<1>7. ASSUME NEW k \in 0..n PROVE Extends(U[n], U[k]) /\ EndInText(U[k])
  <2>1. n - k \in 0..n /\ n - (n - k) = k
    BY <1>1
  <2>2. n - k \in E /\ k \in S
    BY <1>5, <1>6, <2>1
  <2> QED
    BY <2>1, <2>2
<1> QED
  BY <1>7 DEF n

\* The character i, from 0, comes from an expansion.
Inside(substs, i) ==
    \E x \in 1..Len(substs) : substs[x].begin <= i /\ i < substs[x].end

\* Where the round for e has left its characters in the whole text.
RoundAdds(u, w, e, text, substs) ==
    LET m == Len(w.text)
    IN  /\ IsLiteral(w, e) =>
             /\ Len(u.text) = m + 1
             /\ m + 1 \in 1..Len(text)
             /\ text[m + 1] = e.char
             /\ ~Inside(substs, m)
        /\ ~IsLiteral(w, e) /\ e.values = << >> => Len(u.text) = m
        /\ ~IsLiteral(w, e) /\ e.values # << >> =>
             /\ Len(u.text) = m + Len(e.values[1])
             /\ Len(u.text) <= Len(text)
             /\ \A j \in 1..Len(e.values[1]) :
                   /\ text[m + j] = e.values[1][j]
                   /\ Inside(substs, m + j - 1)

\* What a round adds is found in a text that is only extended afterwards.
LEMMA RoundKept ==
  ASSUME NEW C, NEW w \in WordStates(C), NEW u \in WordStates(C),
         NEW end \in WordStates(C), NEW e \in NarrowElements(C),
         u = DoSubstitution(w, e), Extends(end, u), EndInText(w)
  PROVE  RoundAdds(u, w, e, end.text, end.substs)
<1> PICK m : m = Len(w.text)
  OBVIOUS
<1>1. /\ w.text \in Seq(Texts(C)) /\ m \in Nat /\ Len(w.substs) \in Nat
      /\ \A x \in 1..Len(w.substs) : w.substs[x].end \in Nat
  BY StateIs
<1>2. /\ Len(end.text) \in Nat /\ Len(end.substs) \in Nat
      /\ \A x \in 1..Len(end.substs) : /\ end.substs[x].begin \in Nat
                                       /\ end.substs[x].end \in Nat
  BY StateIs
<1>3. /\ Len(u.text) <= Len(end.text)
      /\ \A i \in 1..Len(u.text) : end.text[i] = u.text[i]
      /\ Len(u.substs) <= Len(end.substs)
      /\ \A x \in 1..Len(u.substs) : end.substs[x] = u.substs[x]
      /\ \A x \in 1..Len(end.substs) :
            x > Len(u.substs) => end.substs[x].begin >= Len(u.text)
  BY DEF Extends
<1>4. ASSUME IsLiteral(w, e)
      PROVE  /\ Len(u.text) = m + 1
             /\ m + 1 \in 1..Len(end.text)
             /\ end.text[m + 1] = e.char
             /\ ~Inside(end.substs, m)
  <2>1. LiteralRound(u, w, e.char)
    BY <1>4, RoundIs
  <2>2. u.text = Append(w.text, e.char) /\ u.substs = w.substs
    BY <2>1 DEF LiteralRound
  <2>3. Len(u.text) = m + 1 /\ u.text[m + 1] = e.char
    BY <1>1, <2>2
  <2>4. m + 1 \in 1..Len(u.text) /\ m + 1 \in 1..Len(end.text)
    BY <1>1, <1>2, <1>3, <2>3
  <2>5. end.text[m + 1] = e.char
    BY <1>3, <2>3, <2>4
  <2>6. ASSUME NEW x \in 1..Len(end.substs), end.substs[x].begin <= m,
               m < end.substs[x].end
        PROVE  FALSE
    <3>1. CASE x > Len(u.substs)
      <4>1. end.substs[x].begin >= m + 1 /\ end.substs[x].begin \in Nat
        BY <1>2, <1>3, <2>3, <3>1
      <4> QED
        BY <1>1, <2>6, <4>1
    <3>2. CASE x \in 1..Len(w.substs)
      <4>1. end.substs[x] = w.substs[x]
        BY <1>3, <2>2, <3>2
      <4>2. w.substs[x].end <= m /\ w.substs[x].end \in Nat
        BY <1>1, <3>2 DEF EndInText
      <4> QED
        BY <1>1, <2>6, <4>1, <4>2
    <3> QED
      BY <1>1, <2>2, <3>1, <3>2
  <2> QED
    BY <2>3, <2>4, <2>5, <2>6 DEF Inside
<1>5. ASSUME ~IsLiteral(w, e), e.values = << >> PROVE Len(u.text) = m
  BY <1>5, RoundIs
<1>6. ASSUME ~IsLiteral(w, e), e.values # << >>
      PROVE  /\ Len(u.text) = m + Len(e.values[1])
             /\ Len(u.text) <= Len(end.text)
             /\ \A j \in 1..Len(e.values[1]) :
                   /\ end.text[m + j] = e.values[1][j]
                   /\ Inside(end.substs, m + j - 1)
  <2> DEFINE value == e.values[1]
             x == Len(u.substs)
  <2>1. value \in Seq(C) /\ Len(value) \in Nat
    BY <1>6, ElementIs
  <2>2. AddsValue(u, w, value)
    BY <1>6, RoundIs
  <2> HIDE DEF value
  <2>3. /\ Len(u.text) = m + Len(value)
        /\ \A j \in 1..Len(value) : u.text[m + j] = value[j]
        /\ Len(u.substs) = Len(w.substs) + 1
        /\ u.substs[x].begin = m
        /\ u.substs[x].end = Len(u.text)
    BY <2>1, <2>2, ValueIs, SMTT(20)
  <2>4. x \in 1..Len(u.substs) /\ x \in 1..Len(end.substs)
    BY <1>1, <1>2, <1>3, <2>3
  <2>5. end.substs[x].begin = m /\ end.substs[x].end = m + Len(value)
    BY <1>3, <2>3, <2>4
  <2> HIDE DEF x
  <2>6. ASSUME NEW j \in 1..Len(value)
        PROVE  end.text[m + j] = value[j] /\ Inside(end.substs, m + j - 1)
    <3>1. m + j \in 1..Len(u.text) /\ m <= m + j - 1 /\ m + j - 1 < m + Len(value)
      BY <1>1, <2>1, <2>3
    <3>2. end.text[m + j] = value[j]
      BY <1>3, <2>3, <3>1
    <3>3. end.substs[x].begin <= m + j - 1 /\ m + j - 1 < end.substs[x].end
      BY <2>5, <3>1
    <3> QED
      BY <2>4, <3>2, <3>3 DEF Inside
  <2> QED
    BY <1>3, <2>3, <2>6 DEF value
<1> QED
  BY <1>4, <1>5, <1>6 DEF RoundAdds

\* What each round adds, in the text and the substitutions of the whole word.
LEMMA RoundInText ==
  ASSUME NEW C, NEW word \in Seq(NarrowElements(C)), NEW noFieldSplit \in BOOLEAN,
         NEW U, U = Substituted(word, noFieldSplit), NEW k \in 1..Len(word),
         NEW w, w = U[k - 1], NEW u, u = U[k], NEW end, end = U[Len(word)],
         NEW e, e = word[k]
  PROVE  RoundAdds(u, w, e, end.text, end.substs)
<1>1. k - 1 \in 0..Len(word) /\ k \in 0..Len(word) /\ Len(word) \in 0..Len(word)
      /\ e \in NarrowElements(C)
  OBVIOUS
<1>2. /\ w \in WordStates(C) /\ u \in WordStates(C) /\ end \in WordStates(C)
      /\ u = DoSubstitution(w, e)
  BY <1>1, SubstitutedIs
<1>3. Extends(end, u) /\ EndInText(w)
  BY <1>1, LastExtends
<1> QED
  BY <1>1, <1>2, <1>3, RoundKept
-----------------------------------------------------------------------------
(* The characters of a pattern, as nextChar returns them. *)
PatternChars(C) == [char : Texts(C), literal : BOOLEAN]

\* The state of nextChar.
ScanStates(C, substs) ==
    [k : 1..(Len(substs) + 1), subst : 1..(Len(substs) + 1),
     chars : Seq(PatternChars(C)), single : BOOLEAN, double : BOOLEAN,
     escaped : BOOLEAN]

\* One substitution is left behind only when the text behind it is read.
Searched(r, substs, i) ==
    Len(substs) <= 1 => \/ r.subst = 1
                        \/ \A x \in 1..Len(substs) : substs[x].end <= i

\* The substitution that nextChar finds for a character.
SubstAt(r, substs, i) ==
    IF r.subst > Len(substs) \/ EndsBehind(substs[r.subst], 0, i) THEN r.subst
    ELSE NextSubstitution(substs, r.k + 1, 0, i)

\* What the search finds: a substitution behind the character, or none.
LEMMA NextSubstitutionIs ==
  ASSUME NEW substs \in Seq(Infos), NEW i \in Nat, NEW k \in 1..(Len(substs) + 2)
  PROVE  LET x == NextSubstitution(substs, k, 0, i)
         IN  /\ x \in 1..(Len(substs) + 1)
             /\ x <= Len(substs) => EndsBehind(substs[x], 0, i)
<1> DEFINE S == {Len(substs) + 1} \cup
                {m \in k..Len(substs) : EndsBehind(substs[m], 0, i)}
<1>1. Len(substs) \in Nat
  OBVIOUS
<1>2. S \subseteq Nat /\ S # {}
  BY <1>1
<1> HIDE DEF S
<1>3. Least(S) \in S
  BY <1>2, LeastIs
<1>4. NextSubstitution(substs, k, 0, i) = Least(S)
  BY DEF NextSubstitution, S
<1>5. \A x \in S : x \in 1..(Len(substs) + 1) /\
                   (x <= Len(substs) => EndsBehind(substs[x], 0, i))
  BY <1>1 DEF S
<1> QED
  BY <1>3, <1>4, <1>5

\* What it finds is there, and a single substitution is found.
LEMMA SubstAtIs ==
  ASSUME NEW C, NEW substs \in Seq(Infos), NEW r \in ScanStates(C, substs),
         NEW i \in Nat, NEW x, x = SubstAt(r, substs, i)
  PROVE  /\ x \in 1..(Len(substs) + 1)
         /\ InSubstitution(substs, x, 0, i) => Inside(substs, i)
         /\ Searched(r, substs, i) /\ Len(substs) <= 1 /\ Inside(substs, i) =>
               InSubstitution(substs, x, 0, i)
         /\ Searched(r, substs, i) /\ Len(substs) <= 1 =>
               x = 1 \/ \A y \in 1..Len(substs) : substs[y].end <= i
<1>1. /\ Len(substs) \in Nat /\ r.k \in 1..(Len(substs) + 1)
      /\ r.subst \in 1..(Len(substs) + 1)
  BY DEF ScanStates
<1>2. \A y \in 1..Len(substs) :
         /\ substs[y].begin \in Nat /\ substs[y].end \in Nat
         /\ substs[y].startField = 0 /\ substs[y].endField = 0
  <2>1. \A y \in 1..Len(substs) : substs[y] \in Infos
    OBVIOUS
  <2> QED
    BY <2>1 DEF Infos
<1>3. \A y \in 1..Len(substs) :
         /\ EndsBehind(substs[y], 0, i) <=> i < substs[y].end
         /\ BeginsBefore(substs[y], 0, i) <=> substs[y].begin <= i
  BY <1>2 DEF EndsBehind, BeginsBefore
<1>4. x \in 1..(Len(substs) + 1) /\ (x <= Len(substs) => EndsBehind(substs[x], 0, i))
  <2>1. CASE r.subst > Len(substs) \/ EndsBehind(substs[r.subst], 0, i)
    BY <1>1, <2>1 DEF SubstAt
  <2>2. CASE ~ (r.subst > Len(substs) \/ EndsBehind(substs[r.subst], 0, i))
    <3>1. x = NextSubstitution(substs, r.k + 1, 0, i)
      BY <2>2 DEF SubstAt
    <3>2. r.k + 1 \in 1..(Len(substs) + 2)
      BY <1>1
    <3> QED
      BY <3>1, <3>2, NextSubstitutionIs
  <2> QED
    BY <2>1, <2>2
<1>5. InSubstitution(substs, x, 0, i) => Inside(substs, i)
  <2> SUFFICES ASSUME InSubstitution(substs, x, 0, i) PROVE Inside(substs, i)
    OBVIOUS
  <2>1. x \in 1..Len(substs) /\ BeginsBefore(substs[x], 0, i)
    BY <1>1, <1>4 DEF InSubstitution
  <2> QED
    BY <1>3, <1>4, <2>1 DEF Inside
<1>6. Searched(r, substs, i) /\ Len(substs) <= 1 =>
        x = 1 \/ \A y \in 1..Len(substs) : substs[y].end <= i
  <2> SUFFICES ASSUME Searched(r, substs, i), Len(substs) <= 1,
                      ~ \A y \in 1..Len(substs) : substs[y].end <= i
               PROVE  x = 1
    OBVIOUS
  <2>1. r.subst = 1
    BY DEF Searched
  <2>2. PICK y \in 1..Len(substs) : ~ (substs[y].end <= i)
    OBVIOUS
  <2>3. y = 1 /\ r.subst = y /\ i < substs[y].end
    BY <1>1, <1>2, <2>1, <2>2
  <2>4. EndsBehind(substs[r.subst], 0, i)
    BY <1>3, <2>3
  <2> QED
    BY <2>1, <2>4 DEF SubstAt
<1>7. Searched(r, substs, i) /\ Len(substs) <= 1 /\ Inside(substs, i) =>
        InSubstitution(substs, x, 0, i)
  <2> SUFFICES ASSUME Searched(r, substs, i), Len(substs) <= 1, Inside(substs, i)
               PROVE  InSubstitution(substs, x, 0, i)
    OBVIOUS
  <2>1. PICK y \in 1..Len(substs) : substs[y].begin <= i /\ i < substs[y].end
    BY DEF Inside
  <2>2. ~ (substs[y].end <= i) /\ y = 1
    BY <1>1, <1>2, <2>1
  <2>3. x = y
    BY <1>6, <2>2
  <2> QED
    BY <1>3, <2>1, <2>3 DEF InSubstitution
<1> QED
  BY <1>4, <1>5, <1>6, <1>7

\* s goes on behind the character c, which belongs to the pattern.
KeepsChar(s, r, c) ==
    /\ \E literal \in BOOLEAN :
          /\ s.chars = Append(r.chars, [char |-> c, literal |-> literal])
          /\ literal <=> r.single \/ r.double \/ r.escaped
    /\ s.single = r.single
    /\ s.double = r.double
    /\ s.escaped = FALSE

\* The characters that quote.
Quotes == {"'", "\"", "\\"}

\* The backslash quotes the next character.
Escapes(r, next) == ~r.single /\ (r.double => IsSpecialInDoubleQuotes(next))

\* s goes on behind a character that nothing quotes.
ReadsQuote(s, r, c, next) ==
    /\ s.chars = r.chars
    /\ s.escaped <=> c = "\\"
    /\ s.single <=> IF c = "'" THEN ~r.single ELSE r.single
    /\ s.double <=> IF c = "\"" THEN ~r.double ELSE r.double

\* c is a quote in this place.
IsQuote(r, c, next) == \/ c = "'" /\ ~r.double
                       \/ c = "\"" /\ ~r.single
                       \/ c = "\\" /\ Escapes(r, next)

\* The character is read as it is meant.
IsKnown(r, substs, i, c) ==
    /\ Searched(r, substs, i)
    /\ Inside(substs, i) => Len(substs) <= 1 \/ c \notin Quotes

\* nextChar
LEMMA NextCharIs ==
  ASSUME NEW C, NEW text \in Seq(Texts(C)), NEW substs \in Seq(Infos),
         NEW r \in ScanStates(C, substs), NEW i \in 0..(Len(text) - 1),
         NEW s, s = NextChar(r, text, i, 0, substs),
         NEW c, c = text[i + 1], NEW next, next = At(text, i + 1)
  PROVE  /\ s \in ScanStates(C, substs)
         /\ IsKnown(r, substs, i, c) => Searched(s, substs, i + 1)
         /\ /\ IsKnown(r, substs, i, c)
            /\ r.escaped \/ Inside(substs, i) \/ ~IsQuote(r, c, next)
            => KeepsChar(s, r, c)
         /\ /\ IsKnown(r, substs, i, c)
            /\ ~r.escaped /\ ~Inside(substs, i) /\ IsQuote(r, c, next)
            => ReadsQuote(s, r, c, next)
<1> DEFINE x == SubstAt(r, substs, i)
           stays == r.subst > Len(substs) \/ EndsBehind(substs[r.subst], 0, i)
           further == NextSubstitution(substs, r.k + 1, 0, i)
           t == IF stays THEN r ELSE [r EXCEPT !.k = further, !.subst = further]
           literal == r.single \/ r.double \/ r.escaped
           keep == [t EXCEPT !.chars = Append(@, [char |-> c, literal |-> literal]),
                             !.escaped = FALSE, !.subst = 1]
           found == InSubstitution(substs, x, 0, i)
           known == IsKnown(r, substs, i, c)
<1>1. /\ Len(substs) \in Nat /\ i \in Nat /\ c \in Texts(C) /\ At(text, i) = c
      /\ Len(text) \in Nat
  BY DEF At
<1>2. /\ r.k \in 1..(Len(substs) + 1) /\ r.subst \in 1..(Len(substs) + 1)
      /\ r.chars \in Seq(PatternChars(C))
      /\ r.single \in BOOLEAN /\ r.double \in BOOLEAN /\ r.escaped \in BOOLEAN
  BY DEF ScanStates
<1>3. further \in 1..(Len(substs) + 1)
  <2>1. r.k + 1 \in 1..(Len(substs) + 2)
    BY <1>1, <1>2
  <2> QED
    BY <1>1, <2>1, NextSubstitutionIs
<1>4. /\ t \in ScanStates(C, substs) /\ t.subst = x /\ t.chars = r.chars
      /\ t.single = r.single /\ t.double = r.double /\ t.escaped = r.escaped
  <2> HIDE DEF further
  <2>1. CASE stays
    BY <2>1 DEF SubstAt
  <2>2. CASE ~stays
    <3>1. t = [r EXCEPT !.k = further, !.subst = further]
      BY <2>2
    <3>2. x = further
      BY <2>2 DEF SubstAt, further
    <3> HIDE DEF x, t
    <3> QED
      BY <3>1, <3>2, <1>3 DEF ScanStates
  <2> QED
    BY <2>1, <2>2
<1>5. /\ found => Inside(substs, i)
      /\ known /\ Len(substs) <= 1 /\ Inside(substs, i) => found
      /\ known /\ Len(substs) <= 1 =>
            x = 1 \/ \A y \in 1..Len(substs) : substs[y].end <= i
  BY <1>1, SubstAtIs DEF IsKnown
<1>6. s = IF r.escaped \/ found THEN keep
          ELSE CASE c = "'" /\ ~r.double -> [t EXCEPT !.single = ~@]
                 [] c = "\"" /\ ~r.single -> [t EXCEPT !.double = ~@]
                 [] c = "\\" /\ ~r.single /\ (r.double => IsSpecialInDoubleQuotes(next)) ->
                      [t EXCEPT !.escaped = TRUE]
                 [] OTHER -> keep
  <2> HIDE DEF further
  <2>1. t.subst = x
    BY <1>4
  <2> HIDE DEF x
  <2> QED
    BY <1>1, <2>1 DEF NextChar, further
<1>7. /\ keep \in ScanStates(C, substs) /\ keep.subst = 1
      /\ KeepsChar(keep, r, c)
  <2> DEFINE chars == Append(r.chars, [char |-> c, literal |-> literal])
  <2>1. literal \in BOOLEAN
    BY <1>2
  <2>2. [char |-> c, literal |-> literal] \in PatternChars(C)
    <3> HIDE DEF literal
    <3> QED
      BY <1>1, <2>1 DEF PatternChars
  <2>3. chars \in Seq(PatternChars(C))
    BY <1>2, <2>2
  <2>4. keep = [[[t EXCEPT !.chars = chars] EXCEPT !.escaped = FALSE] EXCEPT !.subst = 1]
    BY <1>4
  <2>5. \E l \in BOOLEAN : /\ chars = Append(r.chars, [char |-> c, literal |-> l])
                           /\ l <=> r.single \/ r.double \/ r.escaped
    BY <2>1
  <2>6. 1 \in 1..(Len(substs) + 1)
    BY <1>1
  <2> HIDE DEF chars, t, keep
  <2>7. /\ keep \in ScanStates(C, substs) /\ keep.subst = 1
        /\ keep.chars = chars /\ keep.escaped = FALSE
        /\ keep.single = t.single /\ keep.double = t.double
    BY <1>4, <2>3, <2>4, <2>6 DEF ScanStates
  <2> QED
    BY <1>4, <2>5, <2>7 DEF KeepsChar
<1> HIDE DEF x, t, keep, found
<1>8. Searched(keep, substs, i + 1)
  BY <1>7 DEF Searched
<1>9. ASSUME NEW a, a.subst = x, known PROVE Searched(a, substs, i + 1)
  <2>1. \A y \in 1..Len(substs) : substs[y].end \in Nat
    <3>1. \A y \in 1..Len(substs) : substs[y] \in Infos
      OBVIOUS
    <3> QED
      BY <3>1 DEF Infos
  <2> QED
    BY <1>1, <1>5, <1>9, <2>1 DEF Searched
<1>10. CASE r.escaped \/ found
  <2>1. s = keep
    BY <1>6, <1>10
  <2>2. r.escaped \/ Inside(substs, i)
    BY <1>5, <1>10
  <2> QED
    BY <1>7, <1>8, <2>1, <2>2
<1>11. ASSUME ~found, c \in Quotes, known PROVE ~Inside(substs, i)
  BY <1>5, <1>11 DEF IsKnown
<1>12. CASE ~r.escaped /\ ~found /\ c = "'" /\ ~r.double
  <2> DEFINE single == ~r.single
  <2>1. s = [t EXCEPT !.single = single]
    BY <1>4, <1>6, <1>12
  <2>2. single \in BOOLEAN
    OBVIOUS
  <2>3. c # "\\" /\ c # "\"" /\ IsQuote(r, c, next) /\ (known => ~Inside(substs, i))
    BY <1>11, <1>12 DEF IsQuote, Quotes
  <2> HIDE DEF single
  <2>4. /\ s \in ScanStates(C, substs) /\ s.subst = x /\ s.chars = r.chars
        /\ s.single = single /\ s.double = r.double /\ s.escaped = r.escaped
    BY <1>4, <2>1, <2>2 DEF ScanStates
  <2>5. ReadsQuote(s, r, c, next)
    BY <1>12, <2>3, <2>4 DEF ReadsQuote, single
  <2> QED
    BY <1>9, <1>12, <2>3, <2>4, <2>5
<1>13. CASE ~r.escaped /\ ~found /\ c = "\"" /\ ~r.single
  <2> DEFINE double == ~r.double
  <2>1. s = [t EXCEPT !.double = double]
    BY <1>4, <1>6, <1>13
  <2>2. double \in BOOLEAN
    OBVIOUS
  <2>3. c # "\\" /\ c # "'" /\ IsQuote(r, c, next) /\ (known => ~Inside(substs, i))
    BY <1>11, <1>13 DEF IsQuote, Quotes
  <2> HIDE DEF double
  <2>4. /\ s \in ScanStates(C, substs) /\ s.subst = x /\ s.chars = r.chars
        /\ s.single = r.single /\ s.double = double /\ s.escaped = r.escaped
    BY <1>4, <2>1, <2>2 DEF ScanStates
  <2>5. ReadsQuote(s, r, c, next)
    BY <1>13, <2>3, <2>4 DEF ReadsQuote, double
  <2> QED
    BY <1>9, <1>13, <2>3, <2>4, <2>5
<1>14. CASE ~r.escaped /\ ~found /\ c = "\\" /\ Escapes(r, next)
  <2>1. s = [t EXCEPT !.escaped = TRUE]
    BY <1>6, <1>14 DEF Escapes
  <2>2. c # "'" /\ c # "\"" /\ IsQuote(r, c, next) /\ (known => ~Inside(substs, i))
    BY <1>11, <1>14 DEF IsQuote, Quotes
  <2>3. /\ s \in ScanStates(C, substs) /\ s.subst = x /\ s.chars = r.chars
        /\ s.single = r.single /\ s.double = r.double /\ s.escaped = TRUE
    BY <1>4, <2>1 DEF ScanStates
  <2>4. ReadsQuote(s, r, c, next)
    BY <1>14, <2>2, <2>3 DEF ReadsQuote
  <2> QED
    BY <1>9, <1>14, <2>2, <2>3, <2>4
<1>15. CASE ~r.escaped /\ ~found /\ ~IsQuote(r, c, next)
  <2>1. s = keep
    BY <1>6, <1>15 DEF IsQuote, Escapes
  <2> QED
    BY <1>7, <1>8, <1>15, <2>1
<1> QED
  BY <1>10, <1>12, <1>13, <1>14, <1>15 DEF IsQuote

\* The state with which nextChar begins.
ScanStart == [k |-> 1, subst |-> 1, chars |-> << >>, single |-> FALSE,
              double |-> FALSE, escaped |-> FALSE]

\* The equation of Scanned.
LEMMA ScannedIs ==
  ASSUME NEW C, NEW text \in Seq(Texts(C)), NEW substs \in Seq(Infos),
         NEW after, after = Scanned(text, 0, substs)
  PROVE  /\ \A k \in 0..Len(text) : after[k] \in ScanStates(C, substs)
         /\ after[0] = ScanStart
         /\ \A k \in 1..Len(text) : after[k] = NextChar(after[k - 1], text, k - 1, 0, substs)
<1> DEFINE n == Len(text)
           D == ScanStates(C, substs)
           Is(f) == f = [k \in 0..n |-> IF k = 0 THEN ScanStart
                                        ELSE NextChar(f[k - 1], text, k - 1, 0, substs)]
           G == [x \in D \X (1..n) |-> NextChar(x[1], text, x[2] - 1, 0, substs)]
<1>1. n \in Nat /\ Len(substs) \in Nat
  OBVIOUS
<1>2. ScanStart \in D
  BY <1>1 DEF ScanStart, ScanStates
<1>3. ASSUME NEW r \in D, NEW k \in 1..n
      PROVE  NextChar(r, text, k - 1, 0, substs) \in D
  <2>1. k - 1 \in 0..(n - 1)
    BY <1>1
  <2> QED
    BY <2>1, NextCharIs
<1> HIDE DEF D
<1>4. G \in [D \X (1..n) -> D]
  BY <1>3
<1>5. \A r \in D, k \in 1..n :
         G[<< r, k >>] = NextChar(r, text, k - 1, 0, substs)
  OBVIOUS
<1>6. after = CHOOSE f : Is(f)
  BY DEF Scanned, ScanStart
<1> HIDE DEF n, G
<1>7. \E f : Is(f)
  <2> \E f : IsRun(f, n, D, ScanStart, G)
    BY <1>1, <1>2, <1>4, Recursion
  <2> PICK f : IsRun(f, n, D, ScanStart, G)
    OBVIOUS
  <2>1. /\ f \in [0..n -> D]
        /\ f[0] = ScanStart
        /\ \A k \in 1..n : f[k] = G[<< f[k - 1], k >>]
    BY DEF IsRun
  <2>2. ASSUME NEW k \in 0..n
        PROVE  f[k] = IF k = 0 THEN ScanStart
                      ELSE NextChar(f[k - 1], text, k - 1, 0, substs)
    <3>1. CASE k = 0
      BY <2>1, <3>1
    <3>2. CASE k # 0
      <4>1. k \in 1..n /\ k - 1 \in 0..n
        BY <1>1, <3>2
      <4> QED
        BY <2>1, <4>1, <1>5, <3>2
    <3> QED
      BY <3>1, <3>2
  <2>3. Is(f)
    BY <2>1, <2>2
  <2> HIDE DEF Is
  <2> QED
    BY <2>3
<1>8. Is(after)
  <2> HIDE DEF Is
  <2> QED
    BY <1>6, <1>7, Zenon
<1>9. /\ after[0] = ScanStart
      /\ \A k \in 1..n : after[k] = NextChar(after[k - 1], text, k - 1, 0, substs)
  <2>1. \A k \in 0..n : after[k] =
           IF k = 0 THEN ScanStart
           ELSE NextChar(after[k - 1], text, k - 1, 0, substs)
    BY <1>8
  <2>2. 0 \in 0..n /\ \A k \in 1..n : k \in 0..n /\ k # 0
    BY <1>1
  <2> QED
    BY <2>1, <2>2
<1>10. \A k \in 0..n : after[k] \in D
  <2> DEFINE S == {k \in 0..n : after[k] \in D}
  <2>1. 0 \in S
    BY <1>1, <1>2, <1>9
  <2>2. ASSUME NEW k \in 1..n, k - 1 \in S PROVE k \in S
    BY <2>2, <1>3, <1>9
  <2> HIDE DEF S
  <2>3. 0..n \subseteq S
    BY <1>1, <2>1, <2>2, UpTo
  <2> QED
    BY <2>3 DEF S
<1> QED
  BY <1>9, <1>10 DEF n, D
-----------------------------------------------------------------------------
\* The marks of the reference.
Marks(C) == [kind : {"end", "break", "none", "quote"}] \cup
            [kind : {"char"}, char : Texts(C), literal : BOOLEAN, splits : BOOLEAN]

\* The character of a mark.
CharOf(m) == [char |-> m.char, literal |-> m.literal]

\* It is a character of a pattern.
LEMMA CharOfIs ==
  ASSUME NEW C, NEW m \in Marks(C), m.kind = "char"
  PROVE  CharOf(m) \in PatternChars(C)
BY DEF CharOf, Marks, PatternChars

\* The equation of Characters.
LEMMA CharactersRun ==
  ASSUME NEW C, NEW marks \in Seq(Marks(C))
  PROVE  \E f : /\ F!Characters(marks) = f[Len(marks)]
                /\ f[0] = << >>
                /\ \A k \in 0..Len(marks) : f[k] \in Seq(PatternChars(C))
                /\ \A k \in 1..Len(marks) :
                      f[k] = IF marks[k].kind = "char"
                             THEN Append(f[k - 1], CharOf(marks[k]))
                             ELSE f[k - 1]
<1> DEFINE n == Len(marks)
           D == Seq(PatternChars(C))
           step(s, k) == IF marks[k].kind = "char" THEN Append(s, CharOf(marks[k]))
                         ELSE s
           Is(f) == f = [k \in 0..n |-> IF k = 0 THEN << >> ELSE step(f[k - 1], k)]
           G == [x \in D \X (1..n) |-> step(x[1], x[2])]
           after == CHOOSE f : Is(f)
<1>1. n \in Nat /\ << >> \in D
  OBVIOUS
<1>2. ASSUME NEW s \in D, NEW k \in 1..n PROVE step(s, k) \in D
  <2>1. marks[k] \in Marks(C)
    OBVIOUS
  <2> QED
    BY <2>1, CharOfIs
<1>3. F!Characters(marks) = after[n]
  BY DEF F!Characters, CharOf
<1> HIDE DEF D, step, n
<1>4. G \in [D \X (1..n) -> D]
  BY <1>2
<1>5. \A s \in D, k \in 1..n : G[<< s, k >>] = step(s, k)
  OBVIOUS
<1> HIDE DEF G
<1>6. \E f : Is(f)
  <2> \E f : IsRun(f, n, D, << >>, G)
    BY <1>1, <1>4, Recursion
  <2> PICK f : IsRun(f, n, D, << >>, G)
    OBVIOUS
  <2>1. /\ f \in [0..n -> D]
        /\ f[0] = << >>
        /\ \A k \in 1..n : f[k] = G[<< f[k - 1], k >>]
    BY DEF IsRun
  <2>2. ASSUME NEW k \in 0..n
        PROVE  f[k] = IF k = 0 THEN << >> ELSE step(f[k - 1], k)
    <3>1. CASE k = 0
      BY <2>1, <3>1
    <3>2. CASE k # 0
      <4>1. k \in 1..n /\ k - 1 \in 0..n
        BY <1>1, <3>2
      <4> QED
        BY <2>1, <4>1, <1>5, <3>2
    <3> QED
      BY <3>1, <3>2
  <2>3. Is(f)
    BY <2>1, <2>2
  <2> HIDE DEF Is
  <2> QED
    BY <2>3
<1>7. Is(after)
  <2> HIDE DEF Is
  <2> QED
    BY <1>6, Zenon
<1> HIDE DEF after
<1>8. after[0] = << >> /\ \A k \in 1..n : after[k] = step(after[k - 1], k)
  <2>1. \A k \in 0..n : after[k] = IF k = 0 THEN << >> ELSE step(after[k - 1], k)
    BY <1>7
  <2>2. 0 \in 0..n /\ \A k \in 1..n : k \in 0..n /\ k # 0
    BY <1>1
  <2> QED
    BY <2>1, <2>2
<1>9. \A k \in 0..n : after[k] \in D
  <2> DEFINE S == {k \in 0..n : after[k] \in D}
  <2>1. 0 \in S
    BY <1>1, <1>8
  <2>2. ASSUME NEW k \in 1..n, k - 1 \in S PROVE k \in S
    BY <2>2, <1>2, <1>8
  <2> HIDE DEF S
  <2>3. 0..n \subseteq S
    BY <1>1, <2>1, <2>2, UpTo
  <2> QED
    BY <2>3 DEF S
<1>10. \A k \in 1..n : after[k] = IF marks[k].kind = "char"
                                  THEN Append(after[k - 1], CharOf(marks[k]))
                                  ELSE after[k - 1]
  BY <1>8 DEF step
<1> HIDE DEF Is
<1> QED
  BY <1>3, <1>8, <1>9, <1>10 DEF n, D

\* The characters of marks that are all characters.
LEMMA CharactersAre ==
  ASSUME NEW C, NEW marks \in Seq(Marks(C)),
         \A i \in 1..Len(marks) : marks[i].kind = "char"
  PROVE  F!Characters(marks) = [i \in 1..Len(marks) |-> CharOf(marks[i])]
<1> DEFINE n == Len(marks)
<1>1. PICK f : /\ F!Characters(marks) = f[n]
               /\ f[0] = << >>
               /\ \A k \in 0..n : f[k] \in Seq(PatternChars(C))
               /\ \A k \in 1..n : f[k] = IF marks[k].kind = "char"
                                         THEN Append(f[k - 1], CharOf(marks[k]))
                                         ELSE f[k - 1]
  BY CharactersRun
<1>2. n \in Nat
  OBVIOUS
<1> HIDE DEF n
<1> DEFINE upTo(k) == [i \in 1..k |-> CharOf(marks[i])]
           S == {k \in 0..n : f[k] = upTo(k)}
<1>3. 0 \in S
  BY <1>1, <1>2
<1>4. ASSUME NEW k \in 1..n, k - 1 \in S PROVE k \in S
  <2>1. f[k] = Append(f[k - 1], CharOf(marks[k]))
    BY <1>1 DEF n
  <2>2. f[k - 1] = upTo(k - 1) /\ k - 1 \in Nat /\ k \in 0..n
    BY <1>2, <1>4
  <2>3. Len(upTo(k - 1)) = k - 1
    BY <2>2
  <2>4. Append(upTo(k - 1), CharOf(marks[k])) = upTo(k)
    BY <2>2, <2>3
  <2> QED
    BY <2>1, <2>2, <2>4
<1> HIDE DEF S
<1>5. 0..n \subseteq S
  BY <1>2, <1>3, <1>4, UpTo
<1>6. n \in S
  BY <1>2, <1>5
<1> QED
  BY <1>1, <1>6 DEF S, n

\* A mark that is no character has none.
LEMMA NoCharacters ==
  ASSUME NEW C, NEW m \in Marks(C), m.kind # "char"
  PROVE  F!Characters(<<m>>) = << >>
<1> DEFINE marks == <<m>>
<1>1. marks \in Seq(Marks(C)) /\ Len(marks) = 1 /\ marks[1] = m
  OBVIOUS
<1> HIDE DEF marks
<1>2. PICK f : /\ F!Characters(marks) = f[Len(marks)]
               /\ f[0] = << >>
               /\ \A k \in 0..Len(marks) : f[k] \in Seq(PatternChars(C))
               /\ \A k \in 1..Len(marks) :
                     f[k] = IF marks[k].kind = "char"
                            THEN Append(f[k - 1], CharOf(marks[k]))
                            ELSE f[k - 1]
  BY <1>1, CharactersRun
<1>3. f[1] = f[0]
  BY <1>1, <1>2
<1> QED
  BY <1>1, <1>2, <1>3 DEF marks

\* Nor has no mark.
LEMMA NoMarks == F!Characters(<< >>) = << >>
<1> DEFINE marks == << >>
<1>1. marks \in Seq(Marks({})) /\ Len(marks) = 0
      /\ \A i \in 1..Len(marks) : marks[i].kind = "char"
  OBVIOUS
<1> HIDE DEF marks
<1>2. F!Characters(marks) = [i \in 1..Len(marks) |-> CharOf(marks[i])]
  BY <1>1, CharactersAre
<1>3. [i \in 1..0 |-> CharOf(marks[i])] = << >>
  OBVIOUS
<1> QED
  BY <1>1, <1>2, <1>3 DEF marks

\* The characters of a value.
ValueChars(value, literal) ==
    [i \in 1..Len(value) |-> [char |-> value[i], literal |-> literal]]

\* Values, for at most one value.
LEMMA ValuesAre ==
  ASSUME NEW C, NEW e \in NarrowElements(C), e.kind # "char",
         NEW quoted \in BOOLEAN, NEW marks, marks = F!Values(e, quoted)
  PROVE  /\ marks \in Seq(Marks(C))
         /\ F!Characters(marks) = IF e.values = << >> THEN << >>
                                  ELSE ValueChars(e.values[1], quoted)
<1> DEFINE n == Len(e.values)
           value(v) == [i \in DOMAIN v |-> F!Char(v[i], quoted, ~quoted)]
           between == IF ~quoted THEN <<F!Mark("end")>>
                      ELSE IF e.kind = "at" THEN <<F!Mark("break")>>
                      ELSE IF Ifs = << >> THEN << >>
                      ELSE <<F!Char(Head(Ifs), TRUE, FALSE)>>
           Is(f) == f = [k \in 0..n |-> IF k = 0 THEN << >>
                                        ELSE f[k - 1] \o (IF k = 1 THEN << >> ELSE between)
                                                      \o value(e.values[k])]
           joined == CHOOSE f : Is(f)
           none == <<F!Mark("none")>>
<1>1. e.values \in Seq(Seq(C)) /\ n \in {0, 1}
  BY ElementIs
<1>2. n = 0 <=> e.values = << >>
  BY <1>1
<1>3. marks = IF e.values = << >> /\ quoted /\ e.kind = "at" THEN none ELSE joined[n]
  BY DEF F!Values
<1>4. /\ none \in Seq(Marks(C)) /\ F!Characters(none) = << >>
  <2> DEFINE m == F!Mark("none")
  <2>1. m \in Marks(C) /\ m.kind # "char"
    BY DEF F!Mark, Marks
  <2> HIDE DEF m
  <2> QED
    BY <2>1, NoCharacters DEF m
<1> HIDE DEF between
<1>5. CASE e.values = << >>
  <2> DEFINE f0 == [k \in 0..0 |-> << >>]
  <2>1. n = 0
    BY <1>5
  <2>2. Is(f0)
    BY <2>1
  <2> HIDE DEF Is
  <2>3. Is(joined)
    BY <2>2, Zenon
  <2> HIDE DEF joined
  <2>4. joined[n] = << >>
    BY <2>1, <2>3 DEF Is
  <2>5. << >> \in Seq(Marks(C))
    OBVIOUS
  <2> QED
    BY <1>3, <1>4, <1>5, <2>4, <2>5, NoMarks
<1>6. CASE e.values # << >>
  <2> DEFINE v == e.values[1]
             f1 == [k \in 0..1 |-> IF k = 0 THEN << >> ELSE value(v)]
  <2>1. n = 1 /\ v \in Seq(C) /\ DOMAIN v = 1..Len(v)
    BY <1>1, <1>2, <1>6
  <2>2. \A i \in 1..Len(v) : /\ F!Char(v[i], quoted, ~quoted) \in Marks(C)
                             /\ F!Char(v[i], quoted, ~quoted).kind = "char"
                             /\ CharOf(F!Char(v[i], quoted, ~quoted)) =
                                   [char |-> v[i], literal |-> quoted]
    <3> DEFINE splits == ~quoted
    <3>1. splits \in BOOLEAN /\ \A i \in 1..Len(v) : v[i] \in Texts(C)
      BY <2>1 DEF Texts
    <3> HIDE DEF splits
    <3>2. \A i \in 1..Len(v) : /\ F!Char(v[i], quoted, splits) \in Marks(C)
                               /\ F!Char(v[i], quoted, splits).kind = "char"
                               /\ CharOf(F!Char(v[i], quoted, splits)) =
                                     [char |-> v[i], literal |-> quoted]
      BY <3>1 DEF F!Char, Marks, CharOf
    <3> QED
      BY <3>2 DEF splits
  <2>3. /\ value(v) \in Seq(Marks(C)) /\ Len(value(v)) = Len(v)
        /\ \A i \in 1..Len(v) : value(v)[i] = F!Char(v[i], quoted, ~quoted)
    <3> DEFINE mark(i) == F!Char(v[i], quoted, ~quoted)
    <3>1. \A i \in 1..Len(v) : mark(i) \in Marks(C)
      BY <2>2
    <3>2. value(v) = [i \in 1..Len(v) |-> mark(i)] /\ Len(v) \in Nat
      BY <2>1
    <3> HIDE DEF mark, value
    <3>3. /\ value(v) \in Seq(Marks(C)) /\ Len(value(v)) = Len(v)
          /\ \A i \in 1..Len(v) : value(v)[i] = mark(i)
      BY <3>1, <3>2
    <3> QED
      BY <3>3 DEF mark
  <2>4. << >> \o << >> \o value(v) = value(v)
    BY <2>3
  <2> HIDE DEF value
  <2>5. Is(f1)
    <3>1. ASSUME NEW k \in 0..n
          PROVE  f1[k] = IF k = 0 THEN << >>
                         ELSE f1[k - 1] \o (IF k = 1 THEN << >> ELSE between)
                                        \o value(e.values[k])
      <4>1. CASE k = 0
        BY <4>1
      <4>2. CASE k = 1
        <5>1. k - 1 = 0 /\ f1[0] = << >> /\ f1[k] = value(v)
          BY <4>2
        <5> HIDE DEF f1
        <5>2. f1[k - 1] \o (IF k = 1 THEN << >> ELSE between) \o value(e.values[k])
                = << >> \o << >> \o value(v)
          BY <4>2, <5>1
        <5> QED
          BY <2>4, <4>2, <5>1, <5>2
      <4> QED
        BY <2>1, <4>1, <4>2
    <3> QED
      BY <2>1, <3>1
  <2> HIDE DEF Is
  <2>6. Is(joined)
    BY <2>5, Zenon
  <2> HIDE DEF joined
  <2>7. joined[n] = value(v)
    <3>1. \A k \in 0..n : joined[k] = IF k = 0 THEN << >>
                         ELSE joined[k - 1] \o (IF k = 1 THEN << >> ELSE between)
                                            \o value(e.values[k])
      BY <2>6 DEF Is
    <3>2. joined[0] = << >>
      BY <2>1, <3>1
    <3>3. joined[1] = joined[1 - 1] \o (IF 1 = 1 THEN << >> ELSE between)
                                    \o value(e.values[1])
      <4>1. 1 \in 0..n /\ 1 # 0
        BY <2>1
      <4> QED
        BY <3>1, <4>1
    <3>4. 1 - 1 = 0
      OBVIOUS
    <3>5. joined[1] = << >> \o << >> \o value(v)
      BY <3>2, <3>3, <3>4
    <3> QED
      BY <2>1, <2>4, <3>5
  <2>8. marks = value(v)
    BY <1>3, <1>6, <2>7
  <2>9. F!Characters(marks) = [i \in 1..Len(v) |-> CharOf(value(v)[i])]
    <3>1. \A i \in 1..Len(value(v)) : value(v)[i].kind = "char"
      BY <2>2, <2>3
    <3> QED
      BY <2>3, <2>8, <3>1, CharactersAre
  <2> QED
    BY <1>6, <2>2, <2>3, <2>8, <2>9 DEF ValueChars
<1> QED
  BY <1>5, <1>6

\* The state of the reference.
ReadStates(C) == [marks : Seq(Marks(C)), chars : Seq(PatternChars(C)),
                  within : {"none", "'", "\""}, escaped : BOOLEAN]

\* s has some characters more than r.
Puts(s, r, chars) == /\ s.chars = r.chars \o chars
                     /\ s.within = r.within
                     /\ s.escaped = FALSE

\* The reference adds the marks and their characters.
LEMMA PutIs ==
  ASSUME NEW C, NEW r \in ReadStates(C), NEW marks \in Seq(Marks(C)),
         NEW s, s = [r EXCEPT !.marks = @ \o marks,
                              !.chars = @ \o F!Characters(marks),
                              !.escaped = FALSE]
  PROVE  s \in ReadStates(C) /\ Puts(s, r, F!Characters(marks))
<1> DEFINE chars == F!Characters(marks)
           allMarks == r.marks \o marks
           allChars == r.chars \o chars
<1>1. chars \in Seq(PatternChars(C))
  <2>1. PICK f : /\ chars = f[Len(marks)]
                 /\ f[0] = << >>
                 /\ \A k \in 0..Len(marks) : f[k] \in Seq(PatternChars(C))
                 /\ \A k \in 1..Len(marks) :
                       f[k] = IF marks[k].kind = "char"
                              THEN Append(f[k - 1], CharOf(marks[k]))
                              ELSE f[k - 1]
    BY CharactersRun
  <2>2. Len(marks) \in 0..Len(marks)
    OBVIOUS
  <2> QED
    BY <2>1, <2>2
<1> HIDE DEF chars
<1>2. r.marks \in Seq(Marks(C)) /\ r.chars \in Seq(PatternChars(C))
  BY DEF ReadStates
<1>3. allMarks \in Seq(Marks(C)) /\ allChars \in Seq(PatternChars(C))
  BY <1>1, <1>2
<1>4. s = [[[r EXCEPT !.marks = allMarks] EXCEPT !.chars = allChars]
              EXCEPT !.escaped = FALSE]
  BY DEF chars
<1> HIDE DEF allMarks, allChars
<1>5. /\ s \in ReadStates(C) /\ s.chars = allChars /\ s.within = r.within
      /\ s.escaped = FALSE
  BY <1>3, <1>4 DEF ReadStates
<1> QED
  BY <1>5 DEF Puts, allChars, chars

\* The mark of a character that is not split.
CharMark(c, literal) == F!Char(c, literal, FALSE)

\* It is a mark, and its character is c.
LEMMA CharMarkIs ==
  ASSUME NEW C, NEW c \in Texts(C), NEW literal \in BOOLEAN
  PROVE  /\ CharMark(c, literal) \in Marks(C)
         /\ CharMark(c, literal).kind = "char"
         /\ CharOf(CharMark(c, literal)) = [char |-> c, literal |-> literal]
BY DEF CharMark, F!Char, Marks, CharOf

\* The characters of one such mark.
LEMMA OneCharacter ==
  ASSUME NEW C, NEW c \in Texts(C), NEW literal \in BOOLEAN
  PROVE  /\ <<CharMark(c, literal)>> \in Seq(Marks(C))
         /\ F!Characters(<<CharMark(c, literal)>>) = <<[char |-> c, literal |-> literal]>>
<1> DEFINE m == CharMark(c, literal)
           marks == <<m>>
           one == [char |-> c, literal |-> literal]
<1>1. m \in Marks(C) /\ m.kind = "char" /\ CharOf(m) = one
  BY CharMarkIs
<1> HIDE DEF m, one
<1>2. marks \in Seq(Marks(C)) /\ Len(marks) = 1 /\ marks[1] = m
  BY <1>1
<1> HIDE DEF marks
<1>3. F!Characters(marks) = [i \in 1..Len(marks) |-> CharOf(marks[i])]
  <2>1. \A i \in 1..Len(marks) : marks[i].kind = "char"
    BY <1>1, <1>2
  <2> QED
    BY <1>2, <2>1, CharactersAre
<1>4. [i \in 1..1 |-> CharOf(marks[i])] = <<one>>
  BY <1>1, <1>2
<1> QED
  BY <1>2, <1>3, <1>4 DEF marks, m, one

\* The characters of two literal ones.
LEMMA TwoCharacters ==
  ASSUME NEW C, NEW a \in Texts(C), NEW b \in Texts(C)
  PROVE  /\ <<CharMark(a, TRUE), CharMark(b, TRUE)>> \in Seq(Marks(C))
         /\ F!Characters(<<CharMark(a, TRUE), CharMark(b, TRUE)>>) =
               <<[char |-> a, literal |-> TRUE], [char |-> b, literal |-> TRUE]>>
<1> DEFINE m == CharMark(a, TRUE)
           n == CharMark(b, TRUE)
           marks == <<m, n>>
           first == [char |-> a, literal |-> TRUE]
           second == [char |-> b, literal |-> TRUE]
<1>1. /\ m \in Marks(C) /\ m.kind = "char" /\ CharOf(m) = first
      /\ n \in Marks(C) /\ n.kind = "char" /\ CharOf(n) = second
  BY CharMarkIs
<1> HIDE DEF m, n, first, second
<1>2. marks \in Seq(Marks(C)) /\ Len(marks) = 2 /\ marks[1] = m /\ marks[2] = n
  BY <1>1
<1> HIDE DEF marks
<1>3. F!Characters(marks) = [i \in 1..Len(marks) |-> CharOf(marks[i])]
  <2>1. \A i \in 1..Len(marks) : marks[i].kind = "char"
    BY <1>1, <1>2
  <2> QED
    BY <1>2, <2>1, CharactersAre
<1>4. [i \in 1..2 |-> CharOf(marks[i])] = <<first, second>>
  BY <1>1, <1>2
<1> QED
  BY <1>2, <1>3, <1>4 DEF marks, m, n, first, second

\* What Read does with an element whose character is taken as it is.
ReadsPlain(s, r, e) ==
    IF e.kind = "char" THEN Puts(s, r, <<[char |-> e.char, literal |-> r.within # "none"]>>)
    ELSE Puts(s, r, IF e.values = << >> THEN << >>
                    ELSE ValueChars(e.values[1], r.within # "none"))

\* The reference reads the character behind a backslash.
ReadsEscaped(s, r, c) ==
    Puts(s, r, IF r.within = "\"" /\ ~IsSpecialInDoubleQuotes(c)
               THEN <<[char |-> "\\", literal |-> TRUE], [char |-> c, literal |-> TRUE]>>
               ELSE <<[char |-> c, literal |-> TRUE]>>)

\* Read
Reads(s, r, e) ==
    /\ r.escaped => ReadsEscaped(s, r, e.char)
    /\ ~r.escaped /\ r.within # "none" /\ e.char = r.within =>
         s.chars = r.chars /\ s.within = "none" /\ s.escaped = FALSE
    /\ ~r.escaped /\ r.within = "'" /\ e.char # "'" =>
         Puts(s, r, <<[char |-> e.char, literal |-> TRUE]>>)
    /\ ~r.escaped /\ r.within # "'" /\ e.char = "\\" =>
         s.chars = r.chars /\ s.within = r.within /\ s.escaped = TRUE
    /\ ~r.escaped /\ r.within = "none" /\ e.char \in {"'", "\""} =>
         s.chars = r.chars /\ s.within = e.char /\ s.escaped = FALSE
    /\ /\ ~r.escaped /\ e.char # "\\"
       /\ \/ r.within = "none" /\ e.char \notin {"'", "\""}
          \/ r.within = "\"" /\ e.char # "\""
       => ReadsPlain(s, r, e)

\* One round of the reference, case by case.
LEMMA ReadIs ==
  ASSUME NEW C, NEW r \in ReadStates(C), NEW e \in NarrowElements(C),
         NEW s, s = F!Read(r, e)
  PROVE  s \in ReadStates(C) /\ Reads(s, r, e)
<1> PICK c : c = e.char
  OBVIOUS
<1> USE DEF Reads
<1> DEFINE put(marks) == [r EXCEPT !.marks = @ \o marks,
                                   !.chars = @ \o F!Characters(marks),
                                   !.escaped = FALSE]
           quoted == r.within # "none"
           two == <<CharMark("\\", TRUE), CharMark(c, TRUE)>>
           one == <<CharMark(c, TRUE)>>
           quote == <<F!Mark("quote")>>
           plain == IF e.kind # "char" THEN F!Values(e, quoted)
                    ELSE <<CharMark(c, quoted)>>
<1>1. c \in Texts(C) /\ "\\" \in Texts(C)
  BY ElementIs DEF Texts
<1>2. /\ r.escaped \in BOOLEAN /\ r.within \in {"none", "'", "\""}
      /\ r.chars \in Seq(PatternChars(C)) /\ r.marks \in Seq(Marks(C))
  BY DEF ReadStates
<1>3. s = IF r.escaped
          THEN put(IF r.within = "\"" /\ ~IsSpecialInDoubleQuotes(c) THEN two ELSE one)
          ELSE IF quoted /\ c = r.within THEN [r EXCEPT !.within = "none"]
          ELSE IF r.within = "'" THEN put(one)
          ELSE CASE c = "\\" -> [r EXCEPT !.escaped = TRUE]
                 [] c \in {"'", "\""} /\ ~quoted -> [put(quote) EXCEPT !.within = c]
                 [] OTHER -> put(plain)
  BY DEF F!Read, CharMark
<1>4. ASSUME NEW marks \in Seq(Marks(C)), s = put(marks)
      PROVE  s \in ReadStates(C) /\ Puts(s, r, F!Characters(marks))
  BY <1>4, PutIs
<1> HIDE DEF put
<1>5. CASE r.escaped
  <2>1. CASE r.within = "\"" /\ ~IsSpecialInDoubleQuotes(c)
    <3>1. s = put(two)
      BY <1>3, <1>5, <2>1
    <3>2. /\ two \in Seq(Marks(C))
          /\ F!Characters(two) =
               <<[char |-> "\\", literal |-> TRUE], [char |-> c, literal |-> TRUE]>>
      BY <1>1, TwoCharacters
    <3> HIDE DEF two
    <3>3. s \in ReadStates(C) /\ Puts(s, r, F!Characters(two))
      BY <1>4, <3>1, <3>2
    <3> QED
      BY <1>5, <2>1, <3>2, <3>3 DEF ReadsEscaped
  <2>2. CASE ~ (r.within = "\"" /\ ~IsSpecialInDoubleQuotes(c))
    <3>1. s = put(one)
      BY <1>3, <1>5, <2>2
    <3>2. /\ one \in Seq(Marks(C))
          /\ F!Characters(one) = <<[char |-> c, literal |-> TRUE]>>
      BY <1>1, OneCharacter
    <3> HIDE DEF one
    <3>3. s \in ReadStates(C) /\ Puts(s, r, F!Characters(one))
      BY <1>4, <3>1, <3>2
    <3> QED
      BY <1>5, <2>2, <3>2, <3>3 DEF ReadsEscaped
  <2> QED
    BY <2>1, <2>2
<1>6. CASE ~r.escaped /\ quoted /\ c = r.within
  <2>1. s = [r EXCEPT !.within = "none"]
    BY <1>3, <1>6
  <2>2. /\ s \in ReadStates(C) /\ s.chars = r.chars /\ s.within = "none"
        /\ s.escaped = r.escaped
    BY <2>1 DEF ReadStates
  <2> QED
    BY <1>2, <1>6, <2>2
<1>7. CASE ~r.escaped /\ r.within = "'" /\ c # "'"
  <2>1. s = put(one)
    BY <1>3, <1>7
  <2>2. /\ one \in Seq(Marks(C))
        /\ F!Characters(one) = <<[char |-> c, literal |-> TRUE]>>
    BY <1>1, OneCharacter
  <2> HIDE DEF one
  <2>3. s \in ReadStates(C) /\ Puts(s, r, F!Characters(one))
    BY <1>4, <2>1, <2>2
  <2> QED
    BY <1>7, <2>2, <2>3
<1>8. CASE ~r.escaped /\ r.within # "'" /\ c = "\\"
  <2>1. s = [r EXCEPT !.escaped = TRUE]
    BY <1>2, <1>3, <1>8
  <2>2. /\ s \in ReadStates(C) /\ s.chars = r.chars /\ s.within = r.within
        /\ s.escaped = TRUE
    BY <2>1 DEF ReadStates
  <2>3. c # r.within
    BY <1>2, <1>8
  <2> QED
    BY <1>8, <2>2, <2>3
<1>9. CASE ~r.escaped /\ r.within = "none" /\ c \in {"'", "\""}
  <2> DEFINE t == put(quote)
  <2>1. s = [t EXCEPT !.within = c]
    BY <1>3, <1>9
  <2>2. /\ quote \in Seq(Marks(C)) /\ F!Characters(quote) = << >>
    <3> DEFINE m == F!Mark("quote")
    <3>1. m \in Marks(C) /\ m.kind # "char"
      BY DEF F!Mark, Marks
    <3> HIDE DEF m
    <3> QED
      BY <3>1, NoCharacters DEF m
  <2> HIDE DEF quote
  <2>3. t \in ReadStates(C) /\ Puts(t, r, F!Characters(quote))
    BY <2>2, PutIs DEF put
  <2> HIDE DEF t
  <2>4. t.chars = r.chars /\ t.escaped = FALSE
    <3>1. r.chars \o << >> = r.chars
      <4>1. \A x \in Seq(PatternChars(C)) : x \o << >> = x
        OBVIOUS
      <4> QED
        BY <1>2, <4>1
    <3> QED
      BY <3>1, <2>2, <2>3 DEF Puts
  <2>5. /\ s \in ReadStates(C) /\ s.chars = t.chars /\ s.within = c
        /\ s.escaped = t.escaped
    BY <1>9, <2>1, <2>3 DEF ReadStates
  <2> QED
    BY <1>9, <2>4, <2>5
<1>10. CASE /\ ~r.escaped /\ c # "\\"
            /\ \/ r.within = "none" /\ c \notin {"'", "\""}
               \/ r.within = "\"" /\ c # "\""
  <2>1. s = put(plain)
    BY <1>3, <1>10
  <2>2. CASE e.kind = "char"
    <3>1. s = put(<<CharMark(c, quoted)>>)
      BY <2>1, <2>2
    <3> DEFINE marks == <<CharMark(c, quoted)>>
    <3>2. marks \in Seq(Marks(C))
          /\ F!Characters(marks) = <<[char |-> c, literal |-> quoted]>>
      <4>1. quoted \in BOOLEAN
        OBVIOUS
      <4> QED
        BY <1>1, <4>1, OneCharacter
    <3> HIDE DEF marks
    <3>3. s = put(marks)
      BY <3>1 DEF marks
    <3>4. s \in ReadStates(C) /\ Puts(s, r, F!Characters(marks))
      BY <1>4, <3>2, <3>3
    <3> QED
      BY <1>10, <2>2, <3>2, <3>4 DEF ReadsPlain
  <2>3. CASE e.kind # "char"
    <3> DEFINE marks == F!Values(e, quoted)
               chars == IF e.values = << >> THEN << >>
                        ELSE ValueChars(e.values[1], quoted)
    <3>1. s = put(marks)
      BY <2>1, <2>3
    <3>2. marks \in Seq(Marks(C)) /\ F!Characters(marks) = chars
      <4>1. quoted \in BOOLEAN
        OBVIOUS
      <4> HIDE DEF quoted
      <4> QED
        BY <2>3, <4>1, ValuesAre
    <3> HIDE DEF marks
    <3>3. s \in ReadStates(C) /\ Puts(s, r, F!Characters(marks))
      BY <1>4, <3>1, <3>2
    <3>4. ReadsPlain(s, r, e)
      BY <2>3, <3>2, <3>3 DEF ReadsPlain
    <3> QED
      BY <1>10, <3>3, <3>4
  <2> QED
    BY <2>2, <2>3
<1>11. \/ r.escaped
       \/ ~r.escaped /\ quoted /\ c = r.within
       \/ ~r.escaped /\ r.within = "'" /\ c # "'"
       \/ ~r.escaped /\ r.within # "'" /\ c = "\\"
       \/ ~r.escaped /\ r.within = "none" /\ c \in {"'", "\""}
       \/ /\ ~r.escaped /\ c # "\\"
          /\ \/ r.within = "none" /\ c \notin {"'", "\""}
             \/ r.within = "\"" /\ c # "\""
  <2>1. CASE r.within = "none"
    BY <2>1
  <2>2. CASE r.within = "'"
    BY <2>2
  <2>3. CASE r.within = "\""
    BY <2>3
  <2> QED
    BY <1>2, <2>1, <2>2, <2>3
<1> QED
  BY <1>5, <1>6, <1>7, <1>8, <1>9, <1>10, <1>11, Zenon

\* The state with which the reference begins.
ReadStart == [marks |-> << >>, chars |-> << >>, within |-> "none", escaped |-> FALSE]

\* The equation of Reading.
LEMMA ReadingIs ==
  ASSUME NEW C, NEW word \in Seq(NarrowElements(C)),
         NEW after, after = F!Reading(word)
  PROVE  /\ \A k \in 0..Len(word) : after[k] \in ReadStates(C)
         /\ after[0] = ReadStart
         /\ \A k \in 1..Len(word) : after[k] = F!Read(after[k - 1], word[k])
<1> DEFINE n == Len(word)
           D == ReadStates(C)
           Is(f) == f = [k \in 0..n |-> IF k = 0 THEN ReadStart
                                        ELSE F!Read(f[k - 1], word[k])]
           G == [x \in D \X (1..n) |-> F!Read(x[1], word[x[2]])]
<1>1. n \in Nat
  OBVIOUS
<1>2. ReadStart \in D
  BY DEF ReadStart, ReadStates
<1>3. ASSUME NEW r \in D, NEW k \in 1..n PROVE F!Read(r, word[k]) \in D
  <2>1. word[k] \in NarrowElements(C)
    OBVIOUS
  <2> QED
    BY <2>1, ReadIs
<1> HIDE DEF D
<1>4. G \in [D \X (1..n) -> D]
  BY <1>3
<1>5. \A r \in D, k \in 1..n : G[<< r, k >>] = F!Read(r, word[k])
  OBVIOUS
<1>6. after = CHOOSE f : Is(f)
  BY DEF F!Reading, ReadStart
<1> HIDE DEF n, G
<1>7. \E f : Is(f)
  <2> \E f : IsRun(f, n, D, ReadStart, G)
    BY <1>1, <1>2, <1>4, Recursion
  <2> PICK f : IsRun(f, n, D, ReadStart, G)
    OBVIOUS
  <2>1. /\ f \in [0..n -> D]
        /\ f[0] = ReadStart
        /\ \A k \in 1..n : f[k] = G[<< f[k - 1], k >>]
    BY DEF IsRun
  <2>2. ASSUME NEW k \in 0..n
        PROVE  f[k] = IF k = 0 THEN ReadStart ELSE F!Read(f[k - 1], word[k])
    <3>1. CASE k = 0
      BY <2>1, <3>1
    <3>2. CASE k # 0
      <4>1. k \in 1..n /\ k - 1 \in 0..n
        BY <1>1, <3>2
      <4> QED
        BY <2>1, <4>1, <1>5, <3>2
    <3> QED
      BY <3>1, <3>2
  <2>3. Is(f)
    BY <2>1, <2>2
  <2> HIDE DEF Is
  <2> QED
    BY <2>3
<1>8. Is(after)
  <2> HIDE DEF Is
  <2> QED
    BY <1>6, <1>7, Zenon
<1>9. /\ after[0] = ReadStart
      /\ \A k \in 1..n : after[k] = F!Read(after[k - 1], word[k])
  <2>1. \A k \in 0..n : after[k] = IF k = 0 THEN ReadStart
                                   ELSE F!Read(after[k - 1], word[k])
    BY <1>8
  <2>2. 0 \in 0..n /\ \A k \in 1..n : k \in 0..n /\ k # 0
    BY <1>1
  <2> QED
    BY <2>1, <2>2
<1>10. \A k \in 0..n : after[k] \in D
  <2> DEFINE S == {k \in 0..n : after[k] \in D}
  <2>1. 0 \in S
    BY <1>1, <1>2, <1>9
  <2>2. ASSUME NEW k \in 1..n, k - 1 \in S PROVE k \in S
    BY <2>2, <1>3, <1>9
  <2> HIDE DEF S
  <2>3. 0..n \subseteq S
    BY <1>1, <2>1, <2>2, UpTo
  <2> QED
    BY <2>3 DEF S
<1> QED
  BY <1>9, <1>10 DEF n, D
-----------------------------------------------------------------------------
\* doSubstitutions and the reference agree on the quotes around an element.
Within(u) == IF u.single THEN "'" ELSE IF u.double THEN "\"" ELSE "none"

(* The loop of doSubstitutions and the reference agree about the quotes around an
   element. *)
Quoting(u, r) == /\ u.escaped <=> r.escaped
                 /\ r.within = Within(u)
                 /\ ~ (u.single /\ u.double)
                 /\ ~ (u.escaped /\ u.single)

\* They agree behind an element if they do in front of it.
LEMMA QuotingStep ==
  ASSUME NEW C, NEW w \in WordStates(C), NEW r \in ReadStates(C),
         NEW e \in NarrowElements(C), Quoting(w, r),
         NEW u, u = DoSubstitution(w, e), NEW s, s = F!Read(r, e)
  PROVE  Quoting(u, s)
<1> DEFINE c == e.char
<1>1. /\ IsLiteral(w, e) => LiteralRound(u, w, c)
      /\ ~IsLiteral(w, e) => KeepsQuotes(u, w)
  BY RoundIs
<1>2. /\ w.escaped <=> r.escaped
      /\ r.within = Within(w)
      /\ ~ (w.single /\ w.double)
      /\ ~ (w.escaped /\ w.single)
  BY DEF Quoting
<1>3. /\ r.escaped => ReadsEscaped(s, r, c)
      /\ ~r.escaped /\ r.within # "none" /\ c = r.within =>
           s.chars = r.chars /\ s.within = "none" /\ s.escaped = FALSE
      /\ ~r.escaped /\ r.within = "'" /\ c # "'" =>
           Puts(s, r, <<[char |-> c, literal |-> TRUE]>>)
      /\ ~r.escaped /\ r.within # "'" /\ c = "\\" =>
           s.chars = r.chars /\ s.within = r.within /\ s.escaped = TRUE
      /\ ~r.escaped /\ r.within = "none" /\ c \in {"'", "\""} =>
           s.chars = r.chars /\ s.within = c /\ s.escaped = FALSE
      /\ /\ ~r.escaped /\ c # "\\"
         /\ \/ r.within = "none" /\ c \notin {"'", "\""}
            \/ r.within = "\"" /\ c # "\""
         => ReadsPlain(s, r, e)
  <2>1. Reads(s, r, e)
    BY ReadIs
  <2> QED
    BY <2>1 DEF Reads
<1>4. ~IsLiteral(w, e) => c = "$" /\ ~w.escaped /\ ~w.single
  BY ElementIs DEF IsLiteral
<1>5. /\ ReadsEscaped(s, r, c) => s.within = r.within /\ s.escaped = FALSE
      /\ ReadsPlain(s, r, e) => s.within = r.within /\ s.escaped = FALSE
      /\ Puts(s, r, <<[char |-> c, literal |-> TRUE]>>) =>
            s.within = r.within /\ s.escaped = FALSE
  BY DEF ReadsEscaped, ReadsPlain, Puts
<1> HIDE DEF c
<1>6. CASE w.escaped
  <2>1. s.within = r.within /\ s.escaped = FALSE
    BY <1>2, <1>3, <1>5, <1>6
  <2>2. LiteralRound(u, w, c)
    BY <1>1, <1>6 DEF IsLiteral
  <2>3. ~u.escaped /\ (u.single <=> w.single) /\ (u.double <=> w.double)
    BY <1>6, <2>2 DEF LiteralRound
  <2> QED
    BY <1>2, <2>1, <2>3 DEF Quoting, Within
<1>7. CASE ~w.escaped /\ w.single
  <2>1. LiteralRound(u, w, c)
    BY <1>1, <1>7 DEF IsLiteral
  <2>2. ~u.escaped /\ (u.double <=> w.double) /\ (u.single <=> c # "'")
    BY <1>2, <1>7, <2>1 DEF LiteralRound
  <2>3. r.within = "'" /\ ~r.escaped
    BY <1>2, <1>7 DEF Within
  <2>4. s.escaped = FALSE /\ s.within = IF c = "'" THEN "none" ELSE "'"
    BY <1>3, <1>5, <2>3
  <2> QED
    BY <1>2, <1>7, <2>2, <2>4 DEF Quoting, Within
<1>8. CASE ~w.escaped /\ ~w.single /\ IsLiteral(w, e)
  <2>1. LiteralRound(u, w, c)
    BY <1>1, <1>8
  <2>2. /\ u.escaped <=> c = "\\"
        /\ u.double <=> IF c = "\"" THEN ~w.double ELSE w.double
        /\ u.single <=> c = "'" /\ ~w.double
    BY <1>8, <2>1 DEF LiteralRound
  <2>3. r.within = (IF w.double THEN "\"" ELSE "none") /\ ~r.escaped
    BY <1>2, <1>8 DEF Within
  <2>4. CASE w.double
    <3>1. r.within = "\""
      BY <2>3, <2>4
    <3>2. CASE c = "\""
      BY <1>3, <2>2, <2>3, <2>4, <3>1, <3>2 DEF Quoting, Within
    <3>3. CASE c = "\\"
      BY <1>3, <2>2, <2>3, <2>4, <3>1, <3>3 DEF Quoting, Within
    <3>4. CASE c # "\"" /\ c # "\\"
      <4>1. s.within = r.within /\ s.escaped = FALSE
        BY <1>3, <1>5, <2>3, <3>1, <3>4
      <4> QED
        BY <2>2, <2>4, <3>1, <3>4, <4>1 DEF Quoting, Within
    <3> QED
      BY <3>2, <3>3, <3>4
  <2>5. CASE ~w.double
    <3>1. r.within = "none"
      BY <2>3, <2>5
    <3>2. CASE c \in {"'", "\""}
      BY <1>3, <2>2, <2>3, <2>5, <3>1, <3>2 DEF Quoting, Within
    <3>3. CASE c = "\\"
      BY <1>3, <2>2, <2>3, <2>5, <3>1, <3>3 DEF Quoting, Within
    <3>4. CASE c \notin {"'", "\""} /\ c # "\\"
      <4>1. s.within = r.within /\ s.escaped = FALSE
        BY <1>3, <1>5, <2>3, <3>1, <3>4
      <4> QED
        BY <2>2, <2>5, <3>1, <3>4, <4>1 DEF Quoting, Within
    <3> QED
      BY <3>2, <3>3, <3>4
  <2> QED
    BY <2>4, <2>5
<1>9. CASE ~IsLiteral(w, e)
  <2>1. KeepsQuotes(u, w) /\ c = "$" /\ ~w.escaped /\ ~w.single
    BY <1>1, <1>4, <1>9
  <2>2. ~r.escaped /\ r.within = (IF w.double THEN "\"" ELSE "none")
    BY <1>2, <2>1 DEF Within
  <2>3. s.within = r.within /\ s.escaped = FALSE
    BY <1>3, <1>5, <2>1, <2>2
  <2> QED
    BY <1>2, <2>1, <2>2, <2>3 DEF Quoting, Within, KeepsQuotes
<1> QED
  BY <1>6, <1>7, <1>8, <1>9

\* nextChar has come to where the reference is, in front of the same element.
ScanAgrees(p, u, r) == /\ p.chars = r.chars
                       /\ p.single <=> u.single
                       /\ p.double <=> u.double
                       /\ ~p.escaped

\* A sequence of one element appended.
LEMMA OneMore ==
  ASSUME NEW S, NEW chars \in Seq(S), NEW x \in S
  PROVE  chars \o <<x>> = Append(chars, x)
OBVIOUS

\* The state s of the reference behind one character, and t of nextChar.
LEMMA SameCharacter ==
  ASSUME NEW C, NEW substs, NEW r \in ReadStates(C), NEW p \in ScanStates(C, substs),
         NEW c \in Texts(C), NEW literal \in BOOLEAN, NEW s, NEW t,
         p.chars = r.chars, Puts(s, r, <<[char |-> c, literal |-> literal]>>),
         KeepsChar(t, p, c), literal <=> p.single \/ p.double \/ p.escaped
  PROVE  t.chars = s.chars
<1> DEFINE x == [char |-> c, literal |-> literal]
<1>1. x \in PatternChars(C) /\ r.chars \in Seq(PatternChars(C))
  BY DEF PatternChars, ReadStates
<1>2. s.chars = r.chars \o <<x>>
  BY DEF Puts
<1>3. t.chars = Append(p.chars, x)
  <2>1. PICK l \in BOOLEAN : /\ t.chars = Append(p.chars, [char |-> c, literal |-> l])
                             /\ l <=> p.single \/ p.double \/ p.escaped
    BY DEF KeepsChar
  <2>2. l = literal
    BY <2>1
  <2> QED
    BY <2>1, <2>2
<1> HIDE DEF x
<1> QED
  BY <1>1, <1>2, <1>3, OneMore

\* One character that no backslash quotes, and is none.
LEMMA PlainStep ==
  ASSUME NEW C, NEW substs, NEW w \in WordStates(C), NEW r \in ReadStates(C),
         NEW p \in ScanStates(C, substs), NEW e \in NarrowElements(C),
         Quoting(w, r), ScanAgrees(p, w, r), ~w.escaped, IsLiteral(w, e),
         e.char # "\\" \/ w.single,
         NEW u, LiteralRound(u, w, e.char), NEW s, Reads(s, r, e), NEW t, NEW next,
         IsQuote(p, e.char, next) => ReadsQuote(t, p, e.char, next),
         ~IsQuote(p, e.char, next) => KeepsChar(t, p, e.char)
  PROVE  ScanAgrees(t, u, s) /\ ~u.escaped
<1> PICK c : c = e.char
  OBVIOUS
<1>1. c \in Texts(C)
  BY ElementIs
<1>2. /\ ~r.escaped /\ r.within = Within(w) /\ ~ (w.single /\ w.double)
      /\ p.chars = r.chars /\ (p.single <=> w.single) /\ (p.double <=> w.double)
      /\ ~p.escaped
  BY DEF Quoting, ScanAgrees
<1>3. /\ ~u.escaped
      /\ u.single <=> IF c = "'" /\ ~w.double THEN ~w.single ELSE w.single
      /\ u.double <=> IF c = "\"" /\ ~w.single THEN ~w.double ELSE w.double
  BY DEF LiteralRound
<1>4. /\ r.within # "none" /\ c = r.within => s.chars = r.chars
      /\ r.within = "'" /\ c # "'" => Puts(s, r, <<[char |-> c, literal |-> TRUE]>>)
      /\ r.within = "none" /\ c \in {"'", "\""} => s.chars = r.chars
      /\ /\ c # "\\"
         /\ \/ r.within = "none" /\ c \notin {"'", "\""}
            \/ r.within = "\"" /\ c # "\""
         => ReadsPlain(s, r, e)
  BY <1>2 DEF Reads
<1>5. IsQuote(p, c, next) <=> (c = "'" /\ ~w.double) \/ (c = "\"" /\ ~w.single)
  BY <1>2 DEF IsQuote, Escapes
<1>6. CASE IsQuote(p, c, next)
  <2>1. /\ t.chars = p.chars /\ ~t.escaped
        /\ t.single <=> IF c = "'" THEN ~p.single ELSE p.single
        /\ t.double <=> IF c = "\"" THEN ~p.double ELSE p.double
    BY <1>5, <1>6 DEF ReadsQuote
  <2>2. s.chars = r.chars
    BY <1>2, <1>4, <1>5, <1>6 DEF Within
  <2>3. (t.single <=> u.single) /\ (t.double <=> u.double)
    BY <1>2, <1>3, <1>5, <1>6, <2>1
  <2> QED
    BY <1>2, <1>3, <2>1, <2>2, <2>3 DEF ScanAgrees
<1>7. CASE ~IsQuote(p, c, next)
  <2>1. KeepsChar(t, p, c)
    BY <1>7
  <2>2. (t.single <=> p.single) /\ (t.double <=> p.double) /\ ~t.escaped
    BY <2>1 DEF KeepsChar
  <2>3. (t.single <=> u.single) /\ (t.double <=> u.double)
    BY <1>2, <1>3, <1>5, <1>7, <2>2
  <2>4. ASSUME NEW literal \in BOOLEAN, literal <=> w.single \/ w.double,
               Puts(s, r, <<[char |-> c, literal |-> literal]>>)
        PROVE  t.chars = s.chars
    <3>1. literal <=> p.single \/ p.double \/ p.escaped
      BY <1>2, <2>4
    <3> QED
      BY <1>1, <1>2, <2>1, <2>4, <3>1, SameCharacter
  <2>5. t.chars = s.chars
    <3>1. CASE w.single
      <4>1. r.within = "'" /\ c # "'"
        BY <1>2, <1>5, <1>7, <3>1 DEF Within
      <4>2. Puts(s, r, <<[char |-> c, literal |-> TRUE]>>)
        BY <1>4, <4>1
      <4> QED
        BY <2>4, <3>1, <4>2
    <3>2. CASE ~w.single
      <4>1. e.kind = "char" /\ c # "\\"
        BY <3>2 DEF IsLiteral
      <4>2. ReadsPlain(s, r, e)
        BY <1>2, <1>4, <1>5, <1>7, <3>2, <4>1 DEF Within
      <4> DEFINE literal == r.within # "none"
      <4>3. Puts(s, r, <<[char |-> c, literal |-> literal]>>)
        BY <4>1, <4>2 DEF ReadsPlain
      <4>4. literal \in BOOLEAN /\ (literal <=> w.single \/ w.double)
        BY <1>2, <3>2 DEF Within
      <4> HIDE DEF literal
      <4> QED
        BY <2>4, <4>3, <4>4
    <3> QED
      BY <3>1, <3>2
  <2> QED
    BY <1>3, <2>2, <2>3, <2>5 DEF ScanAgrees
<1> QED
  BY <1>6, <1>7

\* nextChar reads the backslash with q and the character c with t.
ReadsTwo(t, q, p, c, next) ==
    /\ IsQuote(p, "\\", c) => ReadsQuote(q, p, "\\", c)
    /\ ~IsQuote(p, "\\", c) => KeepsChar(q, p, "\\")
    /\ q.escaped \/ ~IsQuote(q, c, next) => KeepsChar(t, q, c)

\* One character behind a backslash.
LEMMA EscapedStep ==
  ASSUME NEW C, NEW substs, NEW w \in WordStates(C), NEW r \in ReadStates(C),
         NEW p \in ScanStates(C, substs), NEW q \in ScanStates(C, substs),
         NEW c \in Texts(C),
         Quoting(w, r), ScanAgrees(p, w, r), w.escaped,
         NEW u, LiteralRound(u, w, c), NEW s, ReadsEscaped(s, r, c),
         NEW t, NEW next, ReadsTwo(t, q, p, c, next)
  PROVE  ScanAgrees(t, u, s) /\ ~u.escaped
<1>q. /\ IsQuote(p, "\\", c) => ReadsQuote(q, p, "\\", c)
      /\ ~IsQuote(p, "\\", c) => KeepsChar(q, p, "\\")
      /\ q.escaped \/ ~IsQuote(q, c, next) => KeepsChar(t, q, c)
  BY DEF ReadsTwo
<1>1. /\ r.within = Within(w) /\ ~w.single
      /\ p.chars = r.chars /\ ~p.single /\ (p.double <=> w.double)
      /\ ~p.escaped
  BY DEF Quoting, ScanAgrees
<1>2. ~u.escaped /\ ~u.single /\ (u.double <=> w.double)
  BY <1>1 DEF LiteralRound
<1>3. IsQuote(p, "\\", c) <=> (w.double => IsSpecialInDoubleQuotes(c))
  BY <1>1 DEF IsQuote, Escapes
<1>4. r.within = "\"" <=> w.double
  BY <1>1 DEF Within
<1>5. CASE w.double => IsSpecialInDoubleQuotes(c)
  <2>1. /\ q.chars = p.chars /\ q.escaped /\ (q.single <=> p.single)
        /\ (q.double <=> p.double)
    BY <1>q, <1>3, <1>5 DEF ReadsQuote
  <2>2. KeepsChar(t, q, c)
    BY <1>q, <2>1
  <2>3. Puts(s, r, <<[char |-> c, literal |-> TRUE]>>)
    BY <1>4, <1>5 DEF ReadsEscaped
  <2>4. t.chars = s.chars
    <3> DEFINE literal == TRUE
    <3>1. q.chars = r.chars /\ literal \in BOOLEAN
          /\ (literal <=> q.single \/ q.double \/ q.escaped)
          /\ Puts(s, r, <<[char |-> c, literal |-> literal]>>)
      BY <1>1, <2>1, <2>3
    <3> HIDE DEF literal
    <3> QED
      BY <2>2, <3>1, SameCharacter
  <2>5. ~t.escaped /\ (t.single <=> q.single) /\ (t.double <=> q.double)
    BY <2>2 DEF KeepsChar
  <2> QED
    BY <1>1, <1>2, <2>1, <2>4, <2>5 DEF ScanAgrees
<1>6. CASE ~ (w.double => IsSpecialInDoubleQuotes(c))
  <2> DEFINE backslash == [char |-> "\\", literal |-> TRUE]
             x == [char |-> c, literal |-> TRUE]
  <2>1. KeepsChar(q, p, "\\")
    BY <1>q, <1>3, <1>6
  <2>2. ~q.escaped /\ ~q.single /\ q.double
    BY <1>1, <1>6, <2>1 DEF KeepsChar
  <2>3. ~IsQuote(q, c, next)
    BY <1>6, <2>2 DEF IsQuote, IsSpecialInDoubleQuotes
  <2>4. KeepsChar(t, q, c)
    BY <1>q, <2>3
  <2>5. ~t.escaped /\ (t.single <=> q.single) /\ (t.double <=> q.double)
    BY <2>4 DEF KeepsChar
  <2>6. s.chars = r.chars \o <<backslash, x>>
    BY <1>4, <1>6 DEF ReadsEscaped, Puts
  <2>7. q.chars = Append(p.chars, backslash)
    BY <1>1, <1>6, <2>1 DEF KeepsChar
  <2>8. t.chars = Append(q.chars, x)
    BY <2>2, <2>4 DEF KeepsChar
  <2>9. /\ r.chars \in Seq(PatternChars(C))
        /\ backslash \in PatternChars(C) /\ x \in PatternChars(C)
    BY DEF ReadStates, PatternChars, Texts
  <2> HIDE DEF backslash, x
  <2>10. Append(Append(r.chars, backslash), x) = r.chars \o <<backslash, x>>
    BY <2>9
  <2> QED
    BY <1>1, <1>2, <1>6, <2>2, <2>5, <2>6, <2>7, <2>8, <2>10 DEF ScanAgrees
<1> QED
  BY <1>5, <1>6

\* The first j characters of a value.
FirstChars(value, j, literal) ==
    [i \in 1..j |-> [char |-> value[i], literal |-> literal]]

\* The first j characters of a value behind those of the pattern.
LEMMA OneMoreOfValue ==
  ASSUME NEW C, NEW chars \in Seq(PatternChars(C)), NEW value \in Seq(C),
         NEW literal \in BOOLEAN, NEW j \in 1..Len(value)
  PROVE  Append(chars \o FirstChars(value, j - 1, literal),
                [char |-> value[j], literal |-> literal])
           = chars \o FirstChars(value, j, literal)
<1> DEFINE x(i) == [char |-> value[i], literal |-> literal]
           old == FirstChars(value, j - 1, literal)
           new == FirstChars(value, j, literal)
<1>1. \A i \in 1..Len(value) : x(i) \in PatternChars(C)
  BY DEF PatternChars, Texts
<1>2. j - 1 \in Nat /\ j \in Nat /\ Len(value) \in Nat
  OBVIOUS
<1>3. old = [i \in 1..(j - 1) |-> x(i)] /\ new = [i \in 1..j |-> x(i)]
  BY DEF FirstChars
<1> HIDE DEF x, old, new
<1>4. old \in Seq(PatternChars(C)) /\ new \in Seq(PatternChars(C))
      /\ x(j) \in PatternChars(C)
  BY <1>1, <1>2, <1>3
<1>5. Len(old) = j - 1 /\ Len(new) = j
  BY <1>2, <1>3
<1>6. Append(old, x(j)) = new
  BY <1>2, <1>3, <1>4, <1>5
<1>7. Append(chars \o old, x(j)) = chars \o Append(old, x(j))
  <2> DEFINE T == Seq(PatternChars(C))
  <2>1. \A a \in T : \A y \in PatternChars(C) : Append(a, y) = a \o <<y>>
    BY AppendIsConcat
  <2>2. chars \o old \in T /\ <<x(j)>> \in T
    BY <1>4
  <2>3. (chars \o old) \o <<x(j)>> = chars \o (old \o <<x(j)>>)
    BY <1>4, <2>2, ConcatAssociative, SMTT(20)
  <2> QED
    BY <1>4, <2>1, <2>2, <2>3
<1> QED
  BY <1>6, <1>7 DEF x, old, new

\* The value of an expansion stands at m, and its quotes are known to be its own.
IsValueAt(text, substs, m, value) ==
    /\ m + Len(value) <= Len(text)
    /\ \A j \in 1..Len(value) : text[m + j] = value[j] /\ Inside(substs, m + j - 1)
    /\ Len(substs) <= 1 \/ \A j \in 1..Len(value) : value[j] \notin Quotes

\* nextChar has come from p to t, behind the value.
KeepsValue(t, p, value, literal) ==
    /\ t.chars = p.chars \o ValueChars(value, literal)
    /\ t.single <=> p.single
    /\ t.double <=> p.double
    /\ ~t.escaped

\* The characters of a value are kept, whatever they are.
LEMMA ValueScanned ==
  ASSUME NEW C, NEW text \in Seq(Texts(C)), NEW substs \in Seq(Infos),
         NEW P, P = Scanned(text, 0, substs), NEW value \in Seq(C), NEW m \in Nat,
         IsValueAt(text, substs, m, value), ~P[m].escaped, Searched(P[m], substs, m),
         NEW literal \in BOOLEAN, literal <=> P[m].single \/ P[m].double,
         NEW t, t = P[m + Len(value)]
  PROVE  KeepsValue(t, P[m], value, literal) /\ Searched(t, substs, m + Len(value))
<1> USE DEF IsValueAt
<1> DEFINE n == Len(value)
           upTo(j) == FirstChars(value, j, literal)
           Kept(j) == /\ P[m + j].chars = P[m].chars \o upTo(j)
                      /\ P[m + j].single <=> P[m].single
                      /\ P[m + j].double <=> P[m].double
                      /\ ~P[m + j].escaped
                      /\ Searched(P[m + j], substs, m + j)
           S == {j \in 0..n : Kept(j)}
<1>1. n \in Nat /\ Len(text) \in Nat /\ m \in 0..Len(text) /\ m + 0 = m
  OBVIOUS
<1>2. P[m].chars \in Seq(PatternChars(C))
  <2>1. P[m] \in ScanStates(C, substs)
    BY <1>1, ScannedIs
  <2> QED
    BY <2>1 DEF ScanStates
<1>3. 0 \in S
  <2>1. upTo(0) = << >>
    BY DEF FirstChars
  <2>2. P[m].chars \o << >> = P[m].chars
    <3>1. \A x \in Seq(PatternChars(C)) : x \o << >> = x
      OBVIOUS
    <3> QED
      BY <1>2, <3>1
  <2>3. P[m + 0] = P[m] /\ m + 0 = m /\ 0 \in 0..n
    BY <1>1
  <2> HIDE DEF upTo
  <2>4. Kept(0)
    BY <2>1, <2>2, <2>3
  <2> HIDE DEF Kept
  <2> QED
    BY <2>3, <2>4
<1>4. ASSUME NEW j \in 1..n, j - 1 \in S PROVE j \in S
  <2> DEFINE i == m + j - 1
             p == P[i]
             q == P[i + 1]
             c == value[j]
  <2>1. /\ i + 1 \in 1..Len(text) /\ i \in 0..Len(text) /\ i \in 0..(Len(text) - 1)
        /\ m + (j - 1) = i /\ i + 1 = m + j /\ j \in 0..n
    BY <1>1
  <2>2. Kept(j - 1)
    BY <1>4
  <2> HIDE DEF S
  <2>3. /\ p.chars = P[m].chars \o upTo(j - 1)
        /\ p.single <=> P[m].single
        /\ p.double <=> P[m].double
        /\ ~p.escaped
        /\ Searched(p, substs, i)
    BY <2>1, <2>2
  <2>4. text[i + 1] = c /\ Inside(substs, i) /\ (Len(substs) <= 1 \/ c \notin Quotes)
    BY <2>1
  <2>5. p \in ScanStates(C, substs) /\ q = NextChar(p, text, i, 0, substs)
    <3>1. (i + 1) - 1 = i
      BY <2>1
    <3>2. P[i + 1] = NextChar(P[(i + 1) - 1], text, (i + 1) - 1, 0, substs)
      BY <2>1, ScannedIs
    <3>3. P[i] \in ScanStates(C, substs)
      BY <2>1, ScannedIs
    <3> QED
      BY <3>1, <3>2, <3>3
  <2> HIDE DEF i, p, q, c
  <2>6. IsKnown(p, substs, i, c)
    BY <2>3, <2>4 DEF IsKnown
  <2>7. KeepsChar(q, p, c) /\ Searched(q, substs, i + 1)
    BY <2>1, <2>4, <2>5, <2>6, NextCharIs
  <2>8. q.chars = P[m].chars \o upTo(j)
    <3>1. PICK l \in BOOLEAN : /\ q.chars = Append(p.chars, [char |-> c, literal |-> l])
                               /\ l <=> p.single \/ p.double \/ p.escaped
      BY <2>7 DEF KeepsChar
    <3>2. l = literal
      BY <2>3, <3>1
    <3>3. Append(P[m].chars \o upTo(j - 1), [char |-> c, literal |-> literal])
             = P[m].chars \o upTo(j)
      BY <1>2, OneMoreOfValue, ZenonT(40) DEF c
    <3> HIDE DEF upTo
    <3> QED
      BY <2>3, <3>1, <3>2, <3>3
  <2>9. (q.single <=> P[m].single) /\ (q.double <=> P[m].double) /\ ~q.escaped
    BY <2>3, <2>7 DEF KeepsChar
  <2> HIDE DEF upTo
  <2>10. q = P[m + j] /\ i + 1 = m + j
    BY <2>1 DEF q
  <2>11. Kept(j)
    BY <2>7, <2>8, <2>9, <2>10
  <2> QED
    BY <2>1, <2>11 DEF S
<1> HIDE DEF S
<1>5. n \in S
  <2>1. 0..n \subseteq S
    BY <1>1, <1>3, <1>4, UpTo
  <2> QED
    BY <1>1, <2>1
<1> QED
  BY <1>5 DEF S, ValueChars, FirstChars, KeepsValue

\* One round of nextChar for a character that is written in the word.
LEMMA ScanStep ==
  ASSUME NEW C, NEW text \in Seq(Texts(C)), NEW substs \in Seq(Infos),
         NEW P, P = Scanned(text, 0, substs), NEW i \in 0..(Len(text) - 1),
         NEW c, c = text[i + 1], NEW next, next = At(text, i + 1),
         Searched(P[i], substs, i), ~Inside(substs, i)
  PROVE  /\ P[i] \in ScanStates(C, substs)
         /\ P[i + 1] \in ScanStates(C, substs)
         /\ Searched(P[i + 1], substs, i + 1)
         /\ P[i].escaped \/ ~IsQuote(P[i], c, next) => KeepsChar(P[i + 1], P[i], c)
         /\ ~P[i].escaped /\ IsQuote(P[i], c, next) => ReadsQuote(P[i + 1], P[i], c, next)
<1>1. /\ i + 1 \in 1..Len(text) /\ i \in 0..Len(text) /\ (i + 1) - 1 = i
      /\ i + 1 \in 0..Len(text)
  OBVIOUS
<1>2. P[i] \in ScanStates(C, substs) /\ P[i + 1] \in ScanStates(C, substs)
  BY <1>1, ScannedIs
<1>3. P[i + 1] = NextChar(P[i], text, i, 0, substs)
  <2>1. P[i + 1] = NextChar(P[(i + 1) - 1], text, (i + 1) - 1, 0, substs)
    BY <1>1, ScannedIs
  <2> QED
    BY <1>1, <2>1
<1>4. IsKnown(P[i], substs, i, c)
  BY DEF IsKnown
<1> DEFINE p == P[i]
           q == P[i + 1]
<1> HIDE DEF p, q
<1>5. p \in ScanStates(C, substs) /\ q = NextChar(p, text, i, 0, substs)
      /\ IsKnown(p, substs, i, c)
  BY <1>2, <1>3, <1>4 DEF p, q
<1>6. /\ Searched(q, substs, i + 1)
      /\ p.escaped \/ Inside(substs, i) \/ ~IsQuote(p, c, next) => KeepsChar(q, p, c)
      /\ ~p.escaped /\ ~Inside(substs, i) /\ IsQuote(p, c, next) => ReadsQuote(q, p, c, next)
  BY <1>5, NextCharIs
<1> QED
  BY <1>2, <1>6 DEF p, q

(* After k elements of the word, nextChar is in step with the reference. The
   backslash of an escaped element is read with the next character, which says
   whether it is one. *)
InStep(u, r, P, end) ==
    LET m == Len(u.text)
    IN  /\ Quoting(u, r)
        /\ ~u.escaped => ScanAgrees(P[m], u, r) /\ Searched(P[m], end.substs, m)
        /\ u.escaped => /\ m >= 1
                        /\ end.text[m] = "\\"
                        /\ ~Inside(end.substs, m - 1)
                        /\ ScanAgrees(P[m - 1], u, r)
                        /\ Searched(P[m - 1], end.substs, m - 1)

\* The word has one substitution, or the values of its expansions no quotes.
KnownQuotes(word, substs) ==
    \/ Len(substs) <= 1
    \/ \A k \in 1..Len(word) : word[k].values # << >> =>
          \A j \in 1..Len(word[k].values[1]) : word[k].values[1][j] \notin Quotes

(* The step of the induction: nextChar stays in step over the characters that an
   element of the word has become. *)
LEMMA WordStep ==
  ASSUME NEW C, NEW word \in Seq(NarrowElements(C)),
         NEW noFieldSplit \in BOOLEAN,
         NEW U, U = Substituted(word, noFieldSplit), NEW R, R = F!Reading(word),
         NEW end, end = U[Len(word)], NEW P, P = Scanned(end.text, 0, end.substs),
         KnownQuotes(word, end.substs), NEW k \in 1..Len(word),
         InStep(U[k - 1], R[k - 1], P, end)
  PROVE  InStep(U[k], R[k], P, end)
<1> PICK w, u, r, s, e, m : /\ w = U[k - 1] /\ u = U[k] /\ r = R[k - 1] /\ s = R[k]
                            /\ e = word[k] /\ m = Len(w.text)
  OBVIOUS
<1> DEFINE c == e.char
           text == end.text
           substs == end.substs
<1>1. /\ k - 1 \in 0..Len(word) /\ k \in 0..Len(word) /\ Len(word) \in 0..Len(word)
      /\ e \in NarrowElements(C)
  OBVIOUS
<1>2. /\ w \in WordStates(C) /\ u \in WordStates(C) /\ end \in WordStates(C)
      /\ u = DoSubstitution(w, e)
  <2>1. /\ U \in [0..Len(word) -> WordStates(C)]
        /\ \A i \in 1..Len(word) : U[i] = DoSubstitution(U[i - 1], word[i])
    BY SubstitutedIs
  <2> QED
    BY <1>1, <2>1
<1>3. /\ r \in ReadStates(C) /\ s \in ReadStates(C) /\ s = F!Read(r, e)
  BY <1>1, ReadingIs
<1>4. InStep(w, r, P, end)
  OBVIOUS
<1>5. /\ text \in Seq(Texts(C)) /\ substs \in Seq(Infos) /\ Len(text) \in Nat
      /\ m \in Nat /\ Len(substs) \in Nat
  BY <1>2, StateIs
<1>6. /\ IsLiteral(w, e) =>
           /\ Len(u.text) = m + 1
           /\ m + 1 \in 1..Len(text)
           /\ text[m + 1] = c
           /\ ~Inside(substs, m)
      /\ ~IsLiteral(w, e) /\ e.values = << >> => Len(u.text) = m
      /\ ~IsLiteral(w, e) /\ e.values # << >> =>
           /\ Len(u.text) = m + Len(e.values[1])
           /\ Len(u.text) <= Len(text)
           /\ \A j \in 1..Len(e.values[1]) :
                 /\ text[m + j] = e.values[1][j]
                 /\ Inside(substs, m + j - 1)
  <2>1. RoundAdds(u, w, e, text, substs)
    BY RoundInText
  <2> QED
    BY <2>1 DEF RoundAdds
<1>7. e.values # << >> =>
         \/ Len(substs) <= 1
         \/ \A j \in 1..Len(e.values[1]) : e.values[1][j] \notin Quotes
  BY <1>1 DEF KnownQuotes
<1>8. Reads(s, r, e) /\ (IsLiteral(w, e) => LiteralRound(u, w, c))
  <2>1. Reads(s, r, e)
    BY <1>1, <1>3, ReadIs
  <2> QED
    BY <1>1, <1>2, <2>1, RoundIs
<1>9. Quoting(w, r) /\ Quoting(u, s)
  <2>1. Quoting(w, r)
    BY <1>4 DEF InStep
  <2> QED
    BY <1>1, <1>2, <1>3, <2>1, QuotingStep
<1>10. c \in Texts(C) /\ e.values \in Seq(Seq(C)) /\ (e.kind # "char" => c = "$")
  BY <1>1, ElementIs
<1> HIDE DEF c, text, substs
<1>11. CASE w.escaped
  <2> DEFINE p == P[m - 1]
             q == P[m]
             t == P[m + 1]
             next == At(text, m + 1)
  <2>1. /\ m >= 1 /\ text[m] = "\\" /\ ~Inside(substs, m - 1)
        /\ ScanAgrees(p, w, r) /\ Searched(p, substs, m - 1)
    BY <1>4, <1>11 DEF InStep, text, substs
  <2>2. LiteralRound(u, w, c) /\ IsLiteral(w, e)
    BY <1>8, <1>11 DEF IsLiteral
  <2>3. /\ Len(u.text) = m + 1 /\ m + 1 \in 1..Len(text) /\ text[m + 1] = c
        /\ ~Inside(substs, m)
    BY <1>6, <2>2
  <2>4. /\ m - 1 \in 0..(Len(text) - 1) /\ (m - 1) + 1 = m /\ At(text, m) = c
        /\ m \in 0..(Len(text) - 1)
    BY <1>5, <2>1, <2>3 DEF At
  <2>5. /\ p \in ScanStates(C, substs) /\ q \in ScanStates(C, substs)
        /\ Searched(q, substs, m)
        /\ p.escaped \/ ~IsQuote(p, "\\", c) => KeepsChar(q, p, "\\")
        /\ ~p.escaped /\ IsQuote(p, "\\", c) => ReadsQuote(q, p, "\\", c)
    <3> PICK i : i = m - 1
      OBVIOUS
    <3>1. /\ i \in 0..(Len(text) - 1) /\ i + 1 = m /\ "\\" = text[i + 1]
          /\ c = At(text, i + 1) /\ Searched(P[i], substs, i) /\ ~Inside(substs, i)
          /\ P = Scanned(text, 0, substs)
      BY <2>1, <2>4 DEF text, substs
    <3>2. /\ P[i] \in ScanStates(C, substs)
          /\ P[i + 1] \in ScanStates(C, substs)
          /\ Searched(P[i + 1], substs, i + 1)
          /\ P[i].escaped \/ ~IsQuote(P[i], "\\", c) => KeepsChar(P[i + 1], P[i], "\\")
          /\ ~P[i].escaped /\ IsQuote(P[i], "\\", c) => ReadsQuote(P[i + 1], P[i], "\\", c)
      BY <1>5, <3>1, ScanStep
    <3> QED
      BY <3>1, <3>2
  <2>6. /\ Searched(t, substs, m + 1)
        /\ q.escaped \/ ~IsQuote(q, c, next) => KeepsChar(t, q, c)
    <3>1. P = Scanned(text, 0, substs)
      BY DEF text, substs
    <3> QED
      BY <1>5, <2>3, <2>4, <2>5, <3>1, ScanStep
  <2>7. ~p.escaped
    BY <2>1 DEF ScanAgrees
  <2> HIDE DEF p, q, next
  <2>8. ReadsEscaped(s, r, c)
    BY <1>8, <1>9, <1>11 DEF Reads, Quoting, c
  <2>9. ScanAgrees(t, u, s) /\ ~u.escaped
    <3> HIDE DEF t
    <3>1. ReadsTwo(t, q, p, c, next)
      BY <2>5, <2>6, <2>7 DEF ReadsTwo
    <3>2. p \in ScanStates(C, substs) /\ q \in ScanStates(C, substs)
      BY <2>5
    <3>3. ScanAgrees(p, w, r) /\ Quoting(w, r) /\ LiteralRound(u, w, c) /\ c \in Texts(C)
      BY <1>9, <1>10, <2>1, <2>2
    <3> QED
      BY <1>2, <1>3, <1>11, <2>8, <3>1, <3>2, <3>3, EscapedStep
  <2> QED
    BY <1>9, <2>3, <2>6, <2>9 DEF InStep, substs
<1>12. CASE ~w.escaped
  <2> DEFINE p == P[m]
             quoted == r.within # "none"
  <2>1. ScanAgrees(p, w, r) /\ Searched(p, substs, m)
    BY <1>4, <1>12 DEF InStep, substs
  <2>2. ~r.escaped /\ r.within = Within(w)
    BY <1>9, <1>12 DEF Quoting
  <2>3. CASE IsLiteral(w, e)
    <3>1. /\ Len(u.text) = m + 1 /\ m + 1 \in 1..Len(text) /\ text[m + 1] = c
          /\ ~Inside(substs, m)
      BY <1>6, <2>3
    <3>2. LiteralRound(u, w, c)
      BY <1>8, <2>3
    <3>3. CASE c = "\\" /\ ~w.single
      <4>1. u.escaped /\ (u.single <=> w.single) /\ (u.double <=> w.double)
        BY <1>12, <3>2, <3>3 DEF LiteralRound
      <4>2. s.chars = r.chars
        BY <1>8, <2>2, <3>3 DEF Reads, Within, c
      <4>3. ScanAgrees(p, u, s)
        BY <2>1, <4>1, <4>2 DEF ScanAgrees
      <4>4. m + 1 >= 1 /\ (m + 1) - 1 = m
        BY <1>5
      <4> QED
        BY <1>9, <2>1, <3>1, <3>3, <4>1, <4>3, <4>4 DEF InStep, text, substs
    <3>4. CASE c # "\\" \/ w.single
      <4> DEFINE t == P[m + 1]
                 next == At(text, m + 1)
      <4>1. m \in 0..(Len(text) - 1) /\ P = Scanned(text, 0, substs)
        BY <1>5, <3>1 DEF text, substs
      <4>2. /\ p \in ScanStates(C, substs)
            /\ Searched(t, substs, m + 1)
            /\ p.escaped \/ ~IsQuote(p, c, next) => KeepsChar(t, p, c)
            /\ ~p.escaped /\ IsQuote(p, c, next) => ReadsQuote(t, p, c, next)
        BY <1>5, <2>1, <3>1, <4>1, ScanStep
      <4>3. ~p.escaped
        BY <2>1 DEF ScanAgrees
      <4> HIDE DEF p, t, next
      <4>4. ScanAgrees(t, u, s) /\ ~u.escaped
        <5>1. c = e.char
          BY DEF c
        <5> QED
          BY <1>1, <1>2, <1>3, <1>8, <1>9, <1>12, <2>1, <2>3, <3>2, <3>4, <4>2, <4>3,
             <5>1, PlainStep
      <4> QED
        BY <1>9, <3>1, <4>2, <4>4 DEF InStep, substs, t
    <3> QED
      BY <3>3, <3>4
  <2>4. CASE ~IsLiteral(w, e)
    <3>1. e.kind # "char" /\ ~w.single /\ c = "$"
      BY <1>10, <2>4 DEF IsLiteral
    <3>2. KeepsQuotes(u, w)
      BY <1>1, <1>2, <2>4, RoundIs
    <3>3. ReadsPlain(s, r, e)
      BY <1>8, <2>2, <3>1 DEF Reads, Within, c
    <3>4. s.chars = r.chars \o (IF e.values = << >> THEN << >>
                                ELSE ValueChars(e.values[1], quoted))
      BY <3>1, <3>3 DEF ReadsPlain, Puts
    <3>5. ~u.escaped /\ (u.single <=> w.single) /\ (u.double <=> w.double)
      BY <1>12, <3>2 DEF KeepsQuotes
    <3>6. CASE e.values = << >>
      <4>1. Len(u.text) = m
        BY <1>6, <2>4, <3>6
      <4>2. s.chars = r.chars
        <5>1. r.chars \in Seq(PatternChars(C))
          BY <1>3 DEF ReadStates
        <5>2. \A x \in Seq(PatternChars(C)) : x \o << >> = x
          OBVIOUS
        <5> QED
          BY <3>4, <3>6, <5>1, <5>2
      <4>3. ScanAgrees(p, u, s)
        BY <2>1, <3>5, <4>2 DEF ScanAgrees
      <4> QED
        BY <1>9, <2>1, <3>5, <4>1, <4>3 DEF InStep, substs
    <3>7. CASE e.values # << >>
      <4> PICK value, t : value = e.values[1] /\ t = P[m + Len(value)]
        OBVIOUS
      <4>1. value \in Seq(C)
        BY <1>1, <3>7, ElementIs
      <4>2. /\ Len(u.text) = m + Len(value) /\ m + Len(value) <= Len(text)
            /\ \A j \in 1..Len(value) : text[m + j] = value[j] /\ Inside(substs, m + j - 1)
            /\ Len(substs) <= 1 \/ \A j \in 1..Len(value) : value[j] \notin Quotes
        BY <1>6, <1>7, <2>4, <3>7
      <4>3. quoted \in BOOLEAN /\ (quoted <=> p.single \/ p.double) /\ ~p.escaped
        BY <2>1, <2>2, <3>1 DEF ScanAgrees, Within
      <4>4. P = Scanned(text, 0, substs)
        BY DEF text, substs
      <4> HIDE DEF quoted
      <4>5. /\ t.chars = P[m].chars \o ValueChars(value, quoted)
            /\ t.single <=> P[m].single
            /\ t.double <=> P[m].double
            /\ ~t.escaped
            /\ Searched(t, substs, m + Len(value))
        <5>1. /\ ~P[m].escaped /\ Searched(P[m], substs, m)
              /\ quoted <=> P[m].single \/ P[m].double
          BY <2>1, <4>3
        <5>2. quoted \in BOOLEAN /\ t = P[m + Len(value)]
          BY <4>3
        <5>3. IsValueAt(text, substs, m, value)
          BY <4>2 DEF IsValueAt
        <5> HIDE DEF p
        <5>4. KeepsValue(t, P[m], value, quoted) /\ Searched(t, substs, m + Len(value))
          BY <1>5, <4>1, <4>4, <5>1, <5>2, <5>3, ValueScanned, ZenonT(40)
        <5> QED
          BY <5>4 DEF KeepsValue
      <4>6. ScanAgrees(t, u, s)
        BY <2>1, <3>4, <3>5, <3>7, <4>5 DEF ScanAgrees
      <4> QED
        BY <1>9, <3>5, <4>2, <4>5, <4>6 DEF InStep, substs
    <3> QED
      BY <3>6, <3>7
  <2> QED
    BY <2>3, <2>4
<1> QED
  BY <1>11, <1>12

\* The quotes around each element do not depend on what is split.
LEMMA QuotingAll ==
  ASSUME NEW C, NEW word \in Seq(NarrowElements(C)), NEW noFieldSplit \in BOOLEAN,
         NEW U, U = Substituted(word, noFieldSplit), NEW R, R = F!Reading(word)
  PROVE  \A k \in 0..Len(word) : Quoting(U[k], R[k])
<1> DEFINE n == Len(word)
           S == {k \in 0..n : Quoting(U[k], R[k])}
<1>1. n \in Nat /\ \A k \in 1..n : k - 1 \in 0..n /\ k \in 0..n
  OBVIOUS
<1>2. /\ U \in [0..n -> WordStates(C)]
      /\ U[0] = StartOf(noFieldSplit)
      /\ \A k \in 1..n : U[k] = DoSubstitution(U[k - 1], word[k])
  BY SubstitutedIs
<1>3. /\ \A k \in 0..n : R[k] \in ReadStates(C)
      /\ R[0] = ReadStart
      /\ \A k \in 1..n : R[k] = F!Read(R[k - 1], word[k])
  BY ReadingIs
<1>4. \A k \in 1..n : word[k] \in NarrowElements(C)
  OBVIOUS
<1> HIDE DEF n
<1>5. 0 \in S
  <2> PICK u, r : u = U[0] /\ r = R[0]
    OBVIOUS
  <2>1. /\ ~u.escaped /\ ~u.single /\ ~u.double
        /\ ~r.escaped /\ r.within = "none"
    BY <1>2, <1>3 DEF StartOf, ReadStart
  <2>2. Quoting(u, r)
    BY <2>1 DEF Quoting, Within
  <2> QED
    BY <1>1, <2>2
<1>6. ASSUME NEW k \in 1..n, k - 1 \in S PROVE k \in S
  <2>1. /\ U[k - 1] \in WordStates(C) /\ R[k - 1] \in ReadStates(C)
        /\ word[k] \in NarrowElements(C) /\ k \in 0..n
        /\ U[k] = DoSubstitution(U[k - 1], word[k])
        /\ R[k] = F!Read(R[k - 1], word[k])
    BY <1>1, <1>2, <1>3, <1>4
  <2>2. Quoting(U[k - 1], R[k - 1])
    BY <1>6
  <2>3. Quoting(U[k], R[k])
    BY <2>1, <2>2, QuotingStep
  <2> QED
    BY <2>1, <2>3
<1> HIDE DEF S
<1>7. 0..n \subseteq S
  BY <1>1, <1>5, <1>6, UpTo
<1> QED
  BY <1>7 DEF S, n

\* A word with one expansion has one substitution.
LEMMA OneSubstitution ==
  ASSUME NEW C, NEW word \in Seq(NarrowElements(C)), NEW noFieldSplit \in BOOLEAN,
         NEW U, U = Substituted(word, noFieldSplit),
         \A i, j \in 1..Len(word) :
            word[i].kind # "char" /\ word[j].kind # "char" => i = j
  PROVE  Len(U[Len(word)].substs) <= 1
<1> DEFINE n == Len(word)
           count(k) == Len(U[k].substs)
           Few(k) == \/ count(k) = 0
                     \/ count(k) = 1 /\ \E i \in 1..k : word[i].kind # "char"
           S == {k \in 0..n : Few(k)}
<1>1. n \in Nat /\ \A k \in 1..n : k - 1 \in 0..n /\ k \in 0..n
  OBVIOUS
<1>2. /\ U \in [0..n -> WordStates(C)]
      /\ U[0] = StartOf(noFieldSplit)
      /\ \A k \in 1..n : U[k] = DoSubstitution(U[k - 1], word[k])
  BY SubstitutedIs
<1>3. 0 \in S
  BY <1>1, <1>2 DEF StartOf
<1>4. ASSUME NEW k \in 1..n, k - 1 \in S PROVE k \in S
  <2> PICK w, u, e : w = U[k - 1] /\ u = U[k] /\ e = word[k]
    OBVIOUS
  <2>1. /\ w \in WordStates(C) /\ u \in WordStates(C) /\ e \in NarrowElements(C)
        /\ u = DoSubstitution(w, e) /\ k \in 0..n
    BY <1>1, <1>2
  <2>2. Few(k - 1)
    BY <1>4
  <2>3. (k - 1) + 1 = k /\ \A i \in 1..(k - 1) : i \in 1..k /\ i \in 1..n /\ i # k
    BY <1>1
  <2> HIDE DEF S
  <2>4. CASE count(k) = count(k - 1)
    <3>1. Few(k)
      BY <2>2, <2>3, <2>4
    <3> QED
      BY <2>1, <3>1 DEF S
  <2>5. CASE ~IsLiteral(w, e) /\ e.values # << >>
    <3>1. e.kind # "char"
      BY <2>5 DEF IsLiteral
    <3>2. count(k - 1) = 0
      BY <2>2, <2>3, <3>1
    <3>3. Len(u.substs) = Len(w.substs) + 1
      <4>1. AddsValue(u, w, e.values[1])
        BY <2>1, <2>5, RoundIs
      <4>2. e.values[1] \in Seq(C)
        BY <2>1, <2>5, ElementIs
      <4> QED
        BY <2>1, <4>1, <4>2, ValueIs
    <3>4. Few(k)
      BY <2>3, <3>1, <3>2, <3>3
    <3> QED
      BY <2>1, <3>4 DEF S
  <2>6. ASSUME ~ (~IsLiteral(w, e) /\ e.values # << >>) PROVE count(k) = count(k - 1)
    <3>1. u.substs = w.substs
      <4>1. CASE IsLiteral(w, e)
        <5>1. LiteralRound(u, w, e.char)
          BY <2>1, <4>1, RoundIs
        <5> QED
          BY <5>1 DEF LiteralRound
      <4>2. CASE ~IsLiteral(w, e) /\ e.values = << >>
        BY <2>1, <4>2, RoundIs
      <4> QED
        BY <2>6, <4>1, <4>2
    <3> QED
      BY <3>1
  <2> QED
    BY <2>4, <2>5, <2>6
<1> HIDE DEF S
<1>5. 0..n \subseteq S
  BY <1>1, <1>3, <1>4, UpTo
<1>6. n \in S
  BY <1>1, <1>5
<1>7. Few(n)
  BY <1>6 DEF S
<1>8. count(n) <= 1
  <2> HIDE DEF count
  <2> QED
    BY <1>7
<1> QED
  BY <1>8

\* The elements of the words that PatternWords is about.
LEMMA KnownWord ==
  ASSUME NEW C, input \in Seq(WordElements(C)), QuotesAreKnown
  PROVE  /\ input \in Seq(NarrowElements(C))
         /\ \/ \A i, j \in 1..Len(input) :
                  input[i].kind # "char" /\ input[j].kind # "char" => i = j
            \/ \A k \in 1..Len(input) : input[k].values # << >> =>
                  \A j \in 1..Len(input[k].values[1]) :
                     input[k].values[1][j] \notin Quotes
<1>1. Len(input) \in Nat /\ DOMAIN input = 1..Len(input)
  OBVIOUS
<1>2. ASSUME NEW i \in 1..Len(input)
      PROVE  input[i] \in NarrowElements(C)
  <2> PICK e : e = input[i]
    OBVIOUS
  <2>1. e \in WordElements(C)
    OBVIOUS
  <2>2. CASE e.kind # "char"
    <3>1. i \in Expansions
      BY <1>1, <2>2 DEF Expansions, IsExpansion
    <3> QED
      BY <2>1, <3>1 DEF QuotesAreKnown, NarrowElements
  <2>3. CASE e.kind = "char"
    <3>1. \/ \E c \in C : e = Element(c, "char", << >>)
          \/ \E v \in Seq(C) : e = Element("$", "value", <<v>>)
          \/ \E vs \in Seq(Seq(C)) : e = Element("$", "at", vs)
          \/ \E vs \in Seq(Seq(C)) : e = Element("$", "star", vs)
      BY <2>1, Zenon DEF WordElements
    <3>2. e.values = << >>
      <4>1. \A c, kind, vs : Element(c, kind, vs).kind = kind
        BY DEF Element
      <4>2. \A c, kind : Element(c, kind, << >>).values = << >>
        BY DEF Element
      <4>3. CASE \E c \in C : e = Element(c, "char", << >>)
        BY <4>2, <4>3
      <4>4. CASE \E v \in Seq(C) : e = Element("$", "value", <<v>>)
        BY <2>3, <4>1, <4>4
      <4>5. CASE \E vs \in Seq(Seq(C)) : e = Element("$", "at", vs)
        BY <2>3, <4>1, <4>5
      <4>6. CASE \E vs \in Seq(Seq(C)) : e = Element("$", "star", vs)
        BY <2>3, <4>1, <4>6
      <4> QED
        BY <3>1, <4>3, <4>4, <4>5, <4>6
    <3> QED
      BY <2>1, <3>2 DEF NarrowElements
  <2> QED
    BY <2>2, <2>3
<1>3. input \in Seq(NarrowElements(C))
  BY <1>1, <1>2
<1>4. CASE \A i, j \in Expansions : i = j
  <2>1. \A i, j \in 1..Len(input) :
           input[i].kind # "char" /\ input[j].kind # "char" => i = j
    BY <1>1, <1>4 DEF Expansions, IsExpansion
  <2> QED
    BY <1>3, <2>1
<1>5. CASE \A c \in {"'", "\"", "\\"} : ~HasValue(c)
  <2>1. ASSUME NEW k \in 1..Len(input), input[k].values # << >>,
               NEW j \in 1..Len(input[k].values[1]),
               input[k].values[1][j] \in Quotes
        PROVE  FALSE
    <3> PICK e, v : e = input[k] /\ v = e.values[1]
      OBVIOUS
    <3>1. e \in NarrowElements(C)
      BY <1>2
    <3>2. /\ e.values \in Seq(Seq(C)) /\ e.kind # "char" /\ Len(e.values) = 1
          /\ v \in Seq(C)
      <4>1. /\ e.values \in Seq(Seq(C)) /\ e.kind # "char"
            /\ Len(e.values) \in {0, 1} /\ e.values # << >>
        BY <2>1, <3>1, ElementIs
      <4> QED
        BY <4>1
    <3>3. k \in Expansions
      BY <1>1, <3>2 DEF Expansions, IsExpansion
    <3>4. 1 \in DOMAIN e.values /\ j \in DOMAIN v
      BY <2>1, <3>2
    <3>5. HasValue(v[j])
      BY <3>3, <3>4 DEF HasValue
    <3> QED
      BY <1>5, <2>1, <3>5 DEF Quotes
  <2> QED
    BY <1>3, <2>1
<1> QED
  BY <1>4, <1>5 DEF QuotesAreKnown
-----------------------------------------------------------------------------
(* The characters of a pattern: nextChar is in step with the reference in front
   of each element of the word, and behind the last one, where no backslash
   waits for another character, it has the same characters. *)
LEMMA PatternsKeep ==
  ASSUME NEW characters, input \in Seq(WordElements(characters))
  PROVE  PatternsKeepQuotes
<1> SUFFICES ASSUME IsComplete, QuotesAreKnown
             PROVE  CharactersOfPattern(input) = F!Unsplit(input)
  BY DEF PatternsKeepQuotes
<1> DEFINE C == characters
           n == Len(input)
<1>u. PICK U : U = Substituted(input, TRUE)
  OBVIOUS
<1>v. PICK V : V = Substituted(input, FALSE)
  OBVIOUS
<1>r. PICK R : R = F!Reading(input)
  OBVIOUS
<1>e. PICK end : end = U[n]
  OBVIOUS
<1>p. PICK P : P = Scanned(end.text, 0, end.substs)
  OBVIOUS
<1>1. TRUE \in BOOLEAN /\ FALSE \in BOOLEAN
  OBVIOUS
<1>2. input \in Seq(NarrowElements(C))
  BY KnownWord
<1>3. n \in Nat /\ 0 \in 0..n /\ n \in 0..n /\ \A k \in 1..n : k - 1 \in 0..n /\ k \in 0..n
  OBVIOUS
<1>4. /\ U \in [0..n -> WordStates(C)] /\ U[0] = StartOf(TRUE)
  BY <1>u, <1>1, <1>2, SubstitutedIs
<1>5. /\ \A k \in 0..n : R[k] \in ReadStates(C)
      /\ R[0] = ReadStart
  BY <1>r, <1>2, ReadingIs
<1>6. \A k \in 0..n : Quoting(U[k], R[k])
  BY <1>u, <1>r, <1>1, <1>2, QuotingAll
<1>7. \A k \in 0..n : Quoting(V[k], R[k])
  BY <1>v, <1>r, <1>1, <1>2, QuotingAll
<1>8. end \in WordStates(C) /\ end.text \in Seq(Texts(C)) /\ end.substs \in Seq(Infos)
      /\ Len(end.text) \in Nat /\ Len(end.substs) \in Nat
  <2>1. end \in WordStates(C)
    BY <1>e, <1>3, <1>4
  <2>2. end.text \in Seq(Texts(C)) /\ end.substs \in Seq(Infos)
    BY <2>1, StateIs
  <2> QED
    BY <2>1, <2>2
<1>9. P[0] = ScanStart
  <2> PICK text, substs : text = end.text /\ substs = end.substs
    OBVIOUS
  <2>1. text \in Seq(Texts(C)) /\ substs \in Seq(Infos) /\ P = Scanned(text, 0, substs)
    BY <1>p, <1>8
  <2> QED
    BY <2>1, ScannedIs
<1>10. KnownQuotes(input, end.substs)
  <2>1. CASE \A i, j \in 1..Len(input) :
                input[i].kind # "char" /\ input[j].kind # "char" => i = j
    <3>1. Len(U[Len(input)].substs) <= 1
      BY <1>u, <1>1, <1>2, <2>1, OneSubstitution
    <3> QED
      BY <1>e, <3>1 DEF KnownQuotes
  <2>2. CASE \A k \in 1..Len(input) : input[k].values # << >> =>
                \A j \in 1..Len(input[k].values[1]) : input[k].values[1][j] \notin Quotes
    BY <2>2 DEF KnownQuotes
  <2> QED
    BY <2>1, <2>2, KnownWord
<1> DEFINE S == {k \in 0..n : InStep(U[k], R[k], P, end)}
<1>11. 0 \in S
  <2> PICK u, r, p : u = U[0] /\ r = R[0] /\ p = P[0]
    OBVIOUS
  <2>1. /\ u.text = << >> /\ ~u.escaped /\ ~u.single /\ ~u.double
        /\ r.chars = << >>
        /\ p.chars = << >> /\ ~p.single /\ ~p.double /\ ~p.escaped /\ p.subst = 1
    <3>1. u.text = << >> /\ ~u.escaped /\ ~u.single /\ ~u.double
      BY <1>4 DEF StartOf
    <3>2. r.chars = << >>
      BY <1>5 DEF ReadStart
    <3>3. p.chars = << >> /\ ~p.single /\ ~p.double /\ ~p.escaped /\ p.subst = 1
      BY <1>9 DEF ScanStart
    <3> QED
      BY <3>1, <3>2, <3>3
  <2>2. Len(u.text) = 0
    BY <2>1
  <2>3. Quoting(u, r)
    BY <1>3, <1>6
  <2>4. ScanAgrees(p, u, r) /\ Searched(p, end.substs, 0)
    BY <2>1 DEF ScanAgrees, Searched
  <2>5. InStep(u, r, P, end)
    BY <2>1, <2>2, <2>3, <2>4 DEF InStep
  <2> QED
    BY <1>3, <2>5
<1>12. ASSUME NEW k \in 1..n, k - 1 \in S PROVE k \in S
  <2>1. InStep(U[k - 1], R[k - 1], P, end)
    BY <1>12
  <2>2. InStep(U[k], R[k], P, end)
    BY <1>1, <1>u, <1>r, <1>e, <1>p, <1>2, <1>10, <2>1, WordStep
  <2> QED
    BY <1>3, <2>2
<1> HIDE DEF S
<1>13. InStep(end, R[n], P, end)
  <2>1. 0..n \subseteq S
    BY <1>3, <1>11, <1>12, UpTo
  <2>2. n \in S
    BY <1>3, <2>1
  <2> QED
    BY <1>e, <2>2 DEF S
<1>14. ~end.escaped
  <2>1. ~V[n].escaped
    BY <1>v DEF IsComplete, DoSubstitutions
  <2>2. V[n].escaped <=> R[n].escaped
    BY <1>3, <1>7 DEF Quoting
  <2>3. U[n].escaped <=> R[n].escaped
    BY <1>3, <1>6 DEF Quoting
  <2> QED
    BY <1>e, <2>1, <2>2, <2>3
<1>15. P[Len(end.text)].chars = R[n].chars
  BY <1>13, <1>14 DEF InStep, ScanAgrees
<1>16. CharactersOfPattern(input) = P[Len(end.text)].chars
  BY <1>u, <1>e, <1>p DEF CharactersOfPattern, PatternCharacters, DoSubstitutions
<1>17. F!Unsplit(input) = R[n].chars
  BY <1>r DEF F!Unsplit
<1> QED
  BY <1>15, <1>16, <1>17

\* What is left when n characters at one end of a value are looked at.
PartOf(string, isPrefix, n) ==
    IF isPrefix THEN SubSeq(string, 1, n)
    ELSE SubSeq(string, Len(string) - n + 1, Len(string))

\* How many characters stripPrefixSuffix looks at in its round n.
LengthAt(string, greedy, n) == IF greedy THEN Len(string) - n ELSE n

\* A part of n characters has n.
LEMMA PartIs ==
  ASSUME NEW T, NEW s \in Seq(T), NEW isPrefix \in BOOLEAN, NEW n \in 0..Len(s)
  PROVE  Len(PartOf(s, isPrefix, n)) = n
<1> Len(s) \in Nat
  OBVIOUS
<1>1. CASE isPrefix
  BY <1>1 DEF PartOf
<1>2. CASE ~isPrefix
  <2>1. Len(SubSeq(s, Len(s) - n + 1, Len(s))) = n
    OBVIOUS
  <2> QED
    BY <1>2, <2>1 DEF PartOf
<1> QED
  BY <1>1, <1>2

(* stripPrefixSuffix looks at the longest part first for "##" and "%%", and at
   the shortest one first for "#" and "%", at whichever end. *)
LEMMA StripIs ==
  ASSUME NEW T, NEW s \in Seq(T), NEW word, NEW isPrefix \in BOOLEAN,
         NEW greedy \in BOOLEAN,
         NEW pattern, pattern = PreparePattern(CharactersOfPattern(word)),
         NEW matching,
         matching = {n \in 0..Len(s) :
                       Fnmatch(pattern, PartOf(s, isPrefix, LengthAt(s, greedy, n)))},
         NEW removed, removed = StripPrefixSuffix(s, word, isPrefix, greedy)
  PROVE  removed = IF matching = {} THEN 0
                   ELSE LengthAt(s, greedy, Least(matching))
<1> DEFINE size == Len(s)
           counter(n) == IF CountsUp(isPrefix, greedy) THEN n ELSE size - n
           part(n) == IF isPrefix THEN SubSeq(s, 1, counter(n))
                      ELSE SubSeq(s, counter(n) + 1, size)
           found == {n \in 0..size : Fnmatch(pattern, part(n))}
<1>1. removed = IF found = {} THEN 0 ELSE Len(part(Least(found)))
  BY DEF StripPrefixSuffix
<1>2. size \in Nat
  OBVIOUS
<1>3. \A n \in 0..size : part(n) = PartOf(s, isPrefix, LengthAt(s, greedy, n))
  <2> TAKE n \in 0..size
  <2>1. CASE isPrefix
    <3>1. counter(n) = LengthAt(s, greedy, n)
      BY <2>1 DEF CountsUp, LengthAt
    <3> QED
      BY <2>1, <3>1 DEF PartOf
  <2>2. CASE ~isPrefix
    <3>1. counter(n) = Len(s) - LengthAt(s, greedy, n)
      <4>1. CASE greedy
        <5>1. CountsUp(isPrefix, greedy)
          BY <2>2, <4>1 DEF CountsUp
        <5>2. LengthAt(s, greedy, n) = size - n
          BY <4>1 DEF LengthAt
        <5> QED
          BY <1>2, <5>1, <5>2
      <4>2. CASE ~greedy
        <5>1. ~CountsUp(isPrefix, greedy)
          BY <2>2, <4>2 DEF CountsUp
        <5>2. LengthAt(s, greedy, n) = n
          BY <4>2 DEF LengthAt
        <5> QED
          BY <5>1, <5>2
      <4> QED
        BY <4>1, <4>2
    <3> QED
      BY <2>2, <3>1 DEF PartOf
  <2> QED
    BY <2>1, <2>2
<1> HIDE DEF part, size
<1>4. found = matching
  BY <1>3 DEF size
<1>5. CASE matching # {}
  <2>1. Least(matching) \in 0..Len(s)
    <3>1. matching \subseteq Nat
      OBVIOUS
    <3> QED
      BY <1>5, <3>1, LeastIs
  <2>2. LengthAt(s, greedy, Least(matching)) \in 0..Len(s)
    <3>1. \A n \in 0..Len(s) : LengthAt(s, greedy, n) \in 0..Len(s)
      BY <1>2 DEF LengthAt, size
    <3> QED
      BY <2>1, <3>1
  <2>3. Len(part(Least(matching))) = LengthAt(s, greedy, Least(matching))
    BY <1>3, <2>1, <2>2, PartIs DEF size
  <2> QED
    BY <1>1, <1>4, <1>5, <2>3
<1> QED
  BY <1>1, <1>4, <1>5

(* What is removed is extremal, whatever fnmatch answers: the rounds go through
   all the lengths in order. *)
LEMMA StripExtremal ==
  ASSUME NEW T, NEW s \in Seq(T), NEW word, NEW isPrefix \in BOOLEAN,
         NEW greedy \in BOOLEAN,
         NEW pattern, pattern = PreparePattern(CharactersOfPattern(word)),
         NEW matched,
         matched = {n \in 0..Len(s) : Fnmatch(pattern, PartOf(s, isPrefix, n))},
         NEW removed, removed = StripPrefixSuffix(s, word, isPrefix, greedy)
  PROVE  IF matched = {} THEN removed = 0
         ELSE /\ removed \in matched
              /\ \A n \in matched : IF greedy THEN n <= removed ELSE removed <= n
<1> DEFINE length(n) == LengthAt(s, greedy, n)
           matching == {n \in 0..Len(s) : Fnmatch(pattern, PartOf(s, isPrefix, length(n)))}
<1>1. Len(s) \in Nat
  OBVIOUS
<1>2. removed = IF matching = {} THEN 0 ELSE length(Least(matching))
  <2> PICK found : found = matching
    OBVIOUS
  <2>1. found = {n \in 0..Len(s) :
                   Fnmatch(pattern, PartOf(s, isPrefix, LengthAt(s, greedy, n)))}
    OBVIOUS
  <2> HIDE DEF matching
  <2>2. removed = IF found = {} THEN 0 ELSE LengthAt(s, greedy, Least(found))
    BY <2>1, StripIs
  <2> QED
    BY <2>2
<1>3. \A n \in 0..Len(s) : length(n) \in 0..Len(s) /\ length(length(n)) = n
  BY <1>1 DEF LengthAt
<1> HIDE DEF length
<1>4. \A n \in 0..Len(s) : n \in matching <=> length(n) \in matched
  BY <1>3
<1>5. matching \subseteq 0..Len(s) /\ matched \subseteq 0..Len(s) /\ matching \subseteq Nat
  OBVIOUS
<1> HIDE DEF matching
<1>6. CASE matching = {}
  <2>1. matched = {}
    BY <1>3, <1>4, <1>5, <1>6
  <2> QED
    BY <1>2, <1>6, <2>1
<1>7. CASE matching # {}
  <2> PICK least : least = Least(matching)
    OBVIOUS
  <2>1. least \in matching /\ \A y \in matching : least <= y
    BY <1>5, <1>7, LeastIs
  <2>2. removed = length(least)
    BY <1>2, <1>7
  <2>3. removed \in matched
    BY <1>4, <1>5, <2>1, <2>2
  <2>4. ASSUME NEW n \in matched PROVE IF greedy THEN n <= removed ELSE removed <= n
    <3>1. length(n) \in matching /\ n \in 0..Len(s)
      BY <1>3, <1>4, <1>5
    <3>2. least <= length(n) /\ least \in 0..Len(s)
      BY <1>5, <2>1, <3>1
    <3> QED
      BY <1>1, <2>2, <3>1, <3>2 DEF length, LengthAt
  <2> QED
    BY <2>3, <2>4
<1> QED
  BY <1>6, <1>7

(* Patterns match what they stand for, and remove it (match.c), for every word
   that the property is about, of any length and over any characters, and for
   every set of values: nextChar finds the quotes of the word and takes those of
   an expansion for characters, and stripPrefixSuffix removes the longest or the
   shortest part that the pattern matches. *)
THEOREM PatternsMatch ==
  ASSUME NEW characters, input \in Seq(WordElements(characters)),
         Strings \subseteq Seq(characters)
  PROVE  PatternsMatchAsWritten
<1>1. PatternsKeepQuotes
  BY PatternsKeep
<1>2. ASSUME IsComplete, QuotesAreKnown,
             NEW s \in Strings, NEW isPrefix \in BOOLEAN, NEW greedy \in BOOLEAN
      PROVE  LET part(n) == IF isPrefix THEN SubSeq(s, 1, n)
                            ELSE SubSeq(s, Len(s) - n + 1, Len(s))
                 pattern == PreparePattern(F!Unsplit(input))
                 matched == {n \in 0..Len(s) : Fnmatch(pattern, part(n))}
                 removed == StripPrefixSuffix(s, input, isPrefix, greedy)
             IN  IF matched = {} THEN removed = 0
                 ELSE /\ removed \in matched
                      /\ \A n \in matched : IF greedy THEN n <= removed
                                            ELSE removed <= n
  <2>p. PICK pattern : pattern = PreparePattern(F!Unsplit(input))
    OBVIOUS
  <2>r. PICK removed : removed = StripPrefixSuffix(s, input, isPrefix, greedy)
    OBVIOUS
  <2>m. PICK matched : matched = {n \in 0..Len(s) : Fnmatch(pattern, PartOf(s, isPrefix, n))}
    OBVIOUS
  <2>1. pattern = PreparePattern(CharactersOfPattern(input))
    BY <1>1, <1>2, <2>p DEF PatternsKeepQuotes
  <2>2. s \in Seq(characters)
    OBVIOUS
  <2>3. IF matched = {} THEN removed = 0
        ELSE /\ removed \in matched
             /\ \A n \in matched : IF greedy THEN n <= removed ELSE removed <= n
    BY <2>1, <2>2, <2>r, <2>m, StripExtremal, SMTT(20)
  <2> QED
    BY <2>3, <2>p, <2>r, <2>m DEF PartOf
<1>3. StripIsExtremal
  BY <1>2 DEF StripIsExtremal
<1> QED
  BY <1>1, <1>3 DEF PatternsMatchAsWritten
=============================================================================
