-------------------------- MODULE ConfirmNameProofs -------------------------
(***************************************************************************)
(* Theorems about ConfirmName, for names and answers of any length.        *)
(*                                                                         *)
(* A text and its normal form are read as the same words, and the words    *)
(* spell the normal form; so two texts have the same normal form exactly   *)
(* if they have the same words.                                            *)
(***************************************************************************)
EXTENDS ConfirmName, FoldProofs

Plain == Characters \ {"glyph"}
Small == Plain \ {"A"}
Word  == Seq(Letters \ {"A"})

(* The lists of words of which the last may be growing.                    *)
Reading == Seq(Word) \ {<< >>}

(* The two folds of the module, before what they leave at the end goes.    *)
Joined(s) == FoldLeft(AddChar, << >>, s)
Read(s)   == FoldLeft(ReadChar, << << >> >>, s)

(* The words with a blank before each.                                     *)
Spelled(words) == FoldLeft(LAMBDA t, w : Append(t, "blank") \o w, << >>, words)

-----------------------------------------------------------------------------
(***************************************************************************)
(* The folds                                                               *)
(***************************************************************************)

(* Joined adds one character after the other.                              *)
LEMMA JoinedFold ==
  ASSUME NEW E
  PROVE  /\ Joined(<< >>) = << >>
         /\ \A s \in Seq(E) : Joined(s) \in Seq(E)
         /\ \A s \in Seq(E), c \in E : Joined(Append(s, c)) = AddChar(Joined(s), c)
<1> DEFINE A == Seq(E)
           step == [x \in A \X E |-> AddChar(x[1], x[2])]
<1>1. << >> \in A /\ IsStep(step, A, E)
  BY AppendProperties DEF IsStep, AddChar
<1>2. ASSUME NEW s \in Seq(E) PROVE Joined(s) = RecFold(step, << >>, s)
  <2> DEFINE Solution(h) ==
                h = [p \in SUBSET DOMAIN s |->
                        IF p = {} THEN << >> ELSE AddChar(h[p \ {Max(p)}], s[Max(p)])]
             fold == CHOOSE h : Solution(h)
  <2>1. \A p \in SUBSET DOMAIN s : p # {} => s[Max(p)] \in E
    BY PlaceElement
  <2>2. \E h : Solution(h)
    <3>1. PICK h \in [SUBSET DOMAIN s -> A] : Recursion(h, step, << >>, s)
      BY <1>1, RecursionExists
    <3>2. \A p \in SUBSET DOMAIN s :
            h[p] = IF p = {} THEN << >> ELSE AddChar(h[p \ {Max(p)}], s[Max(p)])
      BY <2>1, <3>1 DEF Recursion
    <3> QED
      BY <3>1, <3>2
  <2>3. Joined(s) = fold[DOMAIN s]
    BY DEF Joined, FoldLeft, MapThenFoldSet
  <2>4. Solution(fold)
    BY <2>2
  <2> HIDE DEF fold
  <2>5. Solves(fold, A, step, << >>, s)
    BY <2>1, <2>4 DEF Solves
  <2> HIDE DEF A, step
  <2> QED
    BY <1>1, <2>3, <2>5, SolutionIsRecFold
<1>3. << >> \in Seq(E) /\ \A s \in Seq(E), c \in E : Append(s, c) \in Seq(E)
  BY AppendProperties
<1>4. /\ RecFold(step, << >>, << >>) = << >>
      /\ \A s \in Seq(E) : RecFold(step, << >>, s) \in A
      /\ \A s \in Seq(E), c \in E :
            RecFold(step, << >>, Append(s, c)) = step[<<RecFold(step, << >>, s), c>>]
  <2> HIDE DEF A, step
  <2> QED
    BY <1>1, RecFoldFacts
<1>5. \A a \in A, c \in E : step[<<a, c>>] = AddChar(a, c)
  OBVIOUS
<1>6. Joined(<< >>) = << >>
  BY <1>2, <1>3, <1>4
<1>7. \A s \in Seq(E) : Joined(s) \in Seq(E)
  BY <1>2, <1>4
<1> HIDE DEF step
<1>8. ASSUME NEW s \in Seq(E), NEW c \in E
      PROVE  Joined(Append(s, c)) = step[<<Joined(s), c>>]
  BY <1>2, <1>3, <1>4
<1> QED
  BY <1>5, <1>6, <1>7, <1>8

(* What ReadChar does to the words read so far, kind by kind.              *)
LEMMA ReadCharType ==
  ASSUME NEW w \in Reading, NEW c \in Characters
  PROVE  /\ ReadChar(w, c) \in Reading
         /\ c \in Letters => ReadChar(w, c) = Append(Front(w), Append(Last(w), Lower(c)))
         /\ c = "blank" =>
               ReadChar(w, c) = IF Last(w) = << >> THEN w ELSE Append(w, << >>)
         /\ c = "glyph" => ReadChar(w, c) = w
<1>1. Front(w) \in Seq(Word) /\ Last(w) \in Word
  BY FrontAndLast DEF Reading
<1>2. \A v \in Seq(Word), x \in Word : Append(v, x) \in Reading
  BY AppendProperties DEF Reading
<1>3. << >> \in Word
  BY DEF Word
<1>4. CASE c \in Letters
  <2>1. Lower(c) \in Letters \ {"A"}
    BY <1>4 DEF Lower, Letters
  <2>2. Append(Last(w), Lower(c)) \in Word
    BY <1>1, <2>1, AppendProperties DEF Word
  <2>3. ReadChar(w, c) = Append(Front(w), Append(Last(w), Lower(c)))
    BY <1>4 DEF ReadChar, Letters
  <2> QED
    BY <1>1, <1>2, <1>4, <2>2, <2>3 DEF Letters
<1>5. CASE c = "blank"
  BY <1>2, <1>3, <1>5 DEF ReadChar, Letters, Reading
<1>6. CASE c = "glyph"
  BY <1>6 DEF ReadChar, Letters
<1> QED
  BY <1>4, <1>5, <1>6 DEF Characters

(* Read takes one character after the other.                               *)
LEMMA ReadFold ==
  /\ Read(<< >>) = << << >> >>
  /\ \A s \in Seq(Characters) : Read(s) \in Reading
  /\ \A s \in Seq(Characters), c \in Characters : Read(Append(s, c)) = ReadChar(Read(s), c)
<1> DEFINE E == Characters
           A == Reading
           base == << << >> >>
           step == [x \in A \X E |-> ReadChar(x[1], x[2])]
<1>1. base \in A /\ IsStep(step, A, E)
  <2>1. base \in A
    BY AppendProperties DEF Reading, Word
  <2>2. \A x \in A \X E : ReadChar(x[1], x[2]) \in A
    BY ReadCharType
  <2> HIDE DEF A, E
  <2> QED
    BY <2>1, <2>2 DEF IsStep
<1>2. ASSUME NEW s \in Seq(E) PROVE Read(s) = RecFold(step, base, s)
  <2> DEFINE Solution(h) ==
                h = [p \in SUBSET DOMAIN s |->
                        IF p = {} THEN base ELSE ReadChar(h[p \ {Max(p)}], s[Max(p)])]
             fold == CHOOSE h : Solution(h)
  <2>1. \A p \in SUBSET DOMAIN s : p # {} => s[Max(p)] \in E
    BY PlaceElement
  <2>2. \E h : Solution(h)
    <3> HIDE DEF A, E, base
    <3>1. PICK h \in [SUBSET DOMAIN s -> A] : Recursion(h, step, base, s)
      BY <1>1, RecursionExists
    <3>2. \A p \in SUBSET DOMAIN s :
            h[p] = IF p = {} THEN base ELSE ReadChar(h[p \ {Max(p)}], s[Max(p)])
      BY <2>1, <3>1 DEF Recursion
    <3> QED
      BY <3>1, <3>2
  <2>3. Read(s) = fold[DOMAIN s]
    BY DEF Read, FoldLeft, MapThenFoldSet
  <2>4. Solution(fold)
    BY <2>2
  <2> HIDE DEF fold, A, E, base
  <2>5. Solves(fold, A, step, base, s)
    BY <2>1, <2>4 DEF Solves
  <2> HIDE DEF step
  <2> QED
    BY <1>1, <2>3, <2>5, SolutionIsRecFold
<1>3. << >> \in Seq(E) /\ \A s \in Seq(E), c \in E : Append(s, c) \in Seq(E)
  BY AppendProperties
<1>4. /\ RecFold(step, base, << >>) = base
      /\ \A s \in Seq(E) : RecFold(step, base, s) \in A
      /\ \A s \in Seq(E), c \in E :
            RecFold(step, base, Append(s, c)) = step[<<RecFold(step, base, s), c>>]
  <2> HIDE DEF A, step, base, E
  <2> QED
    BY <1>1, RecFoldFacts
<1>5. \A a \in A, c \in E : step[<<a, c>>] = ReadChar(a, c)
  OBVIOUS
<1> HIDE DEF step, base
<1>6. Read(<< >>) = base
  BY <1>2, <1>3, <1>4
<1>7. \A s \in Seq(E) : Read(s) \in A
  BY <1>2, <1>4
<1>8. ASSUME NEW s \in Seq(E), NEW c \in E
      PROVE  Read(Append(s, c)) = step[<<Read(s), c>>]
  BY <1>2, <1>3, <1>4
<1> QED
  BY <1>5, <1>6, <1>7, <1>8 DEF base

(* Spelled adds one word after the other.                                  *)
LEMMA SpelledFold ==
  /\ Spelled(<< >>) = << >>
  /\ \A v \in Seq(Word) : Spelled(v) \in Seq(Small)
  /\ \A v \in Seq(Word), w \in Word : Spelled(Append(v, w)) = Append(Spelled(v), "blank") \o w
<1> DEFINE E == Word
           A == Seq(Small)
           step == [x \in A \X E |-> Append(x[1], "blank") \o x[2]]
<1>1. << >> \in A /\ IsStep(step, A, E)
  <2>1. "blank" \in Small /\ Word \subseteq A
    BY SeqMonotonic DEF Small, Plain, Characters, Letters, Word
  <2>2. ASSUME NEW a \in A, NEW w \in E PROVE Append(a, "blank") \o w \in A
    <3>1. Append(a, "blank") \in A
      BY <2>1, AppendProperties
    <3> QED
      BY <2>1, <3>1, ConcatProperties
  <2>3. << >> \in A
    OBVIOUS
  <2> HIDE DEF A, E
  <2> QED
    BY <2>2, <2>3 DEF IsStep
<1>2. ASSUME NEW s \in Seq(E) PROVE Spelled(s) = RecFold(step, << >>, s)
  <2> DEFINE Solution(h) ==
                h = [p \in SUBSET DOMAIN s |->
                        IF p = {} THEN << >> ELSE Append(h[p \ {Max(p)}], "blank") \o s[Max(p)]]
             fold == CHOOSE h : Solution(h)
  <2>1. \A p \in SUBSET DOMAIN s : p # {} => s[Max(p)] \in E
    BY PlaceElement
  <2>2. \E h : Solution(h)
    <3> HIDE DEF A, E
    <3>1. PICK h \in [SUBSET DOMAIN s -> A] : Recursion(h, step, << >>, s)
      BY <1>1, RecursionExists
    <3>2. \A p \in SUBSET DOMAIN s :
            h[p] = IF p = {} THEN << >> ELSE Append(h[p \ {Max(p)}], "blank") \o s[Max(p)]
      BY <2>1, <3>1 DEF Recursion
    <3> QED
      BY <3>1, <3>2
  <2>3. Spelled(s) = fold[DOMAIN s]
    BY DEF Spelled, FoldLeft, MapThenFoldSet
  <2>4. Solution(fold)
    BY <2>2
  <2> HIDE DEF fold, A, E
  <2>5. Solves(fold, A, step, << >>, s)
    BY <2>1, <2>4 DEF Solves
  <2> HIDE DEF step
  <2> QED
    BY <1>1, <2>3, <2>5, SolutionIsRecFold
<1>3. << >> \in Seq(E) /\ \A s \in Seq(E), c \in E : Append(s, c) \in Seq(E)
  BY AppendProperties
<1>4. /\ RecFold(step, << >>, << >>) = << >>
      /\ \A s \in Seq(E) : RecFold(step, << >>, s) \in A
      /\ \A s \in Seq(E), c \in E :
            RecFold(step, << >>, Append(s, c)) = step[<<RecFold(step, << >>, s), c>>]
  <2> HIDE DEF A, step, E
  <2> QED
    BY <1>1, RecFoldFacts
<1>5. \A a \in A, w \in E : step[<<a, w>>] = Append(a, "blank") \o w
  OBVIOUS
<1> HIDE DEF step
<1>6. Spelled(<< >>) = << >>
  BY <1>2, <1>3, <1>4
<1>7. \A s \in Seq(E) : Spelled(s) \in A
  BY <1>2, <1>4
<1>8. ASSUME NEW s \in Seq(E), NEW c \in E
      PROVE  Spelled(Append(s, c)) = step[<<Spelled(s), c>>]
  BY <1>2, <1>3, <1>4
<1> QED
  BY <1>5, <1>6, <1>7, <1>8

(* Typeable leaves the glyphs out, one character after the other.          *)
LEMMA TypeableFold ==
  /\ Typeable(<< >>) = << >>
  /\ \A s \in Seq(Characters) : Typeable(s) \in Seq(Plain)
  /\ \A s \in Seq(Characters), c \in Characters :
        Typeable(Append(s, c)) = IF c = "glyph" THEN Typeable(s) ELSE Append(Typeable(s), c)
<1>1. /\ Kept(<< >>, Plain) = << >>
      /\ \A s \in Seq(Characters) : Kept(s, Plain) \in Seq(Characters)
      /\ \A s \in Seq(Characters), c \in Characters :
            /\ c \in Plain => Kept(Append(s, c), Plain) = Append(Kept(s, Plain), c)
            /\ c \notin Plain => Kept(Append(s, c), Plain) = Kept(s, Plain)
  BY KeptFold, Zenon
<1>2. \A s : Typeable(s) = Kept(s, Plain)
  BY DEF Typeable, Plain
<1>3. \A c \in Characters : c \in Plain <=> c # "glyph"
  BY DEF Plain
<1>4. ASSUME NEW s \in Seq(Characters) PROVE Typeable(s) \in Seq(Plain)
  <2>1. ToSet(Kept(s, Plain)) = ToSet(s) \cap Plain
    BY KeptElements
  <2> DEFINE t == Kept(s, Plain)
  <2>2. /\ t \in Seq(Characters) /\ Len(t) \in Nat /\ DOMAIN t = 1 .. Len(t)
        /\ t \in [1 .. Len(t) -> Characters]
    BY <1>1, LenProperties
  <2>3. \A i \in DOMAIN t : t[i] \in Plain
    BY <2>1 DEF ToSet
  <2> HIDE DEF t
  <2>4. t \in [1 .. Len(t) -> Plain]
    BY <2>2, <2>3
  <2>5. t \in Seq(Plain)
    BY <2>2, <2>4, SeqDef
  <2> QED
    BY <1>2, <2>5 DEF t
<1> QED
  BY <1>1, <1>2, <1>3, <1>4

(* Folded lowers one character after the other.                            *)
LEMMA FoldedFold ==
  /\ Folded(<< >>) = << >>
  /\ \A s \in Seq(Plain) : Folded(s) \in Seq(Small) /\ Len(Folded(s)) = Len(s)
  /\ \A s \in Seq(Plain), c \in Plain : Folded(Append(s, c)) = Append(Folded(s), Lower(c))
<1>1. \A c \in Plain : Lower(c) \in Small
  BY DEF Lower, Small, Plain, Characters, Letters
<1>2. ASSUME NEW s \in Seq(Plain) PROVE Folded(s) \in Seq(Small) /\ Len(Folded(s)) = Len(s)
  <2>1. Len(s) \in Nat /\ DOMAIN s = 1 .. Len(s) /\ \A i \in 1 .. Len(s) : s[i] \in Plain
    BY LenProperties, ElementOfSeq
  <2>2. Folded(s) = [i \in 1 .. Len(s) |-> Lower(s[i])]
    BY <2>1 DEF Folded
  <2>3. Folded(s) \in [1 .. Len(s) -> Small]
    BY <1>1, <2>1, <2>2
  <2> QED
    BY <2>1, <2>3, SeqDef, LenProperties
<1>3. ASSUME NEW s \in Seq(Plain), NEW c \in Plain
      PROVE  Folded(Append(s, c)) = Append(Folded(s), Lower(c))
  <2> DEFINE n == Len(s)
             t == Append(s, c)
             f == Folded(s)
  <2>1. /\ t \in Seq(Plain) /\ Len(t) = n + 1 /\ n \in Nat /\ DOMAIN s = 1 .. n
        /\ DOMAIN t = 1 .. n + 1 /\ t[n + 1] = c
        /\ \A i \in 1 .. n : t[i] = s[i]
    BY AppendProperties, LenProperties
  <2>2. f \in Seq(Small) /\ Len(f) = n /\ Folded(t) \in Seq(Small) /\ Len(Folded(t)) = n + 1
    BY <1>2, <2>1
  <2>3. /\ Append(f, Lower(c)) \in Seq(Small) /\ Len(Append(f, Lower(c))) = n + 1
        /\ Append(f, Lower(c))[n + 1] = Lower(c)
        /\ \A i \in 1 .. n : Append(f, Lower(c))[i] = f[i]
    BY <1>1, <2>2, AppendProperties
  <2>4. /\ \A i \in 1 .. n : f[i] = Lower(s[i])
        /\ \A i \in 1 .. n + 1 : Folded(t)[i] = Lower(t[i])
    BY <2>1 DEF Folded
  <2>5. \A i \in 1 .. n + 1 : Folded(t)[i] = Append(f, Lower(c))[i]
    <3> HIDE DEF n, t, f
    <3> SUFFICES ASSUME NEW i \in 1 .. n + 1 PROVE Folded(t)[i] = Append(f, Lower(c))[i]
      OBVIOUS
    <3>1. CASE i = n + 1
      BY <2>1, <2>3, <2>4, <3>1
    <3>2. CASE i \in 1 .. n
      BY <2>1, <2>3, <2>4, <3>2
    <3>3. n \in Nat
      BY <2>1
    <3>4. i = n + 1 \/ i \in 1 .. n
      BY <3>3
    <3> QED
      BY <3>1, <3>2, <3>4
  <2> HIDE DEF n, t, f
  <2>6. Folded(t) = Append(f, Lower(c))
    BY <2>2, <2>3, <2>5, SeqEqual
  <2> QED
    BY <2>6 DEF t, f
<1>4. Folded(<< >>) = << >>
  BY DEF Folded
<1> QED
  BY <1>2, <1>3, <1>4

-----------------------------------------------------------------------------
(***************************************************************************)
(* A text and its normal form have the same words                          *)
(***************************************************************************)

LEMMA WordAppend ==
  ASSUME NEW w \in Word, NEW c \in Letters \ {"A"}
  PROVE  Append(w, c) \in Word /\ Append(w, c) # << >>
<1> DEFINE L == Letters \ {"A"}
<1>1. w \in Seq(L) /\ c \in L
  BY DEF Word
<1> HIDE DEF L
<1>2. Append(w, c) \in Seq(L) /\ Append(w, c) # << >>
  BY <1>1, AppendProperties
<1> QED
  BY <1>2 DEF L, Word

(* A text that ends in a blank, or is empty, has an empty last word; one   *)
(* that ends in a letter has not.                                          *)
LEMMA ReadEnd ==
  ASSUME NEW s \in Seq(Plain)
  PROVE  Last(Read(s)) = << >> <=> s = << >> \/ Last(s) = "blank"
<1>0. Plain \subseteq Characters /\ Seq(Plain) \subseteq Seq(Characters)
  BY SeqMonotonic DEF Plain
<1>1. CASE s = << >>
  <2>1. Last(<< << >> >>) = << >>
    BY DEF Last
  <2> QED
    BY <1>1, <2>1, ReadFold
<1>2. CASE s # << >>
  <2> DEFINE t == Front(s)
             c == Last(s)
             w == Read(t)
  <2>1. t \in Seq(Plain) /\ c \in Plain /\ s = Append(t, c)
    BY <1>2, FrontAndLast
  <2> HIDE DEF t, c
  <2>2. w \in Reading /\ Read(s) = ReadChar(w, c)
    BY <1>0, <2>1, ReadFold
  <2>3. Front(w) \in Seq(Word) /\ Last(w) \in Word /\ w \in Seq(Word) /\ << >> \in Word
    BY <2>2, FrontAndLast DEF Reading, Word
  <2> HIDE DEF w
  <2>4. CASE c = "blank"
    <3>1. Read(s) = IF Last(w) = << >> THEN w ELSE Append(w, << >>)
      BY <1>0, <2>1, <2>2, <2>4, ReadCharType
    <3>2. Last(Append(w, << >>)) = << >>
      BY <2>3, FrontAndLast
    <3> QED
      BY <2>4, <3>1, <3>2 DEF c
  <2>5. CASE c \in Letters
    <3>1. Read(s) = Append(Front(w), Append(Last(w), Lower(c)))
      BY <1>0, <2>1, <2>2, <2>5, ReadCharType
    <3>2. Lower(c) \in Letters \ {"A"}
      BY <2>5 DEF Lower, Letters
    <3>3. Append(Last(w), Lower(c)) \in Word /\ Append(Last(w), Lower(c)) # << >>
      BY <2>3, <3>2, WordAppend
    <3>4. \A v \in Seq(Word), x \in Word : Last(Append(v, x)) = x
      BY FrontAndLast
    <3>5. Last(Read(s)) = Append(Last(w), Lower(c))
      BY <2>3, <3>1, <3>3, <3>4
    <3>6. c # "blank"
      BY <2>5 DEF Letters
    <3> QED
      BY <1>2, <3>3, <3>5, <3>6 DEF c
  <2>6. c = "blank" \/ c \in Letters
    BY <2>1 DEF Plain, Characters
  <2> QED
    BY <2>4, <2>5, <2>6
<1> QED
  BY <1>1, <1>2

(* Glyphs do not matter.                                                   *)
LEMMA ReadTypeable == \A s \in Seq(Characters) : Read(Typeable(s)) = Read(s)
<1> DEFINE P == {s \in Seq(Characters) : Read(Typeable(s)) = Read(s)}
<1>0. Seq(Plain) \subseteq Seq(Characters)
  BY SeqMonotonic DEF Plain
<1>1. << >> \in P
  BY TypeableFold
<1>2. ASSUME NEW s \in Seq(Characters), s \in P, NEW c \in Characters
      PROVE  Append(s, c) \in P
  <2>1. Append(s, c) \in Seq(Characters) /\ Read(Append(s, c)) = ReadChar(Read(s), c)
    BY AppendProperties, ReadFold
  <2>2. /\ Read(Typeable(s)) = Read(s)
        /\ Typeable(s) \in Seq(Characters)
        /\ Read(s) \in Reading
    BY <1>0, <1>2, TypeableFold, ReadFold
  <2>3. CASE c = "glyph"
    <3>1. Typeable(Append(s, c)) = Typeable(s)
      BY <2>3, TypeableFold
    <3>2. ReadChar(Read(s), c) = Read(s)
      BY <2>2, <2>3, ReadCharType
    <3> QED
      BY <2>1, <2>2, <3>1, <3>2
  <2>4. CASE c # "glyph"
    <3>1. Typeable(Append(s, c)) = Append(Typeable(s), c)
      BY <2>4, TypeableFold
    <3>2. Read(Append(Typeable(s), c)) = ReadChar(Read(Typeable(s)), c)
      BY <2>2, ReadFold
    <3> QED
      BY <2>1, <2>2, <3>1, <3>2
  <2> QED
    BY <2>3, <2>4
<1> HIDE DEF P
<1>3. Seq(Characters) \subseteq P
  BY <1>1, <1>2, SeqInduct
<1> QED
  BY <1>3 DEF P

(* Nor do blanks in a row, or before the first word.                       *)
LEMMA ReadJoined == \A s \in Seq(Plain) : Read(Joined(s)) = Read(s)
<1> DEFINE P == {s \in Seq(Plain) : Read(Joined(s)) = Read(s)}
<1>0. Plain \subseteq Characters /\ Seq(Plain) \subseteq Seq(Characters)
  BY SeqMonotonic DEF Plain
<1>1. << >> \in P
  BY JoinedFold
<1>2. ASSUME NEW s \in Seq(Plain), s \in P, NEW c \in Plain PROVE Append(s, c) \in P
  <2> DEFINE t == Joined(s)
  <2>1. /\ Append(s, c) \in Seq(Plain)
        /\ Read(Append(s, c)) = ReadChar(Read(s), c)
        /\ Read(s) \in Reading
    BY <1>0, AppendProperties, ReadFold
  <2>2. t \in Seq(Plain) /\ Read(t) = Read(s) /\ Joined(Append(s, c)) = AddChar(t, c)
    BY <1>2, JoinedFold
  <2> HIDE DEF t
  <2>3. Read(Append(t, c)) = ReadChar(Read(t), c)
    BY <1>0, <2>2, ReadFold
  <2>4. CASE c = "blank" /\ (t = << >> \/ Last(t) = "blank")
    <3>1. Last(Read(s)) = << >>
      BY <2>2, <2>4, ReadEnd
    <3>2. ReadChar(Read(s), c) = Read(s)
      BY <1>0, <2>1, <2>4, <3>1, ReadCharType
    <3>3. AddChar(t, c) = t
      BY <2>4 DEF AddChar
    <3> QED
      BY <2>1, <2>2, <3>2, <3>3
  <2>5. CASE ~(c = "blank" /\ (t = << >> \/ Last(t) = "blank"))
    <3>1. AddChar(t, c) = Append(t, c)
      BY <2>5 DEF AddChar
    <3> QED
      BY <2>1, <2>2, <2>3, <3>1
  <2> QED
    BY <2>4, <2>5
<1> HIDE DEF P
<1>3. Seq(Plain) \subseteq P
  BY <1>1, <1>2, SeqInduct
<1> QED
  BY <1>3 DEF P

(* Nor does the case.                                                      *)
LEMMA ReadFolded == \A s \in Seq(Plain) : Read(Folded(s)) = Read(s)
<1> DEFINE P == {s \in Seq(Plain) : Read(Folded(s)) = Read(s)}
<1>0. Plain \subseteq Characters /\ Seq(Plain) \subseteq Seq(Characters)
  BY SeqMonotonic DEF Plain
<1>1. << >> \in P
  BY FoldedFold
<1>2. ASSUME NEW s \in Seq(Plain), s \in P, NEW c \in Plain PROVE Append(s, c) \in P
  <2>1. /\ Append(s, c) \in Seq(Plain)
        /\ Read(Append(s, c)) = ReadChar(Read(s), c)
        /\ Read(s) \in Reading
    BY <1>0, AppendProperties, ReadFold
  <2>2. Lower(c) \in Plain /\ Lower(c) \in Characters
    BY DEF Lower, Plain, Characters, Letters
  <2>3. Small \subseteq Plain /\ Folded(s) \in Seq(Small)
    BY FoldedFold DEF Small
  <2>4. Folded(s) \in Seq(Characters)
    BY <1>0, <2>3, SeqMonotonic
  <2>5. /\ Folded(Append(s, c)) = Append(Folded(s), Lower(c))
        /\ Read(Append(Folded(s), Lower(c))) = ReadChar(Read(Folded(s)), Lower(c))
        /\ Read(Folded(s)) = Read(s)
    BY <1>2, <2>2, <2>4, FoldedFold, ReadFold
  <2>6. ReadChar(Read(s), Lower(c)) = ReadChar(Read(s), c)
    <3>1. CASE c = "blank"
      BY <3>1 DEF Lower
    <3>2. CASE c \in Letters
      <4>1. Lower(c) \in Letters /\ Lower(Lower(c)) = Lower(c)
        BY <3>2 DEF Lower, Letters
      <4>2. ReadChar(Read(s), c) = Append(Front(Read(s)), Append(Last(Read(s)), Lower(c)))
        BY <1>0, <2>1, <3>2, ReadCharType
      <4>3. ReadChar(Read(s), Lower(c)) =
               Append(Front(Read(s)), Append(Last(Read(s)), Lower(Lower(c))))
        BY <2>1, <2>2, <4>1, ReadCharType
      <4> QED
        BY <4>1, <4>2, <4>3
    <3> QED
      BY <3>1, <3>2 DEF Plain, Characters
  <2> QED
    BY <2>1, <2>5, <2>6
<1> HIDE DEF P
<1>3. Seq(Plain) \subseteq P
  BY <1>1, <1>2, SeqInduct
<1> QED
  BY <1>3 DEF P

(* Nor does a blank after the last word.                                   *)
LEMMA WordsCollapsed ==
  ASSUME NEW s \in Seq(Plain)
  PROVE  Collapsed(s) \in Seq(Plain) /\ Words(Collapsed(s)) = Words(s)
<1> DEFINE t == Joined(s)
           u == Front(t)
<1>0. Plain \subseteq Characters /\ Seq(Plain) \subseteq Seq(Characters)
  BY SeqMonotonic DEF Plain
<1>1. t \in Seq(Plain) /\ Read(t) = Read(s) /\ Read(s) \in Reading
  BY <1>0, JoinedFold, ReadJoined, ReadFold
<1>2. Words(t) = Words(s)
  BY <1>1 DEF Words, Read
<1>3. Collapsed(s) = IF t # << >> /\ Last(t) = "blank" THEN u ELSE t
  BY DEF Collapsed, Joined
<1> HIDE DEF t
<1>4. CASE ~(t # << >> /\ Last(t) = "blank")
  BY <1>1, <1>2, <1>3, <1>4
<1>5. CASE t # << >> /\ Last(t) = "blank"
  <2>1. u \in Seq(Plain) /\ t = Append(u, "blank")
    BY <1>1, <1>5, FrontAndLast
  <2> DEFINE w == Read(u)
  <2> HIDE DEF u
  <2>2. w \in Reading /\ Read(t) = ReadChar(w, "blank")
    BY <1>0, <2>1, ReadFold DEF Characters
  <2>3. Read(t) = IF Last(w) = << >> THEN w ELSE Append(w, << >>)
    BY <2>2, ReadCharType DEF Characters
  <2>4. /\ Words(u) = IF Last(w) = << >> THEN Front(w) ELSE w
        /\ Words(t) = IF Last(Read(t)) = << >> THEN Front(Read(t)) ELSE Read(t)
    BY DEF Words, Read
  <2>5. Front(Append(w, << >>)) = w /\ Last(Append(w, << >>)) = << >>
    <3>1. w \in Seq(Word) /\ << >> \in Word
      BY <2>2 DEF Reading, Word
    <3> HIDE DEF w
    <3> QED
      BY <3>1, FrontAndLast
  <2> HIDE DEF w
  <2>6. Words(u) = Words(t)
    BY <2>3, <2>4, <2>5
  <2> QED
    BY <1>2, <1>3, <1>5, <2>1, <2>6
<1> QED
  BY <1>4, <1>5

(* What the phrase and the normal form of a text read as.                  *)
LEMMA SameWords ==
  ASSUME NEW s \in Seq(Characters)
  PROVE  /\ Collapsed(Typeable(s)) \in Seq(Plain)
         /\ Words(Collapsed(Typeable(s))) = Words(s)
         /\ Words(_normalize(s)) = Words(s)
<1> DEFINE p == Collapsed(Typeable(s))
<1>1. Typeable(s) \in Seq(Plain) /\ Words(Typeable(s)) = Words(s)
  BY TypeableFold, ReadTypeable DEF Words, Read
<1>2. p \in Seq(Plain) /\ Words(p) = Words(s)
  BY <1>1, WordsCollapsed
<1> HIDE DEF p
<1>3. Words(Folded(p)) = Words(p)
  BY <1>2, ReadFolded DEF Words, Read
<1> QED
  BY <1>2, <1>3 DEF _normalize, p

-----------------------------------------------------------------------------
(***************************************************************************)
(* The words of a text spell its normal form                               *)
(***************************************************************************)

LEMMA Appended ==
  ASSUME NEW E, NEW s \in Seq(E), NEW t \in Seq(E), NEW c \in E
  PROVE  s \o Append(t, c) = Append(s \o t, c)
<1>1. /\ s \o t \in Seq(E) /\ Append(t, c) \in Seq(E) /\ << c >> \in Seq(E)
      /\ Append(t, c) = t \o << c >>
  BY ConcatProperties, AppendProperties, AppendIsConcat
<1>2. Append(s \o t, c) = (s \o t) \o << c >>
  BY <1>1, AppendIsConcat
<1> QED
  BY <1>1, <1>2, ConcatAssociative

(* The words read so far, spelled, are the text as it is joined so far.    *)
LEMMA SpelledRead ==
  \A s \in Seq(Plain) : Spelled(Read(s)) = << "blank" >> \o Folded(Joined(s))
<1> DEFINE P == {s \in Seq(Plain) : Spelled(Read(s)) = << "blank" >> \o Folded(Joined(s))}
<1>0. /\ Plain \subseteq Characters /\ Seq(Plain) \subseteq Seq(Characters)
      /\ "blank" \in Small /\ << "blank" >> \in Seq(Small) /\ << >> \in Word
      /\ Word \subseteq Seq(Small)
  BY SeqMonotonic DEF Small, Plain, Word, Characters, Letters
<1>1. << >> \in P
  <2>1. << << >> >> = Append(<< >>, << >>) /\ << >> \in Seq(Word)
    OBVIOUS
  <2>2. Spelled(<< << >> >>) = Append(<< >>, "blank") \o << >>
    BY <1>0, <2>1, SpelledFold
  <2>3. Append(<< >>, "blank") = << "blank" >>
    OBVIOUS
  <2>4. << "blank" >> \o << >> = << "blank" >>
    BY <1>0, ConcatEmptySeq
  <2>5. Read(<< >>) = << << >> >>
    BY ReadFold
  <2>6. Folded(Joined(<< >>)) = << >> /\ << >> \in Seq(Plain)
    BY JoinedFold, FoldedFold
  <2>7. Spelled(Read(<< >>)) = << "blank" >>
    BY <2>2, <2>3, <2>4, <2>5, Zenon
  <2>8. << "blank" >> \o Folded(Joined(<< >>)) = << "blank" >>
    BY <2>4, <2>6
  <2> QED
    BY <2>6, <2>7, <2>8
<1>2. ASSUME NEW s \in Seq(Plain), s \in P, NEW c \in Plain PROVE Append(s, c) \in P
  <2> DEFINE t == Joined(s)
             w == Read(s)
             f == Folded(t)
  <2>1. /\ Append(s, c) \in Seq(Plain)
        /\ Read(Append(s, c)) = ReadChar(w, c)
        /\ w \in Reading /\ w \in Seq(Word)
    BY <1>0, AppendProperties, ReadFold DEF Reading
  <2>2. /\ t \in Seq(Plain) /\ Joined(Append(s, c)) = AddChar(t, c)
        /\ f \in Seq(Small)
    BY JoinedFold, FoldedFold
  <2>3. Spelled(w) = << "blank" >> \o f
    BY <1>2
  <2>4. Folded(Append(t, c)) = Append(f, Lower(c)) /\ Lower(c) \in Small
    BY <2>2, FoldedFold DEF Lower, Small, Plain, Characters, Letters
  <2>5. Last(w) = << >> <=> t = << >> \/ Last(t) = "blank"
    <3>1. Read(t) = w
      BY ReadJoined
    <3>2. Last(Read(t)) = << >> <=> t = << >> \/ Last(t) = "blank"
      BY <2>2, ReadEnd
    <3> QED
      BY <3>1, <3>2
  <2>6. /\ Front(w) \in Seq(Word) /\ Last(w) \in Word /\ w = Append(Front(w), Last(w))
        /\ Spelled(w) \in Seq(Small) /\ Spelled(Front(w)) \in Seq(Small)
        /\ Spelled(w) = Append(Spelled(Front(w)), "blank") \o Last(w)
    BY <2>1, FrontAndLast, SpelledFold DEF Reading
  <2>7. << "blank" >> \o Append(f, Lower(c)) = Append(Spelled(w), Lower(c))
    <3>1. << "blank" >> \o Append(f, Lower(c)) = Append(<< "blank" >> \o f, Lower(c))
      <4> DEFINE b == << "blank" >>
                 d == Lower(c)
      <4>1. b \in Seq(Small) /\ f \in Seq(Small) /\ d \in Small
        BY <1>0, <2>2, <2>4
      <4> HIDE DEF b, d, f
      <4>2. b \o Append(f, d) = Append(b \o f, d)
        BY <4>1, Appended
      <4> QED
        BY <4>2 DEF b, d
    <3> QED
      BY <2>3, <3>1
  <2> HIDE DEF t, w, f
  <2>8. Spelled(ReadChar(w, c)) = << "blank" >> \o Folded(AddChar(t, c))
    <3>1. CASE c = "blank" /\ Last(w) = << >>
      <4>1. ReadChar(w, c) = w
        BY <1>0, <2>1, <3>1, ReadCharType
      <4>2. AddChar(t, c) = t
        BY <2>5, <3>1 DEF AddChar
      <4> QED
        BY <2>3, <4>1, <4>2 DEF f
    <3>2. CASE c = "blank" /\ Last(w) # << >>
      <4>1. ReadChar(w, c) = Append(w, << >>)
        BY <1>0, <2>1, <3>2, ReadCharType
      <4>2. AddChar(t, c) = Append(t, c) /\ Lower(c) = "blank"
        BY <2>5, <3>2 DEF AddChar, Lower
      <4>3. Spelled(Append(w, << >>)) = Append(Spelled(w), "blank") \o << >>
        BY <1>0, <2>1, SpelledFold
      <4>4. Append(Spelled(w), "blank") \in Seq(Small)
        BY <1>0, <2>6, AppendProperties
      <4>5. Spelled(Append(w, << >>)) = Append(Spelled(w), "blank")
        BY <4>3, <4>4, ConcatEmptySeq
      <4> QED
        BY <2>4, <2>7, <4>1, <4>2, <4>5
    <3>3. CASE c \in Letters
      <4> DEFINE a == Append(Spelled(Front(w)), "blank")
                 x == Last(w)
      <4>1. ReadChar(w, c) = Append(Front(w), Append(x, Lower(c)))
        BY <1>0, <2>1, <3>3, ReadCharType
      <4>2. Lower(c) \in Letters \ {"A"} /\ c # "blank"
        BY <3>3 DEF Lower, Letters
      <4>3. AddChar(t, c) = Append(t, c)
        BY <4>2 DEF AddChar
      <4>4. Append(x, Lower(c)) \in Word
        BY <2>6, <4>2, WordAppend
      <4>5. Spelled(ReadChar(w, c)) = a \o Append(x, Lower(c))
        BY <2>6, <4>1, <4>4, SpelledFold
      <4>6. a \in Seq(Small) /\ x \in Seq(Small)
        BY <1>0, <2>6, AppendProperties
      <4>7. a \o Append(x, Lower(c)) = Append(a \o x, Lower(c))
        BY <2>4, <4>6, Appended
      <4>8. a \o x = Spelled(w)
        BY <2>6
      <4> HIDE DEF a, x
      <4> QED
        BY <2>4, <2>7, <4>3, <4>5, <4>7, <4>8
    <3> QED
      BY <3>1, <3>2, <3>3 DEF Plain, Characters
  <2> QED
    BY <2>1, <2>2, <2>8
<1> HIDE DEF P
<1>3. Seq(Plain) \subseteq P
  BY <1>1, <1>2, SeqInduct
<1> QED
  BY <1>3 DEF P

(* The joined text is never a single blank.                                *)
LEMMA JoinedStart == \A s \in Seq(Plain) : Joined(s) # << "blank" >>
<1> DEFINE P == {s \in Seq(Plain) : Joined(s) # << "blank" >>}
<1>1. << >> \in P
  BY JoinedFold
<1>2. ASSUME NEW s \in Seq(Plain), s \in P, NEW c \in Plain PROVE Append(s, c) \in P
  <2> DEFINE t == Joined(s)
  <2>1. /\ Append(s, c) \in Seq(Plain) /\ t \in Seq(Plain) /\ t # << "blank" >>
        /\ Joined(Append(s, c)) = AddChar(t, c)
    BY <1>2, JoinedFold, AppendProperties
  <2> HIDE DEF t
  <2>2. ASSUME Append(t, c) = << "blank" >> PROVE AddChar(t, c) = << >>
    <3>1. Last(Append(t, c)) = c /\ Len(Append(t, c)) = Len(t) + 1 /\ Len(t) \in Nat
      BY <2>1, FrontAndLast, AppendProperties, LenProperties
    <3>2. Last(<< "blank" >>) = "blank" /\ Len(<< "blank" >>) = 1
      BY DEF Last
    <3>3. c = "blank" /\ Len(t) = 0
      BY <2>2, <3>1, <3>2
    <3>4. t = << >>
      BY <2>1, <3>3, EmptySeq
    <3> QED
      BY <3>3, <3>4 DEF AddChar
  <2>3. AddChar(t, c) # << "blank" >>
    <3>1. AddChar(t, c) = t \/ AddChar(t, c) = Append(t, c)
      BY DEF AddChar
    <3>2. << "blank" >> # << >>
      OBVIOUS
    <3> QED
      BY <2>1, <2>2, <3>1, <3>2, Zenon
  <2> QED
    BY <2>1, <2>3
<1> HIDE DEF P
<1>3. Seq(Plain) \subseteq P
  BY <1>1, <1>2, SeqInduct
<1> QED
  BY <1>3 DEF P

(* The words of a text spell it as it is collapsed.                        *)
LEMMA WordsSpell ==
  ASSUME NEW s \in Seq(Plain)
  PROVE  /\ Words(s) = << >> <=> Collapsed(s) = << >>
         /\ Collapsed(s) # << >> =>
               Spelled(Words(s)) = << "blank" >> \o Folded(Collapsed(s))
<1> DEFINE t == Joined(s)
           w == Read(s)
           u == Front(t)
<1>0. /\ "blank" \in Small /\ "blank" \in Plain /\ << "blank" >> \in Seq(Small)
      /\ << >> \in Word /\ << >> \in Seq(Small)
  BY DEF Small, Plain, Word, Characters, Letters
<1>1. /\ t \in Seq(Plain) /\ t # << "blank" >> /\ Folded(t) \in Seq(Small)
      /\ w \in Reading /\ w # << >>
      /\ Spelled(w) = << "blank" >> \o Folded(t)
      /\ Last(w) = << >> <=> t = << >> \/ Last(t) = "blank"
  <2>1. s \in Seq(Characters)
    BY SeqMonotonic DEF Plain
  <2>2. t \in Seq(Plain) /\ t # << "blank" >> /\ w \in Reading /\ w # << >>
    BY <2>1, JoinedFold, JoinedStart, ReadFold DEF Reading
  <2> QED
    BY <2>2, FoldedFold, SpelledRead, ReadEnd, ReadJoined
<1>2. /\ Words(s) = IF Last(w) = << >> THEN Front(w) ELSE w
      /\ Collapsed(s) = IF t # << >> /\ Last(t) = "blank" THEN u ELSE t
  BY DEF Words, Read, Collapsed, Joined
<1>3. Read(<< >>) = << << >> >> /\ Front(<< << >> >>) = << >>
  <2>1. << << >> >> = Append(<< >>, << >>) /\ << >> \in Seq(Word)
    OBVIOUS
  <2>2. Front(Append(<< >>, << >>)) = << >>
    BY <1>0, <2>1, FrontAndLast
  <2> QED
    BY <2>1, <2>2, ReadFold, Zenon
<1>4. Front(w) \in Seq(Word) /\ w = Append(Front(w), Last(w))
  BY <1>1, FrontAndLast DEF Reading
<1>5. t = << >> => w = << << >> >>
  BY <1>3, ReadJoined
<1> HIDE DEF t, w
<1>6. CASE t = << >>
  BY <1>1, <1>2, <1>3, <1>5, <1>6
<1>7. CASE t # << >> /\ Last(t) # "blank"
  BY <1>1, <1>2, <1>7
<1>8. CASE t # << >> /\ Last(t) = "blank"
  <2> DEFINE f == Folded(u)
             v == Front(w)
  <2>1. Words(s) = v /\ Collapsed(s) = u /\ Last(w) = << >>
    BY <1>1, <1>2, <1>8
  <2>2. u \in Seq(Plain) /\ t = Append(u, "blank")
    BY <1>1, <1>8, FrontAndLast
  <2> HIDE DEF u
  <2>3. u # << >>
    <3>1. Append(<< >>, "blank") = << "blank" >>
      OBVIOUS
    <3> QED
      BY <1>1, <2>2, <3>1
  <2>4. f \in Seq(Small) /\ Folded(t) = Append(f, "blank")
    BY <1>0, <2>2, FoldedFold DEF Lower
  <2> HIDE DEF f, v
  <2>5. v \in Seq(Word) /\ w = Append(v, << >>)
    BY <1>4, <2>1 DEF v
  <2>6. Spelled(v) \in Seq(Small) /\ Spelled(w) = Append(Spelled(v), "blank") \o << >>
    BY <1>0, <2>5, SpelledFold
  <2>7. Spelled(w) = Append(Spelled(v), "blank")
    BY <1>0, <2>6, AppendProperties, ConcatEmptySeq
  <2>8. Spelled(w) = Append(<< "blank" >> \o f, "blank") /\ << "blank" >> \o f \in Seq(Small)
    BY <1>0, <1>1, <2>4, Appended, ConcatProperties
  <2>9. Spelled(v) = << "blank" >> \o f
    <3> DEFINE x == Spelled(v)
               y == << "blank" >> \o f
    <3>1. x \in Seq(Small) /\ y \in Seq(Small) /\ Append(x, "blank") = Append(y, "blank")
      BY <2>6, <2>7, <2>8
    <3> HIDE DEF x, y
    <3>2. x = y
      BY <1>0, <3>1, AppendInjective
    <3> QED
      BY <3>2 DEF x, y
  <2>10. v # << >>
    <3>1. Len(<< "blank" >> \o f) = 1 + Len(f) /\ Len(f) \in Nat /\ Len(<< >>) = 0
      BY <1>0, <2>4, ConcatProperties, LenProperties
    <3> QED
      BY <2>9, <3>1, SpelledFold
  <2> QED
    BY <2>1, <2>3, <2>9, <2>10 DEF f
<1> QED
  BY <1>6, <1>7, <1>8

-----------------------------------------------------------------------------
(***************************************************************************)
(* The specification                                                       *)
(***************************************************************************)

(* Two texts have the same normal form exactly if they have the same       *)
(* words.                                                                  *)
THEOREM WordsDecide ==
  ASSUME NEW s \in Seq(Characters), NEW t \in Seq(Characters)
  PROVE  /\ _normalize(s) = << >> <=> Words(s) = << >>
         /\ _normalize(s) = _normalize(t) <=> Words(s) = Words(t)
<1>1. ASSUME NEW x \in Seq(Characters)
      PROVE  /\ _normalize(x) \in Seq(Small)
             /\ _normalize(x) = << >> <=> Words(x) = << >>
             /\ Words(x) # << >> => Spelled(Words(x)) = << "blank" >> \o _normalize(x)
  <2> DEFINE y == Typeable(x)
             p == Collapsed(y)
  <2>1. y \in Seq(Plain) /\ Words(y) = Words(x) /\ p \in Seq(Plain)
    BY TypeableFold, ReadTypeable, SameWords DEF Words, Read
  <2>2. Folded(p) \in Seq(Small) /\ Len(Folded(p)) = Len(p)
    BY <2>1, FoldedFold
  <2>3. Folded(p) = << >> <=> p = << >>
    BY <2>1, <2>2, EmptySeq
  <2>4. _normalize(x) = Folded(p)
    BY DEF _normalize
  <2> HIDE DEF y
  <2>5. /\ Words(y) = << >> <=> p = << >>
        /\ p # << >> => Spelled(Words(y)) = << "blank" >> \o Folded(p)
    BY <2>1, WordsSpell
  <2> HIDE DEF p
  <2> QED
    BY <2>1, <2>2, <2>3, <2>4, <2>5
<1>2. ASSUME Words(s) = Words(t) PROVE _normalize(s) = _normalize(t)
  <2>1. CASE Words(s) = << >>
    BY <1>1, <1>2, <2>1
  <2>2. CASE Words(s) # << >>
    <3> DEFINE n == _normalize(s)
               m == _normalize(t)
               b == << "blank" >>
    <3>1. n \in Seq(Small) /\ m \in Seq(Small) /\ b \o n = b \o m
      BY <1>1, <1>2, <2>2
    <3>2. b \in Seq(Small)
      BY DEF Small, Plain, Characters, Letters
    <3> HIDE DEF n, m, b
    <3>3. n = m
      BY <3>1, <3>2, ConcatSimplifications
    <3> QED
      BY <3>3 DEF n, m
  <2> QED
    BY <2>1, <2>2
<1>3. ASSUME _normalize(s) = _normalize(t) PROVE Words(s) = Words(t)
  BY <1>3, SameWords
<1> QED
  BY <1>1, <1>2, <1>3

(* What is kept of a request: the phrase is the one of the name, and the   *)
(* answer is the one to what was typed.                                    *)
IInv ==
    /\ name \in Seq(Characters)
    /\ typed \in Seq(Characters)
    /\ shown \in {<< >>, confirmation_phrase(name)}
    /\ answer \in {"none", "yes", "no"}
    /\ answer # "none" => (answer = "yes" <=> check_override(name, typed))

LEMMA TextsAreSequences == Texts \subseteq Seq(Characters)
BY SeqDef, LengthAssumption DEF Texts, BoundedSeq, SeqOf

(* The inductive invariant.                                                *)
THEOREM Invariance == Spec => []IInv
<1>1. Init => IInv
  BY TextsAreSequences DEF Init, IInv
<1>2. IInv /\ [Next]_vars => IInv'
  <2> SUFFICES ASSUME IInv, [Next]_vars PROVE IInv'
    OBVIOUS
  <2>1. CASE flash_confirm
    BY <2>1 DEF flash_confirm, IInv
  <2>2. CASE start_flash
    <3>1. typed' \in Seq(Characters)
      BY <2>2, TextsAreSequences DEF start_flash
    <3>2. /\ name' = name /\ shown' = shown
          /\ answer' = IF check_override(name, typed') THEN "yes" ELSE "no"
      BY <2>2 DEF start_flash
    <3>3. answer' \in {"yes", "no"} /\ (answer' = "yes" <=> check_override(name, typed'))
      BY <3>2
    <3>4. check_override(name', typed') <=> check_override(name, typed')
      BY <3>2
    <3>5. confirmation_phrase(name') = confirmation_phrase(name)
      BY <3>2
    <3> QED
      BY <3>1, <3>2, <3>3, <3>4, <3>5 DEF IInv
  <2>3. CASE UNCHANGED vars
    BY <2>3 DEF vars, IInv
  <2> QED
    BY <2>1, <2>2, <2>3 DEF Next
<1> QED
  BY <1>1, <1>2, PTL DEF Spec

(* The answer is yes exactly if the words of the name were typed.          *)
THEOREM WordsConfirm == Spec => []ConfirmedByWords
<1>1. IInv => ConfirmedByWords
  <2> SUFFICES ASSUME IInv, answer # "none" PROVE ConfirmedByWords
    BY DEF ConfirmedByWords
  <2>1. name \in Seq(Characters) /\ typed \in Seq(Characters)
        /\ (answer = "yes" <=> check_override(name, typed))
    BY DEF IInv
  <2>2. /\ _normalize(typed) = << >> <=> Words(typed) = << >>
        /\ _normalize(typed) = _normalize(name) <=> Words(typed) = Words(name)
    BY <2>1, WordsDecide
  <2>3. _normalize(<< >>) = << >>
    BY TypeableFold, JoinedFold, FoldedFold DEF _normalize, Collapsed, Joined
  <2>4. check_override(name, typed) <=> Words(typed) # << >> /\ Words(typed) = Words(name)
    BY <2>2, <2>3 DEF check_override
  <2> QED
    BY <2>1, <2>4 DEF ConfirmedByWords
<1> QED
  BY <1>1, Invariance, PTL

(* The phrase on the page can be typed, and typing it confirms.            *)
THEOREM ShownPhraseWorks == Spec => []PhraseWorks
<1>1. IInv => PhraseWorks
  <2> SUFFICES ASSUME IInv, shown # << >>, Words(name) # << >> PROVE PhraseWorks
    BY DEF PhraseWorks
  <2> DEFINE p == Collapsed(Typeable(name))
  <2>1. name \in Seq(Characters) /\ shown = confirmation_phrase(name)
    BY DEF IInv
  <2>2. p \in Seq(Plain) /\ p \in Seq(Characters) /\ Words(p) = Words(name)
    BY <2>1, SameWords, SeqMonotonic DEF Plain
  <2>3. Typeable(name) \in Seq(Plain) /\ Words(Typeable(name)) = Words(name)
    BY <2>1, TypeableFold, ReadTypeable DEF Words, Read
  <2>4. p # << >>
    BY <2>3, WordsSpell
  <2>5. shown = p
    BY <2>1, <2>4 DEF confirmation_phrase
  <2> HIDE DEF p
  <2>6. \A i \in DOMAIN shown : shown[i] # "glyph"
    <3>1. \A i \in DOMAIN p : p[i] \in Plain
      BY <2>2, LenProperties, ElementOfSeq
    <3> QED
      BY <2>5, <3>1 DEF Plain
  <2>7. /\ _normalize(p) = << >> <=> Words(p) = << >>
        /\ _normalize(p) = _normalize(name) <=> Words(p) = Words(name)
    BY <2>1, <2>2, WordsDecide
  <2>8. check_override(name, shown)
    BY <2>2, <2>4, <2>5, <2>7 DEF check_override
  <2> QED
    BY <2>6, <2>8 DEF PhraseWorks
<1> QED
  BY <1>1, Invariance, PTL
=============================================================================
