----------------------------- MODULE FoldProofs -----------------------------
(***************************************************************************)
(* Induction over numbers and sequences, and what a fold computes.         *)
(*                                                                         *)
(* An induction is carried by the set of the numbers, or of the sequences, *)
(* of which the claim holds.  A fold is compared with the recursion of     *)
(* RecFold, whose step is a function.                                      *)
(***************************************************************************)
EXTENDS Lists, FiniteSetTheorems, SequenceTheorems, TLAPS

-----------------------------------------------------------------------------
(***************************************************************************)
(* Induction                                                               *)
(***************************************************************************)

(* A set of numbers has a least one.                                       *)
LEMMA LeastNumber ==
  ASSUME NEW S, S \subseteq Nat, S # {}
  PROVE  \E m \in S : \A k \in S : m <= k
<1> DEFINE R == OpToRel(<, Nat)
<1>1. IsWellFoundedOn(R, Nat)
  BY NatLessThanWellFounded
<1>2. \A x, y \in Nat : y < x => <<y, x>> \in R
  BY DEF OpToRel
<1> HIDE DEF R
<1>3. PICK m \in S : \A k \in S : ~(<<k, m>> \in R)
  BY <1>1, WFMin
<1>4. ASSUME NEW k \in S PROVE m <= k
  <2>1. ~(k < m)
    BY <1>2, <1>3
  <2> QED
    BY <2>1
<1> QED
  BY <1>4

(* A set of numbers with zero and every successor is all of them.          *)
LEMMA NatInduct ==
  ASSUME NEW S, 0 \in S, \A n \in Nat : n \in S => n + 1 \in S
  PROVE  Nat \subseteq S
<1> DEFINE T == Nat \ S
<1> SUFFICES ASSUME T # {} PROVE FALSE
  OBVIOUS
<1>1. PICK m \in T : \A k \in T : m <= k
  BY LeastNumber
<1>2. m \in Nat \ {0} /\ m - 1 \in Nat /\ m - 1 \notin T
  BY <1>1
<1> QED
  BY <1>2

(* A set of sequences with the empty one and every longer one is all.      *)
LEMMA SeqInduct ==
  ASSUME NEW E, NEW S, << >> \in S,
         \A s \in Seq(E) : s \in S => \A c \in E : Append(s, c) \in S
  PROVE  Seq(E) \subseteq S
<1> DEFINE N == {n \in Nat : \A s \in Seq(E) : Len(s) = n => s \in S}
<1>1. 0 \in N
  BY EmptySeq
<1>2. ASSUME NEW n \in Nat, n \in N PROVE n + 1 \in N
  <2>1. ASSUME NEW s \in Seq(E), Len(s) = n + 1 PROVE s \in S
    <3>1. PICK t \in Seq(E), c \in E : s = Append(t, c)
      <4>1. s # << >>
        BY <2>1, EmptySeq
      <4> QED
        BY <4>1, SequenceEmptyOrAppend
    <3>2. Len(t) = n
      BY <2>1, <3>1, AppendProperties, LenProperties
    <3> QED
      BY <1>2, <3>1, <3>2
  <2> QED
    BY <2>1
<1>3. Nat \subseteq N
  <2> HIDE DEF N
  <2> QED
    BY <1>1, <1>2, NatInduct
<1> QED
  BY <1>3, LenProperties

(* What a longer sequence has.                                             *)
LEMMA AppendElements ==
  ASSUME NEW E, NEW l \in Seq(E), NEW e \in E
  PROVE  ToSet(Append(l, e)) = ToSet(l) \cup {e}
<1> DEFINE n == Len(l)
           t == Append(l, e)
<1>1. /\ n \in Nat /\ DOMAIN l = 1 .. n /\ DOMAIN t = 1 .. n + 1
      /\ \A i \in 1 .. n : t[i] = l[i]
      /\ t[n + 1] = e
  BY AppendProperties, LenProperties
<1> HIDE DEF n, t
<1>2. 1 .. n + 1 = (1 .. n) \cup {n + 1}
  BY <1>1
<1> QED
  BY <1>1, <1>2 DEF ToSet, t

(* A sequence is its front and its last element.                           *)
LEMMA FrontAndLast ==
  ASSUME NEW E, NEW l \in Seq(E)
  PROVE  /\ l # << >> => /\ Front(l) \in Seq(E) /\ Last(l) \in E
                         /\ l = Append(Front(l), Last(l))
         /\ \A e \in E : Front(Append(l, e)) = l /\ Last(Append(l, e)) = e
<1>1. ASSUME NEW m \in Seq(E), NEW e \in E
      PROVE  Front(Append(m, e)) = m /\ Last(Append(m, e)) = e
  <2> DEFINE n == Len(m)
             t == Append(m, e)
  <2>1. /\ t \in Seq(E) /\ Len(t) = n + 1 /\ n \in Nat /\ t[n + 1] = e
        /\ \A i \in 1 .. n : t[i] = m[i]
    BY AppendProperties, LenProperties
  <2>2. Front(t) = SubSeq(t, 1, n)
    BY <2>1 DEF Front
  <2>3. Front(t) = m
    BY <2>1, <2>2, SubSeqProperties, SeqEqual
  <2>4. Last(t) = e
    BY <2>1 DEF Last
  <2> QED
    BY <2>3, <2>4
<1>2. ASSUME l # << >>
      PROVE  Front(l) \in Seq(E) /\ Last(l) \in E /\ l = Append(Front(l), Last(l))
  <2>1. PICK m \in Seq(E), e \in E : l = Append(m, e)
    BY <1>2, SequenceEmptyOrAppend
  <2> QED
    BY <1>1, <2>1
<1> QED
  BY <1>1, <1>2

-----------------------------------------------------------------------------
(***************************************************************************)
(* Folds                                                                   *)
(***************************************************************************)

(* The recursion behind FoldLeft, over the sets of places of a sequence.   *)
Recursion(g, step, a, e) ==
    g = [s \in SUBSET DOMAIN e |->
            IF s = {} THEN a ELSE step[<<g[s \ {Max(s)}], e[Max(s)]>>]]

(* One step: from what was computed so far and the next element.           *)
IsStep(step, A, E) == step \in [A \X E -> A]

(* A function that goes by the recursion wherever the step is defined.     *)
Solves(h, A, step, a, e) ==
    /\ h[{}] = a
    /\ \A s \in SUBSET DOMAIN e :
          s # {} /\ h[s \ {Max(s)}] \in A => h[s] = step[<<h[s \ {Max(s)}], e[Max(s)]>>]

RecFold(step, a, e) == (CHOOSE g : Recursion(g, step, a, e))[DOMAIN e]

(* The last of some places.                                                *)
LEMMA MaxPlace ==
  ASSUME NEW n \in Nat, NEW s \in SUBSET (1 .. n), s # {}
  PROVE  Max(s) \in s /\ \A i \in s : i <= Max(s)
<1> DEFINE T == {k \in Nat : \A i \in s : i <= k}
<1>1. T # {}
  BY n \in T
<1>2. PICK m \in T : \A k \in T : m <= k
  BY <1>1, LeastNumber
<1>3. m \in s
  <2> SUFFICES ASSUME m \notin s PROVE FALSE
    OBVIOUS
  <2>1. PICK i \in s : TRUE
    OBVIOUS
  <2>2. m \in Nat \ {0}
    BY <1>2, <2>1
  <2>3. m - 1 \in T
    BY <1>2, <2>2
  <2> QED
    BY <1>2, <2>2, <2>3
<1>4. \A i \in s : m >= i
  BY <1>2
<1> QED
  BY <1>3, <1>4 DEF Max

LEMMA LastPlace ==
  ASSUME NEW n \in Nat
  PROVE  /\ 1 .. n + 1 # {}
         /\ Max(1 .. n + 1) = n + 1
         /\ (1 .. n + 1) \ {n + 1} = 1 .. n
<1> DEFINE s == 1 .. n + 1
<1>1. n + 1 \in Nat /\ n + 1 \in s
  OBVIOUS
<1>2. s \in SUBSET (1 .. n + 1)
  OBVIOUS
<1>3. \A i \in s : i \in Nat /\ i <= n + 1
  OBVIOUS
<1>4. s \ {n + 1} = 1 .. n
  OBVIOUS
<1> HIDE DEF s
<1>5. s # {}
  BY <1>1
<1>6. Max(s) \in s /\ \A i \in s : i <= Max(s)
  BY <1>1, <1>2, <1>5, MaxPlace
<1>7. Max(s) \in Nat /\ Max(s) <= n + 1 /\ n + 1 <= Max(s)
  BY <1>1, <1>3, <1>6
<1>8. Max(s) = n + 1
  BY <1>7
<1> QED
  BY <1>4, <1>5, <1>8 DEF s

(* There is one such function.                                             *)
LEMMA RecursionUnique ==
  ASSUME NEW A, NEW E, NEW a \in A, NEW step, IsStep(step, A, E), NEW e \in Seq(E),
         NEW g, Recursion(g, step, a, e),
         NEW h, Solves(h, A, step, a, e)
  PROVE  \A s \in SUBSET DOMAIN e : h[s] \in A /\ h[s] = g[s]
<1> DEFINE N == {n \in Nat : \A s \in SUBSET (1 .. n) :
                                s \in SUBSET DOMAIN e => h[s] \in A /\ h[s] = g[s]}
<1>0. Len(e) \in Nat /\ DOMAIN e = 1 .. Len(e) /\ \A i \in DOMAIN e : e[i] \in E
  BY LenProperties, ElementOfSeq
<1>1. g[{}] = a /\ h[{}] = a
  BY DEF Recursion, Solves
<1>2. \A s \in SUBSET DOMAIN e : s # {} => g[s] = step[<<g[s \ {Max(s)}], e[Max(s)]>>]
  BY DEF Recursion
<1>3. 0 \in N
  <2>1. \A s \in SUBSET (1 .. 0) : s = {}
    OBVIOUS
  <2> QED
    BY <1>1, <2>1
<1>4. ASSUME NEW n \in Nat, n \in N PROVE n + 1 \in N
  <2>1. ASSUME NEW s \in SUBSET (1 .. n + 1), s \in SUBSET DOMAIN e
        PROVE  h[s] \in A /\ h[s] = g[s]
    <3>1. CASE s = {}
      BY <1>1, <3>1
    <3>2. CASE s # {}
      <4>1. Max(s) \in s /\ \A i \in s : i <= Max(s)
        <5>1. n + 1 \in Nat
          OBVIOUS
        <5> QED
          BY <3>2, <5>1, MaxPlace
      <4>2. s \ {Max(s)} \in SUBSET (1 .. n) /\ s \ {Max(s)} \in SUBSET DOMAIN e
        BY <2>1, <4>1
      <4>3. h[s \ {Max(s)}] \in A /\ h[s \ {Max(s)}] = g[s \ {Max(s)}]
        BY <1>4, <4>2
      <4>4. h[s] = g[s] /\ h[s] = step[<<h[s \ {Max(s)}], e[Max(s)]>>]
        BY <1>2, <2>1, <3>2, <4>3 DEF Solves
      <4>5. e[Max(s)] \in E
        BY <1>0, <2>1, <4>1
      <4> QED
        BY <4>3, <4>4, <4>5 DEF IsStep
    <3> QED
      BY <3>1, <3>2
  <2> QED
    BY <2>1
<1>5. Len(e) \in N
  <2> HIDE DEF N
  <2> QED
    BY <1>0, <1>3, <1>4, NatInduct
<1> QED
  BY <1>0, <1>5

(* The recursion has a solution.                                           *)
LEMMA RecursionExists ==
  ASSUME NEW A, NEW E, NEW a \in A, NEW step, IsStep(step, A, E)
  PROVE  \A e \in Seq(E) : \E g \in [SUBSET DOMAIN e -> A] : Recursion(g, step, a, e)
<1> DEFINE S == {e \in Seq(E) : \E g \in [SUBSET DOMAIN e -> A] : Recursion(g, step, a, e)}
<1>1. << >> \in S
  <2> DEFINE g == [s \in SUBSET DOMAIN << >> |-> a]
  <2>1. DOMAIN << >> = {} /\ << >> \in Seq(E)
    OBVIOUS
  <2>2. g \in [SUBSET DOMAIN << >> -> A] /\ Recursion(g, step, a, << >>)
    BY <2>1 DEF Recursion
  <2> QED
    BY <2>1, <2>2
<1>2. ASSUME NEW e \in Seq(E), e \in S, NEW c \in E PROVE Append(e, c) \in S
  <2> DEFINE n == Len(e)
             t == Append(e, c)
  <2>1. PICK g \in [SUBSET DOMAIN e -> A] : Recursion(g, step, a, e)
    BY <1>2
  <2>2. /\ t \in Seq(E) /\ n \in Nat /\ DOMAIN e = 1 .. n /\ DOMAIN t = 1 .. n + 1
        /\ \A i \in 1 .. n : t[i] = e[i] /\ e[i] \in E
        /\ t[n + 1] = c
    BY AppendProperties, LenProperties, ElementOfSeq
  <2> DEFINE h == [s \in SUBSET DOMAIN t |->
                      IF n + 1 \in s THEN step[<<g[s \ {n + 1}], c>>] ELSE g[s]]
  <2> HIDE DEF n, t
  <2>3. \A s \in SUBSET DOMAIN t : s \ {n + 1} \in SUBSET DOMAIN e
    BY <2>2
  <2>4. h \in [SUBSET DOMAIN t -> A]
    <3>1. ASSUME NEW s \in SUBSET DOMAIN t PROVE h[s] \in A
      <4>1. CASE n + 1 \in s
        BY <2>3, <4>1 DEF IsStep
      <4>2. CASE n + 1 \notin s
        <5>1. s \in SUBSET DOMAIN e
          BY <2>3, <4>2
        <5> QED
          BY <4>2, <5>1
      <4> QED
        BY <4>1, <4>2
    <3> QED
      BY <3>1
  <2>5. ASSUME NEW s \in SUBSET DOMAIN t
        PROVE  h[s] = IF s = {} THEN a ELSE step[<<h[s \ {Max(s)}], t[Max(s)]>>]
    <3>1. CASE n + 1 \in s
      <4>1. Max(s) = n + 1
        <5>1. n + 1 \in Nat /\ s \in SUBSET (1 .. n + 1) /\ s # {}
          BY <2>2, <3>1
        <5>2. Max(s) \in s /\ \A i \in s : i <= Max(s)
          BY <5>1, MaxPlace
        <5> QED
          BY <2>2, <3>1, <5>1, <5>2
      <4>2. s \ {n + 1} \in SUBSET DOMAIN t /\ h[s \ {n + 1}] = g[s \ {n + 1}]
        OBVIOUS
      <4> QED
        BY <2>2, <3>1, <4>1, <4>2
    <3>2. CASE n + 1 \notin s
      <4>1. s \in SUBSET DOMAIN e /\ h[s] = g[s]
        BY <2>3, <3>2
      <4>2. CASE s = {}
        BY <2>1, <4>1, <4>2 DEF Recursion
      <4>3. CASE s # {}
        <5>1. Max(s) \in 1 .. n
          BY <2>2, <4>1, <4>3, MaxPlace
        <5>2. t[Max(s)] = e[Max(s)]
          BY <2>2, <5>1
        <5>3. h[s \ {Max(s)}] = g[s \ {Max(s)}]
          BY <3>2
        <5>4. g[s] = step[<<g[s \ {Max(s)}], e[Max(s)]>>]
          BY <2>1, <4>1, <4>3 DEF Recursion
        <5> QED
          BY <4>1, <4>3, <5>2, <5>3, <5>4
      <4> QED
        BY <4>2, <4>3
    <3> QED
      BY <3>1, <3>2
  <2>6. Recursion(h, step, a, t)
    BY <2>5 DEF Recursion
  <2> HIDE DEF h
  <2>7. \E k \in [SUBSET DOMAIN t -> A] : Recursion(k, step, a, t)
    BY <2>4, <2>6
  <2> QED
    BY <2>2, <2>7 DEF t
<1> HIDE DEF S
<1>3. Seq(E) \subseteq S
  BY <1>1, <1>2, SeqInduct
<1> QED
  BY <1>3 DEF S

(* What RecFold computes: the base of nothing, and one step for each       *)
(* element, from the first to the last.                                    *)
LEMMA RecFoldFacts ==
  ASSUME NEW A, NEW E, NEW a \in A, NEW step, IsStep(step, A, E)
  PROVE  /\ RecFold(step, a, << >>) = a
         /\ \A e \in Seq(E) : RecFold(step, a, e) \in A
         /\ \A e \in Seq(E), c \in E :
               RecFold(step, a, Append(e, c)) = step[<<RecFold(step, a, e), c>>]
<1>1. ASSUME NEW e \in Seq(E)
      PROVE  \E g \in [SUBSET DOMAIN e -> A] :
                Recursion(g, step, a, e) /\ RecFold(step, a, e) = g[DOMAIN e]
  <2> DEFINE g == CHOOSE g : Recursion(g, step, a, e)
  <2>1. PICK h \in [SUBSET DOMAIN e -> A] : Recursion(h, step, a, e)
    BY RecursionExists
  <2>2. Recursion(g, step, a, e)
    BY <2>1
  <2>3. RecFold(step, a, e) = g[DOMAIN e]
    BY DEF RecFold
  <2> HIDE DEF g
  <2>4. Solves(h, A, step, a, e)
    BY <2>1 DEF Recursion, Solves
  <2>5. \A s \in SUBSET DOMAIN e : h[s] \in A /\ h[s] = g[s]
    BY <2>2, <2>4, RecursionUnique
  <2>6. RecFold(step, a, e) = h[DOMAIN e]
    BY <2>3, <2>5
  <2> QED
    BY <2>1, <2>6
<1>1a. ASSUME NEW e \in Seq(E) PROVE RecFold(step, a, e) \in A
  <2>1. PICK g \in [SUBSET DOMAIN e -> A] : RecFold(step, a, e) = g[DOMAIN e]
    BY <1>1
  <2> QED
    BY <2>1
<1>2. RecFold(step, a, << >>) = a
  <2>1. << >> \in Seq(E) /\ DOMAIN << >> = {}
    OBVIOUS
  <2>2. PICK g \in [SUBSET DOMAIN << >> -> A] :
            Recursion(g, step, a, << >>) /\ RecFold(step, a, << >>) = g[DOMAIN << >>]
    BY <1>1, <2>1
  <2> QED
    BY <2>1, <2>2 DEF Recursion
<1>3. ASSUME NEW e \in Seq(E), NEW c \in E
      PROVE  RecFold(step, a, Append(e, c)) = step[<<RecFold(step, a, e), c>>]
  <2> DEFINE n == Len(e)
             t == Append(e, c)
  <2>1. /\ t \in Seq(E) /\ n \in Nat /\ DOMAIN e = 1 .. n /\ DOMAIN t = 1 .. n + 1
        /\ \A i \in 1 .. n : t[i] = e[i] /\ e[i] \in E
        /\ t[n + 1] = c
    BY AppendProperties, LenProperties, ElementOfSeq
  <2> HIDE DEF n, t
  <2>2. PICK g \in [SUBSET DOMAIN e -> A] :
            Recursion(g, step, a, e) /\ RecFold(step, a, e) = g[DOMAIN e]
    BY <1>1
  <2>3. PICK h \in [SUBSET DOMAIN t -> A] :
            Recursion(h, step, a, t) /\ RecFold(step, a, t) = h[DOMAIN t]
    BY <1>1, <2>1
  <2>4. /\ h[{}] = a
        /\ \A s \in SUBSET DOMAIN t :
              s # {} => h[s] = step[<<h[s \ {Max(s)}], t[Max(s)]>>]
    BY <2>3 DEF Recursion
  <2>5. ASSUME NEW s \in SUBSET DOMAIN e, s # {}
        PROVE  h[s] = step[<<h[s \ {Max(s)}], e[Max(s)]>>]
    <3>1. s \in SUBSET (1 .. n)
      BY <2>1
    <3>2. Max(s) \in s
      BY <2>1, <2>5, <3>1, MaxPlace
    <3>3. Max(s) \in 1 .. n /\ s \in SUBSET DOMAIN t
      BY <2>1, <3>1, <3>2
    <3> QED
      BY <2>1, <2>4, <2>5, <3>3
  <2>6. \A s \in SUBSET DOMAIN e : h[s] \in A /\ h[s] = g[s]
    <3>1. Solves(h, A, step, a, e)
      BY <2>4, <2>5 DEF Solves
    <3> QED
      BY <2>2, <3>1, RecursionUnique
  <2>7. 1 .. n + 1 # {} /\ Max(1 .. n + 1) = n + 1 /\ (1 .. n + 1) \ {n + 1} = 1 .. n
    BY <2>1, LastPlace
  <2>8. h[DOMAIN t] = step[<<h[DOMAIN t \ {Max(DOMAIN t)}], t[Max(DOMAIN t)]>>]
    BY <2>1, <2>4, <2>7
  <2>9. h[DOMAIN t] = step[<<h[DOMAIN e], c>>]
    BY <2>1, <2>7, <2>8
  <2> QED
    BY <2>1, <2>2, <2>3, <2>6, <2>9 DEF t
<1> QED
  BY <1>1a, <1>2, <1>3

(* A function that solves the recursion, as the one in FoldLeft does, ends *)
(* where RecFold ends.                                                     *)
LEMMA SolutionIsRecFold ==
  ASSUME NEW A, NEW E, NEW a \in A, NEW step, IsStep(step, A, E), NEW e \in Seq(E),
         NEW h, Solves(h, A, step, a, e)
  PROVE  h[DOMAIN e] = RecFold(step, a, e)
<1> DEFINE g == CHOOSE g : Recursion(g, step, a, e)
<1>1. Recursion(g, step, a, e)
  BY RecursionExists
<1>2. RecFold(step, a, e) = g[DOMAIN e]
  BY DEF RecFold
<1> HIDE DEF g
<1>3. h[DOMAIN e] = g[DOMAIN e]
  BY <1>1, RecursionUnique
<1> QED
  BY <1>2, <1>3

(* The element at the last of some places.                                 *)
LEMMA PlaceElement ==
  ASSUME NEW E, NEW e \in Seq(E), NEW s \in SUBSET DOMAIN e, s # {}
  PROVE  e[Max(s)] \in E
<1>1. DOMAIN e = 1 .. Len(e) /\ Len(e) \in Nat
  BY LenProperties
<1> QED
  BY <1>1, MaxPlace, ElementOfSeq

-----------------------------------------------------------------------------
(***************************************************************************)
(* Kept                                                                    *)
(***************************************************************************)

(* Kept decides element by element.                                        *)
LEMMA KeptFold ==
  ASSUME NEW E, NEW S
  PROVE  /\ Kept(<< >>, S) = << >>
         /\ \A l \in Seq(E) : Kept(l, S) \in Seq(E)
         /\ \A l \in Seq(E), e \in E :
               /\ e \in S => Kept(Append(l, e), S) = Append(Kept(l, S), e)
               /\ e \notin S => Kept(Append(l, e), S) = Kept(l, S)
<1> DEFINE A == Seq(E)
           step == [x \in A \X E |-> IF x[2] \in S THEN Append(x[1], x[2]) ELSE x[1]]
<1>1. << >> \in A /\ IsStep(step, A, E)
  BY AppendProperties DEF IsStep
<1>2. ASSUME NEW l \in Seq(E) PROVE Kept(l, S) = RecFold(step, << >>, l)
  <2> DEFINE Solution(h) ==
                h = [s \in SUBSET DOMAIN l |->
                        IF s = {} THEN << >>
                        ELSE IF l[Max(s)] \in S THEN Append(h[s \ {Max(s)}], l[Max(s)])
                             ELSE h[s \ {Max(s)}]]
             fold == CHOOSE h : Solution(h)
  <2>1. \A s \in SUBSET DOMAIN l : s # {} => l[Max(s)] \in E
    BY PlaceElement
  <2>2. \E h : Solution(h)
    <3>1. PICK h \in [SUBSET DOMAIN l -> A] : Recursion(h, step, << >>, l)
      BY <1>1, RecursionExists
    <3>2. \A s \in SUBSET DOMAIN l :
            h[s] = IF s = {} THEN << >>
                   ELSE IF l[Max(s)] \in S THEN Append(h[s \ {Max(s)}], l[Max(s)])
                        ELSE h[s \ {Max(s)}]
      BY <2>1, <3>1 DEF Recursion
    <3> QED
      BY <3>1, <3>2
  <2>3. Kept(l, S) = fold[DOMAIN l]
    BY DEF Kept, FoldLeft, MapThenFoldSet
  <2>4. Solution(fold)
    BY <2>2
  <2> HIDE DEF fold
  <2>5. Solves(fold, A, step, << >>, l)
    BY <2>1, <2>4 DEF Solves
  <2> HIDE DEF A, step
  <2> QED
    BY <1>1, <2>3, <2>5, SolutionIsRecFold
<1>3. << >> \in Seq(E) /\ \A l \in Seq(E), e \in E : Append(l, e) \in Seq(E)
  BY AppendProperties
<1>4. /\ RecFold(step, << >>, << >>) = << >>
      /\ \A l \in Seq(E) : RecFold(step, << >>, l) \in A
      /\ \A l \in Seq(E), e \in E :
            RecFold(step, << >>, Append(l, e)) = step[<<RecFold(step, << >>, l), e>>]
  <2> HIDE DEF A, step
  <2> QED
    BY <1>1, RecFoldFacts
<1>5. \A a \in A, e \in E : step[<<a, e>>] = IF e \in S THEN Append(a, e) ELSE a
  OBVIOUS
<1>6. Kept(<< >>, S) = << >>
  BY <1>2, <1>3, <1>4
<1>7. \A l \in Seq(E) : Kept(l, S) \in Seq(E)
  BY <1>2, <1>4
<1> HIDE DEF step
<1>8. ASSUME NEW l \in Seq(E), NEW e \in E
      PROVE  /\ e \in S => Kept(Append(l, e), S) = Append(Kept(l, S), e)
             /\ e \notin S => Kept(Append(l, e), S) = Kept(l, S)
  <2>1. Kept(Append(l, e), S) = step[<<Kept(l, S), e>>]
    BY <1>2, <1>3, <1>4
  <2> QED
    BY <1>5, <1>7, <2>1
<1> QED
  BY <1>6, <1>7, <1>8

(* It keeps exactly the elements of the set.                               *)
LEMMA KeptElements ==
  ASSUME NEW E, NEW S
  PROVE  \A l \in Seq(E) : ToSet(Kept(l, S)) = ToSet(l) \cap S
<1>0. \A l \in Seq(E), e \in E :
         /\ e \in S => Kept(Append(l, e), S) = Append(Kept(l, S), e)
         /\ e \notin S => Kept(Append(l, e), S) = Kept(l, S)
  BY KeptFold, Zenon
<1> DEFINE P == {l \in Seq(E) : ToSet(Kept(l, S)) = ToSet(l) \cap S}
<1>1. << >> \in P
  BY KeptFold, EmptySeq DEF ToSet
<1>2. ASSUME NEW l \in Seq(E), l \in P, NEW e \in E PROVE Append(l, e) \in P
  <2>1. /\ Kept(l, S) \in Seq(E)
        /\ ToSet(Kept(l, S)) = ToSet(l) \cap S
        /\ Append(l, e) \in Seq(E)
    BY <1>2, KeptFold, AppendProperties
  <2>2. /\ e \in S => Kept(Append(l, e), S) = Append(Kept(l, S), e)
        /\ e \notin S => Kept(Append(l, e), S) = Kept(l, S)
    BY <1>0
  <2>3. ToSet(Append(l, e)) = ToSet(l) \cup {e}
    BY AppendElements
  <2>4. ToSet(Append(Kept(l, S), e)) = ToSet(Kept(l, S)) \cup {e}
    BY <2>1, AppendElements
  <2>5. ToSet(Kept(Append(l, e), S)) = ToSet(Append(l, e)) \cap S
    BY <2>1, <2>2, <2>3, <2>4
  <2> QED
    BY <2>1, <2>5
<1> HIDE DEF P
<1>3. Seq(E) \subseteq P
  BY <1>1, <1>2, SeqInduct
<1> QED
  BY <1>3 DEF P
=============================================================================
