-------------------------- MODULE HistoryFileProofs --------------------------
(***************************************************************************)
(* What TLAPS proves about the history file: for any number of shells,     *)
(* commands and characters, and blocks and histories of any size.          *)
(***************************************************************************)
EXTENDS HistoryFile, SequenceTheorems, WellFoundedInduction, TLAPS

-----------------------------------------------------------------------------
(* Numbers and sequences *)

\* A set of naturals that is not empty has a least element.
LEMMA LeastNatural ==
    ASSUME NEW T, T \subseteq Nat, T # {}
    PROVE  \E x \in T : \A y \in T : x <= y
<1> DEFINE R == OpToRel(<, Nat)
<1>1. PICK x \in T : \A y \in T : ~(<<y, x>> \in R)
  <2>1. IsWellFoundedOn(R, Nat)
    BY NatLessThanWellFounded
  <2> HIDE DEF R
  <2> QED BY <2>1, WFMin
<1>2. \A y \in T : ~(y < x)
  BY <1>1 DEF OpToRel
<1>3. x \in Nat /\ \A y \in T : y \in Nat
  OBVIOUS
<1> HIDE DEF R
<1>4. \A y \in T : x <= y
  BY <1>2, <1>3
<1> QED BY <1>4

\* A set of naturals that is not empty has a minimum.
LEMMA MinFacts ==
    ASSUME NEW S, S \subseteq Nat, S # {}
    PROVE  Min(S) \in S /\ \A y \in S : Min(S) <= y
BY LeastNatural DEF Min

\* Induction up to a number, over the set of the numbers for which something holds.
LEMMA UpToInduction ==
    ASSUME NEW n \in Nat, NEW T, 0 \in T, \A i \in 0 .. n - 1 : i \in T => i + 1 \in T
    PROVE  0 .. n \subseteq T
<1> DEFINE Bad == {i \in 0 .. n : i \notin T}
<1>1. SUFFICES ASSUME Bad # {} PROVE FALSE
  OBVIOUS
<1>2. PICK m \in Bad : \A i \in Bad : m <= i
  <2>1. Bad \subseteq Nat
    OBVIOUS
  <2> HIDE DEF Bad
  <2> QED BY <1>1, <2>1, LeastNatural
<1>3. m \in 0 .. n /\ m \notin T /\ m # 0
  OBVIOUS
<1>4. m - 1 \in 0 .. n - 1 /\ ~(m <= m - 1) /\ (m - 1) + 1 = m
  BY <1>3
<1>5. m - 1 \in T
  <2>1. m - 1 \notin Bad
    <3> HIDE DEF Bad
    <3> QED BY <1>2, <1>4
  <2> QED BY <1>4, <2>1
<1> QED BY <1>3, <1>4, <1>5

\* Induction over sequences that grow at their end, over the set of those for
\* which something holds.
LEMMA SequenceInduction ==
    ASSUME NEW S, NEW T, <<>> \in T,
           \A s \in Seq(S) : \A x \in S : s \in T => Append(s, x) \in T
    PROVE  Seq(S) \subseteq T
<1> SUFFICES ASSUME NEW s \in Seq(S) PROVE s \in T
  OBVIOUS
<1> DEFINE n == Len(s)
           U == {k \in 0 .. n : SubSeq(s, 1, k) \in T}
<1>1. n \in Nat /\ SubSeq(s, 1, 0) = <<>> /\ SubSeq(s, 1, n) = s
  OBVIOUS
<1>2. ASSUME NEW k \in 0 .. n - 1, k \in U PROVE k + 1 \in U
  <2>1. k + 1 \in 1 .. n /\ k \in Nat
    OBVIOUS
  <2>2. s[k + 1] \in S /\ SubSeq(s, 1, k) \in Seq(S)
    BY <2>1
  <2>3. SubSeq(s, 1, k + 1) = Append(SubSeq(s, 1, k), s[k + 1])
    BY <2>1
  <2>4. SubSeq(s, 1, k) \in T
    BY <1>2
  <2>5. SubSeq(s, 1, k + 1) \in T
    BY <2>2, <2>3, <2>4
  <2>6. k + 1 \in 0 .. n
    BY <2>1
  <2> QED BY <2>5, <2>6
<1>3. 0 .. n \subseteq U
  <2>1. 0 \in U
    <3>1. SubSeq(s, 1, 0) \in T
      BY <1>1, Zenon
    <3>2. 0 \in 0 .. n
      BY <1>1
    <3> QED BY <3>1, <3>2, Zenon
  <2> HIDE DEF U, n
  <2> QED BY <1>1, <1>2, <2>1, UpToInduction
<1>4. n \in U
  BY <1>1, <1>3
<1> QED BY <1>1, <1>4

\* One more entry at the end of a sequence.
LEMMA AppendFacts ==
    ASSUME NEW S, NEW a \in Seq(S), NEW b \in Seq(S), NEW x \in S
    PROVE  /\ Append(a, x) \in Seq(S)
           /\ ToSet(Append(a, x)) = ToSet(a) \cup {x}
           /\ a \o Append(b, x) = Append(a \o b, x)
<1>1. Append(a, x) \in Seq(S) /\ Len(Append(a, x)) = Len(a) + 1 /\ Len(a) \in Nat
  OBVIOUS
<1>2. ToSet(Append(a, x)) = ToSet(a) \cup {x}
  <2>1. \A i \in 1 .. Len(a) + 1 : Append(a, x)[i] = IF i = Len(a) + 1 THEN x ELSE a[i]
    OBVIOUS
  <2>2. ASSUME NEW y \in ToSet(Append(a, x)) PROVE y \in ToSet(a) \cup {x}
    <3>1. PICK i \in 1 .. Len(a) + 1 : y = Append(a, x)[i]
      BY <1>1 DEF ToSet
    <3>2. CASE i = Len(a) + 1
      BY <2>1, <3>1, <3>2
    <3>3. CASE i # Len(a) + 1
      <4>1. i \in 1 .. Len(a) /\ y = a[i]
        BY <1>1, <2>1, <3>1, <3>3
      <4> QED BY <4>1 DEF ToSet
    <3> QED BY <3>2, <3>3
  <2>3. ASSUME NEW y \in ToSet(a) PROVE y \in ToSet(Append(a, x))
    <3>1. PICK i \in 1 .. Len(a) : y = a[i]
      BY DEF ToSet
    <3>2. i \in 1 .. Len(a) + 1 /\ Append(a, x)[i] = y
      BY <1>1, <2>1, <3>1
    <3> QED BY <1>1, <3>2 DEF ToSet
  <2>4. x \in ToSet(Append(a, x))
    <3>1. Len(a) + 1 \in 1 .. Len(a) + 1 /\ Append(a, x)[Len(a) + 1] = x
      BY <1>1, <2>1
    <3> QED BY <1>1, <3>1 DEF ToSet
  <2> QED BY <2>2, <2>3, <2>4
<1>3. a \o Append(b, x) = Append(a \o b, x)
  <2>1. Append(b, x) = b \o <<x>> /\ <<x>> \in Seq(S) /\ a \o b \in Seq(S)
    OBVIOUS
  <2>2. Append(a \o b, x) = (a \o b) \o <<x>>
    BY <2>1
  <2>3. a \o (b \o <<x>>) = (a \o b) \o <<x>>
    BY <2>1, ConcatAssociative
  <2> QED BY <2>1, <2>2, <2>3
<1> QED BY <1>1, <1>2, <1>3

\* What stands in two sequences behind each other.
LEMMA ConcatToSet ==
    ASSUME NEW S, NEW a \in Seq(S), NEW b \in Seq(S)
    PROVE  ToSet(a \o b) = ToSet(a) \cup ToSet(b)
<1>1. /\ Len(a) \in Nat /\ Len(b) \in Nat /\ DOMAIN (a \o b) = 1 .. Len(a) + Len(b)
      /\ DOMAIN a = 1 .. Len(a) /\ DOMAIN b = 1 .. Len(b)
  BY ConcatProperties, LenProperties
<1>2. ASSUME NEW y \in ToSet(a \o b) PROVE y \in ToSet(a) \cup ToSet(b)
  <2>1. PICK i \in 1 .. Len(a) + Len(b) : y = (a \o b)[i]
    BY <1>1 DEF ToSet
  <2>2. CASE i <= Len(a)
    <3>1. i \in DOMAIN a /\ y = a[i]
      BY <1>1, <2>1, <2>2, ConcatProperties
    <3> QED BY <3>1 DEF ToSet
  <2>3. CASE i > Len(a)
    <3>1. i - Len(a) \in DOMAIN b /\ y = b[i - Len(a)]
      BY <1>1, <2>1, <2>3, ConcatProperties
    <3> QED BY <3>1 DEF ToSet
  <2> QED BY <1>1, <2>2, <2>3
<1>3. ASSUME NEW y \in ToSet(a) PROVE y \in ToSet(a \o b)
  <2>1. PICK i \in 1 .. Len(a) : y = a[i]
    BY <1>1 DEF ToSet
  <2>2. i \in 1 .. Len(a) + Len(b) /\ (a \o b)[i] = y
    BY <1>1, <2>1, ConcatProperties
  <2> QED BY <1>1, <2>2 DEF ToSet
<1>4. ASSUME NEW y \in ToSet(b) PROVE y \in ToSet(a \o b)
  <2>1. PICK i \in 1 .. Len(b) : y = b[i]
    BY <1>1 DEF ToSet
  <2>2. i + Len(a) \in 1 .. Len(a) + Len(b) /\ ~(i + Len(a) <= Len(a)) /\ (i + Len(a)) - Len(a) = i
    BY <1>1
  <2>3. (a \o b)[i + Len(a)] = y
    BY <2>1, <2>2, ConcatProperties
  <2> QED BY <1>1, <2>2, <2>3 DEF ToSet
<1> QED BY <1>2, <1>3, <1>4

\* A function that starts with |base| and goes on by |step|, as the recursive
\* functions of the specifications do.
Steps(A, n) == [1 .. n -> [A -> A]]

IsFold(f, A, base, n, step) ==
    /\ f \in [0 .. n -> A] /\ f[0] = base
    /\ \A i \in 1 .. n : f[i] = step[i][f[i - 1]]

\* There is one.
LEMMA FoldExists ==
    ASSUME NEW A, NEW base \in A, NEW n \in Nat, NEW step \in Steps(A, n)
    PROVE  \E f : IsFold(f, A, base, n, step)
<1> DEFINE Partial(m, f) == IsFold(f, A, base, m, step)
           T == {m \in 0 .. n : \E f : Partial(m, f)}
<1> USE DEF Steps, IsFold
<1>1. 0 \in T
  <2>1. Partial(0, [i \in 0 .. 0 |-> base]) /\ 0 \in 0 .. n
    OBVIOUS
  <2> HIDE DEF Partial
  <2> QED BY <2>1
<1>2. ASSUME NEW m \in 0 .. n - 1, m \in T PROVE m + 1 \in T
  <2>1. PICK f : Partial(m, f)
    BY <1>2
  <2> DEFINE g == [i \in 0 .. m + 1 |-> IF i = m + 1 THEN step[m + 1][f[m]] ELSE f[i]]
  <2>2. m + 1 \in 1 .. n /\ m \in 0 .. m /\ m + 1 \notin 0 .. m
    OBVIOUS
  <2>3. step[m + 1] \in [A -> A] /\ f[m] \in A
    BY <2>1, <2>2
  <2>4. step[m + 1][f[m]] \in A
    BY <2>3
  <2>5. g \in [0 .. m + 1 -> A] /\ g[0] = base
    BY <2>1, <2>2, <2>4
  <2>6. ASSUME NEW i \in 1 .. m + 1 PROVE g[i] = step[i][g[i - 1]]
    <3>1. CASE i = m + 1
      <4>1. g[m + 1] = step[m + 1][f[m]] /\ g[m] = f[m] /\ i - 1 = m
        BY <2>2, <3>1
      <4> HIDE DEF g
      <4> QED BY <3>1, <4>1
    <3>2. CASE i # m + 1
      <4>1. i \in 1 .. m /\ i - 1 \in 0 .. m + 1 /\ i - 1 # m + 1 /\ i \in 0 .. m + 1
        BY <3>2
      <4>2. g[i] = f[i] /\ g[i - 1] = f[i - 1]
        BY <3>2, <4>1
      <4>3. f[i] = step[i][f[i - 1]]
        BY <2>1, <4>1
      <4> HIDE DEF g
      <4> QED BY <4>2, <4>3
    <3> QED BY <3>1, <3>2
  <2>7. Partial(m + 1, g)
    BY <2>5, <2>6
  <2> HIDE DEF g, Partial
  <2> QED BY <2>2, <2>7
<1>3. 0 .. n \subseteq T
  <2> HIDE DEF T
  <2> QED BY <1>1, <1>2, UpToInduction
<1>4. n \in T
  BY <1>3
<1> QED BY <1>4

\* The sequences that FlattenSeq goes through: each is the one before with one
\* more sequence behind it.
LEMMA FlattenExists ==
    ASSUME NEW S, NEW ss \in Seq(Seq(S))
    PROVE  \E f :
               /\ f \in [0 .. Len(ss) -> Seq(S)]
               /\ f[0] = <<>> /\ f[Len(ss)] = FlattenSeq(ss)
               /\ \A i \in 1 .. Len(ss) : f[i] = f[i - 1] \o ss[i]
<1> DEFINE n == Len(ss)
           step == [i \in 1 .. n |-> [s \in Seq(S) |-> s \o ss[i]]]
           Step(f, i) == IF i = 1 THEN ss[i] ELSE f[i - 1] \o ss[i]
           flatten == CHOOSE f : f = [i \in 1 .. n |-> Step(f, i)]
<1>1. n \in Nat /\ \A i \in 1 .. n : ss[i] \in Seq(S)
  OBVIOUS
<1>2. <<>> \in Seq(S) /\ step \in [1 .. n -> [Seq(S) -> Seq(S)]]
  BY <1>1
<1> HIDE DEF n
<1>3. PICK f : /\ f \in [0 .. n -> Seq(S)] /\ f[0] = <<>>
               /\ \A i \in 1 .. n : f[i] = step[i][f[i - 1]]
  <2>1. step \in Steps(Seq(S), n)
    BY <1>2 DEF Steps
  <2>2. PICK f : IsFold(f, Seq(S), <<>>, n, step)
    <3> HIDE DEF step
    <3> QED BY <1>1, <1>2, <2>1, FoldExists
  <2> QED BY <2>2 DEF IsFold
<1>4. \A i \in 1 .. n : f[i - 1] \in Seq(S) /\ f[i] = f[i - 1] \o ss[i]
  <2>1. ASSUME NEW i \in 1 .. n PROVE f[i - 1] \in Seq(S) /\ f[i] = f[i - 1] \o ss[i]
    <3>1. i - 1 \in 0 .. n
      BY <1>1
    <3> QED BY <1>3, <3>1
  <2> QED BY <2>1
<1>5. CASE n = 0
  BY <1>3, <1>4, <1>5 DEF FlattenSeq, n
<1>6. CASE n # 0
  <2> DEFINE g == [i \in 1 .. n |-> f[i]]
  <2>1. ASSUME NEW i \in 1 .. n PROVE g[i] = Step(g, i)
    <3>1. CASE i = 1
      <4>1. f[1] = f[0] \o ss[1] /\ ss[1] \in Seq(S)
        <5>1. 1 \in 1 .. n /\ 1 - 1 = 0
          BY <3>1
        <5> QED BY <1>1, <1>4, <5>1
      <4>2. <<>> \o ss[1] = ss[1]
        BY <4>1
      <4> QED BY <1>3, <3>1, <4>1, <4>2
    <3>2. CASE i # 1
      <4>1. i - 1 \in 1 .. n
        BY <1>1, <3>2
      <4> QED BY <1>4, <3>2, <4>1
    <3> QED BY <3>1, <3>2
  <2>2. g = [i \in 1 .. n |-> Step(g, i)]
    <3>1. g \in [1 .. n -> Seq(S)]
      BY <1>3
    <3> QED BY <2>1, <3>1
  <2>3. flatten = [i \in 1 .. n |-> Step(flatten, i)]
    <3> HIDE DEF g, n
    <3> QED BY <2>2
  <2> HIDE DEF flatten
  <2> DEFINE T == {i \in 0 .. n : i # 0 => flatten[i] = f[i]}
  <2>4. 0 .. n \subseteq T
    <3>1. 0 \in T
      BY <1>1
    <3>2. ASSUME NEW i \in 0 .. n - 1, i \in T PROVE i + 1 \in T
      <4>1. i + 1 \in 1 .. n /\ (i + 1) - 1 = i
        BY <1>1
      <4>2. flatten[i + 1] = IF i = 0 THEN ss[1] ELSE flatten[i] \o ss[i + 1]
        <5>1. flatten[i + 1] = Step(flatten, i + 1)
          BY <2>3, <4>1
        <5>2. i + 1 = 1 <=> i = 0
          BY <4>1
        <5> QED BY <4>1, <5>1, <5>2
      <4>3. f[i + 1] = f[i] \o ss[i + 1]
        BY <1>4, <4>1
      <4>4. CASE i = 0
        <5>1. <<>> \o ss[1] = ss[1]
          BY <1>1, <4>1, <4>4
        <5>2. i + 1 = 1 /\ 1 \in 0 .. n
          BY <1>1, <4>1, <4>4
        <5>3. flatten[1] = ss[1] /\ f[1] = <<>> \o ss[1]
          BY <1>3, <4>2, <4>3, <4>4, <5>2
        <5> QED BY <5>1, <5>2, <5>3
      <4>5. CASE i # 0
        <5>1. flatten[i] = f[i]
          BY <3>2, <4>5
        <5>2. flatten[i + 1] = f[i + 1]
          BY <4>2, <4>3, <4>5, <5>1, Zenon
        <5>3. i + 1 \in 0 .. n
          BY <1>1, <4>1
        <5> QED BY <5>2, <5>3
      <4> QED BY <4>4, <4>5
    <3> HIDE DEF T
    <3> QED BY <1>1, <3>1, <3>2, UpToInduction
  <2>5. flatten[n] = f[n]
    BY <1>1, <1>6, <2>4
  <2>6. FlattenSeq(ss) = flatten[n]
    BY <1>6 DEF FlattenSeq, flatten, n
  <2> QED BY <1>3, <1>4, <2>5, <2>6 DEF n
<1> QED BY <1>5, <1>6

\* FlattenSeq puts the sequences behind each other.
LEMMA FlattenFacts ==
    ASSUME NEW S, NEW ss \in Seq(Seq(S)), NEW s \in Seq(S)
    PROVE  /\ FlattenSeq(ss) \in Seq(S) /\ FlattenSeq(<<>>) = <<>>
           /\ FlattenSeq(Append(ss, s)) = FlattenSeq(ss) \o s
<1> DEFINE tt == Append(ss, s)
<1>1. /\ tt \in Seq(Seq(S)) /\ Len(tt) = Len(ss) + 1 /\ Len(ss) \in Nat
      /\ \A i \in 1 .. Len(ss) : tt[i] = ss[i]
      /\ tt[Len(ss) + 1] = s
  OBVIOUS
<1>2. PICK f :
          /\ f \in [0 .. Len(ss) -> Seq(S)]
          /\ f[0] = <<>> /\ f[Len(ss)] = FlattenSeq(ss)
          /\ \A i \in 1 .. Len(ss) : f[i] = f[i - 1] \o ss[i]
  BY FlattenExists
<1> HIDE DEF tt
<1>3. PICK g :
          /\ g \in [0 .. Len(tt) -> Seq(S)]
          /\ g[0] = <<>> /\ g[Len(tt)] = FlattenSeq(tt)
          /\ \A i \in 1 .. Len(tt) : g[i] = g[i - 1] \o tt[i]
  BY <1>1, FlattenExists
<1> DEFINE T == {i \in 0 .. Len(ss) : f[i] = g[i]}
<1>4. 0 .. Len(ss) \subseteq T
  <2>1. 0 \in T
    BY <1>1, <1>2, <1>3
  <2>2. ASSUME NEW i \in 0 .. Len(ss) - 1, i \in T PROVE i + 1 \in T
    <3>1. i + 1 \in 1 .. Len(ss) /\ i + 1 \in 1 .. Len(tt) /\ (i + 1) - 1 = i /\ f[i] = g[i]
      BY <1>1, <2>2
    <3>2. f[i + 1] = f[i] \o ss[i + 1] /\ g[i + 1] = g[i] \o tt[i + 1] /\ tt[i + 1] = ss[i + 1]
      BY <1>1, <1>2, <1>3, <3>1
    <3>3. f[i + 1] = g[i + 1]
      BY <3>1, <3>2
    <3>4. i + 1 \in 0 .. Len(ss)
      BY <1>1
    <3> QED BY <3>3, <3>4
  <2> HIDE DEF T
  <2> QED BY <1>1, <2>1, <2>2, UpToInduction
<1>5. f[Len(ss)] = g[Len(ss)]
  BY <1>1, <1>4
<1>6. g[Len(ss) + 1] = g[Len(ss)] \o s
  <2>1. Len(ss) + 1 \in 1 .. Len(tt) /\ (Len(ss) + 1) - 1 = Len(ss)
    BY <1>1
  <2> QED BY <1>1, <1>3, <2>1
<1>7. FlattenSeq(<<>>) = <<>>
  BY DEF FlattenSeq
<1>8. FlattenSeq(ss) \in Seq(S)
  <2>1. Len(ss) \in 0 .. Len(ss)
    BY <1>1
  <2>2. f[Len(ss)] \in Seq(S)
    BY <1>2, <2>1, Zenon
  <2> QED BY <1>2, <2>2, Zenon
<1> QED BY <1>1, <1>2, <1>3, <1>5, <1>6, <1>7, <1>8 DEF tt

-----------------------------------------------------------------------------
(* Lines of a text *)

Splits(S) == [lines : Seq(Seq(S)), rest : Seq(S)]
Unsplit == [lines |-> <<>>, rest |-> <<>>]

\* What is split after all characters.
Split(text) == Splitting(text)[Len(text)]

\* One more character.
LEMMA LineStepFacts ==
    ASSUME NEW S, NEW st \in Splits(S), NEW c \in S
    PROVE  LineStep(st, c) \in Splits(S)
<1>1. st.lines \in Seq(Seq(S)) /\ st.rest \in Seq(S)
  BY DEF Splits
<1>2. Append(st.lines, st.rest) \in Seq(Seq(S)) /\ Append(st.rest, c) \in Seq(S) /\ <<>> \in Seq(S)
  BY <1>1
<1> QED BY <1>1, <1>2 DEF LineStep, Splits

\* The recursion is one: a text is split character by character.
LEMMA SplittingFacts ==
    ASSUME NEW S, NEW text \in Seq(S)
    PROVE  /\ Splitting(text) \in [0 .. Len(text) -> Splits(S)]
           /\ Splitting(text)[0] = Unsplit
           /\ \A i \in 1 .. Len(text) : Splitting(text)[i] = LineStep(Splitting(text)[i - 1], text[i])
<1> DEFINE n == Len(text)
           step == [i \in 1 .. n |-> [st \in Splits(S) |-> LineStep(st, text[i])]]
           Body(f) == [i \in 0 .. n |-> IF i = 0 THEN Unsplit ELSE LineStep(f[i - 1], text[i])]
           at == CHOOSE f : f = Body(f)
<1>1. n \in Nat /\ \A i \in 1 .. n : text[i] \in S
  OBVIOUS
<1>2. Splitting(text) = at
  BY DEF Splitting, Unsplit
<1> HIDE DEF n
<1>3. Unsplit \in Splits(S)
  BY DEF Unsplit, Splits
<1>4. step \in Steps(Splits(S), n)
  BY <1>1, LineStepFacts DEF Steps
<1>5. PICK f : IsFold(f, Splits(S), Unsplit, n, step)
  <2> HIDE DEF step
  <2> QED BY <1>1, <1>3, <1>4, FoldExists
<1>6. f = Body(f)
  <2>1. f \in [0 .. n -> Splits(S)] /\ f[0] = Unsplit
    BY <1>5 DEF IsFold
  <2>2. ASSUME NEW i \in 1 .. n PROVE f[i] = LineStep(f[i - 1], text[i])
    <3>1. i - 1 \in 0 .. n
      BY <1>1
    <3>2. f[i] = step[i][f[i - 1]] /\ f[i - 1] \in Splits(S)
      BY <1>5, <2>1, <3>1 DEF IsFold
    <3> QED BY <3>2
  <2>3. ASSUME NEW i \in 0 .. n
        PROVE  f[i] = IF i = 0 THEN Unsplit ELSE LineStep(f[i - 1], text[i])
    <3>1. i = 0 \/ i \in 1 .. n
      BY <1>1
    <3> QED BY <2>1, <2>2, <3>1
  <2> QED BY <2>1, <2>3
<1>7. at = Body(at)
  <2> HIDE DEF Body
  <2> QED BY <1>6
<1> HIDE DEF at
<1>8. at[0] = Unsplit /\ \A i \in 1 .. n : at[i] = LineStep(at[i - 1], text[i])
  <2>1. 0 \in 0 .. n /\ \A i \in 1 .. n : i \in 0 .. n /\ i # 0
    BY <1>1
  <2> QED BY <1>7, <2>1
<1> DEFINE T == {i \in 0 .. n : at[i] \in Splits(S)}
<1>9. 0 .. n \subseteq T
  <2>1. 0 \in T
    BY <1>1, <1>3, <1>8
  <2>2. ASSUME NEW i \in 0 .. n - 1, i \in T PROVE i + 1 \in T
    <3>1. i + 1 \in 1 .. n /\ (i + 1) - 1 = i /\ i + 1 \in 0 .. n
      BY <1>1
    <3>2. at[i + 1] = LineStep(at[i], text[i + 1]) /\ text[i + 1] \in S
      BY <1>1, <1>8, <3>1
    <3>3. at[i + 1] \in Splits(S)
      BY <2>2, <3>2, LineStepFacts
    <3> QED BY <3>1, <3>3
  <2> HIDE DEF T
  <2> QED BY <1>1, <2>1, <2>2, UpToInduction
<1>10. at \in [0 .. n -> Splits(S)]
  BY <1>7, <1>9
<1> QED BY <1>2, <1>8, <1>10 DEF n

\* What a text is split into does not depend on what comes behind it.
LEMMA SplittingOfPrefix ==
    ASSUME NEW S, NEW t \in Seq(S), NEW u \in Seq(S), NEW k \in 0 .. Len(t), k <= Len(u),
           \A i \in 1 .. k : t[i] = u[i]
    PROVE  Splitting(t)[k] = Splitting(u)[k]
<1> DEFINE T == {i \in 0 .. k : Splitting(t)[i] = Splitting(u)[i]}
<1>1. k \in Nat /\ Len(t) \in Nat /\ Len(u) \in Nat
  OBVIOUS
<1>2. 0 .. k \subseteq T
  <2>1. 0 \in T
    BY <1>1, SplittingFacts
  <2>2. ASSUME NEW i \in 0 .. k - 1, i \in T PROVE i + 1 \in T
    <3>1. i + 1 \in 1 .. Len(t) /\ i + 1 \in 1 .. Len(u) /\ i + 1 \in 1 .. k /\ (i + 1) - 1 = i
      BY <1>1
    <3>2. /\ Splitting(t)[i + 1] = LineStep(Splitting(t)[i], t[i + 1])
          /\ Splitting(u)[i + 1] = LineStep(Splitting(u)[i], u[i + 1])
      BY <3>1, SplittingFacts
    <3>3. Splitting(t)[i + 1] = Splitting(u)[i + 1] /\ i + 1 \in 0 .. k
      BY <2>2, <3>1, <3>2
    <3> QED BY <3>3
  <2> HIDE DEF T
  <2> QED BY <1>1, <2>1, <2>2, UpToInduction
<1>3. k \in T
  BY <1>1, <1>2
<1> QED BY <1>3

\* One more character of a text.
LEMMA SplitAppend ==
    ASSUME NEW S, NEW t \in Seq(S), NEW c \in S
    PROVE  /\ Split(Append(t, c)) = LineStep(Split(t), c)
           /\ Split(t) \in Splits(S) /\ Split(<<>>) = Unsplit
<1> DEFINE u == Append(t, c)
<1>1. /\ u \in Seq(S) /\ Len(u) = Len(t) + 1 /\ Len(t) \in Nat /\ u[Len(t) + 1] = c
      /\ \A i \in 1 .. Len(t) : t[i] = u[i]
  OBVIOUS
<1> HIDE DEF u
<1>2. Splitting(u)[Len(u)] = LineStep(Splitting(u)[Len(t)], c)
  <2>1. Len(u) \in 1 .. Len(u) /\ Len(u) - 1 = Len(t)
    BY <1>1
  <2> QED BY <1>1, <2>1, SplittingFacts
<1>3. Splitting(t)[Len(t)] = Splitting(u)[Len(t)]
  <2>1. Len(t) \in 0 .. Len(t) /\ Len(t) <= Len(u)
    BY <1>1
  <2> QED BY <1>1, <2>1, SplittingOfPrefix
<1>4. Split(t) \in Splits(S)
  <2>1. Len(t) \in 0 .. Len(t)
    BY <1>1
  <2> QED BY <2>1, SplittingFacts DEF Split
<1>5. Split(<<>>) = Unsplit
  <2>1. <<>> \in Seq(S) /\ Len(<<>>) = 0
    OBVIOUS
  <2> QED BY <2>1, SplittingFacts DEF Split
<1> QED BY <1>2, <1>3, <1>4, <1>5 DEF Split, u

\* A line is what stands between newlines.
LEMMA LinesArePlain ==
    ASSUME NEW S, NEW t \in Seq(S)
    PROVE  /\ Newline \notin ToSet(Split(t).rest)
           /\ \A i \in DOMAIN LinesOf(t) : Newline \notin ToSet(LinesOf(t)[i])
           /\ LinesOf(t) \in Seq(Seq(S)) /\ LinesOf(t) = Split(t).lines
<1> DEFINE Plain(st) == /\ Newline \notin ToSet(st.rest)
                        /\ \A i \in DOMAIN st.lines : Newline \notin ToSet(st.lines[i])
           T == {u \in Seq(S) : Plain(Split(u))}
<1>1. Seq(S) \subseteq T
  <2>1. <<>> \in T
    <3>1. Split(<<>>) = Unsplit /\ <<>> \in Seq(S)
      <4>1. \A c \in S : Split(<<>>) = Unsplit
        BY SplitAppend
      <4>2. <<>> \in Seq(S) /\ Len(<<>>) = 0
        OBVIOUS
      <4> QED BY <4>2, SplittingFacts DEF Split
    <3> QED BY <3>1 DEF Unsplit, ToSet
  <2>2. ASSUME NEW u \in Seq(S), NEW c \in S, u \in T PROVE Append(u, c) \in T
    <3>1. /\ Split(Append(u, c)) = LineStep(Split(u), c)
          /\ Split(u) \in Splits(S) /\ Append(u, c) \in Seq(S)
      BY SplitAppend
    <3> DEFINE st == Split(u)
    <3>2. Plain(st) /\ st.lines \in Seq(Seq(S)) /\ st.rest \in Seq(S)
      BY <2>2, <3>1 DEF Splits
    <3> HIDE DEF st
    <3>3. Plain(LineStep(st, c))
      <4>1. CASE c = Newline
        <5>1. \A i \in DOMAIN Append(st.lines, st.rest) :
                  Append(st.lines, st.rest)[i] \in {st.rest} \cup {st.lines[j] : j \in DOMAIN st.lines}
          BY <3>2
        <5> QED BY <3>2, <4>1, <5>1 DEF LineStep, ToSet
      <4>2. CASE c # Newline
        <5>1. ToSet(Append(st.rest, c)) \subseteq ToSet(st.rest) \cup {c}
          BY <3>2 DEF ToSet
        <5> QED BY <3>2, <4>2, <5>1 DEF LineStep
      <4> QED BY <4>1, <4>2
    <3> QED BY <3>1, <3>3 DEF st
  <2> HIDE DEF T
  <2> QED BY <2>1, <2>2, SequenceInduction
<1>2. Len(t) \in 0 .. Len(t)
  OBVIOUS
<1>3. Split(t) \in Splits(S)
  BY <1>2, SplittingFacts DEF Split
<1> QED BY <1>1, <1>3 DEF LinesOf, Split, Splits

\* A text without a newline is a line that is not over.
LEMMA PlainLine ==
    ASSUME NEW S, Newline \in S, NEW l \in Seq(S), Newline \notin ToSet(l)
    PROVE  LinesOf(Append(l, Newline)) = <<l>>
<1> DEFINE T == {u \in Seq(S) : Newline \notin ToSet(u) => Split(u) = [lines |-> <<>>, rest |-> u]}
<1>1. Seq(S) \subseteq T
  <2>1. <<>> \in T
    BY SplitAppend DEF Unsplit
  <2>2. ASSUME NEW u \in Seq(S), NEW c \in S, u \in T PROVE Append(u, c) \in T
    <3>1. Split(Append(u, c)) = LineStep(Split(u), c) /\ Append(u, c) \in Seq(S)
      BY SplitAppend
    <3>2. ToSet(Append(u, c)) = ToSet(u) \cup {c}
      BY AppendFacts
    <3>3. ASSUME Newline \notin ToSet(Append(u, c))
          PROVE  Split(Append(u, c)) = [lines |-> <<>>, rest |-> Append(u, c)]
      <4>1. Split(u) = [lines |-> <<>>, rest |-> u] /\ c # Newline
        BY <2>2, <3>2, <3>3
      <4> QED BY <3>1, <4>1 DEF LineStep
    <3> QED BY <3>1, <3>3
  <2> HIDE DEF T
  <2> QED BY <2>1, <2>2, SequenceInduction
<1>2. Split(l) = [lines |-> <<>>, rest |-> l]
  BY <1>1
<1>3. Split(Append(l, Newline)) = LineStep(Split(l), Newline)
  BY SplitAppend
<1>4. Append(l, Newline) \in Seq(S)
  OBVIOUS
<1>5. Append(<<>>, l) = <<l>>
  OBVIOUS
<1> QED BY <1>2, <1>3, <1>5 DEF LineStep, LinesOf, Split

\* Nothing to split.
LEMMA EmptySplit == Split(<<>>) = Unsplit /\ LinesOf(<<>>) = <<>>
<1>1. <<>> \in Seq({}) /\ Len(<<>>) = 0
  OBVIOUS
<1>2. Splitting(<<>>)[0] = Unsplit
  BY <1>1, SplittingFacts
<1>3. Split(<<>>) = Unsplit
  BY <1>1, <1>2 DEF Split
<1>4. LinesOf(<<>>) = Split(<<>>).lines
  BY DEF LinesOf, Split
<1> QED BY <1>3, <1>4 DEF Unsplit

\* Where a line begins, splitting begins anew.
LEMMA SplitConcat ==
    ASSUME NEW S, NEW t \in Seq(S), NEW u \in Seq(S), Split(t).rest = <<>>
    PROVE  Split(t \o u) = [lines |-> LinesOf(t) \o LinesOf(u), rest |-> Split(u).rest]
<1> DEFINE T == {v \in Seq(S) :
                    Split(t \o v) = [lines |-> LinesOf(t) \o LinesOf(v), rest |-> Split(v).rest]}
<1>1. LinesOf(t) \in Seq(Seq(S)) /\ Split(t) \in Splits(S) /\ LinesOf(t) = Split(t).lines
  <2>1. Len(t) \in 0 .. Len(t)
    OBVIOUS
  <2> QED BY <2>1, LinesArePlain, SplittingFacts DEF Split
<1>2. Seq(S) \subseteq T
  <2>1. <<>> \in T
    <3>1. t \o <<>> = t /\ LinesOf(t) \o <<>> = LinesOf(t) /\ <<>> \in Seq(S)
      BY <1>1
    <3>3. Split(t) = [lines |-> LinesOf(t), rest |-> <<>>]
      BY <1>1 DEF Splits
    <3>4. Split(<<>>).rest = <<>>
      BY EmptySplit DEF Unsplit
    <3> QED BY <3>1, <3>3, <3>4, EmptySplit
  <2>2. ASSUME NEW v \in Seq(S), NEW c \in S, v \in T PROVE Append(v, c) \in T
    <3>1. /\ t \o v \in Seq(S) /\ t \o Append(v, c) = Append(t \o v, c)
          /\ Append(v, c) \in Seq(S)
      BY AppendFacts
    <3>2. /\ Split(Append(t \o v, c)) = LineStep(Split(t \o v), c)
          /\ Split(Append(v, c)) = LineStep(Split(v), c)
      BY <3>1, SplitAppend
    <3>3. /\ LinesOf(v) = Split(v).lines /\ LinesOf(v) \in Seq(Seq(S)) /\ Split(v).rest \in Seq(S)
          /\ LinesOf(Append(v, c)) = Split(Append(v, c)).lines
      <4>1. Len(v) \in 0 .. Len(v)
        OBVIOUS
      <4>2. Split(v) \in Splits(S)
        BY <4>1, SplittingFacts DEF Split
      <4> QED BY <3>1, <4>2, LinesArePlain DEF Splits
    <3>4. Split(t \o v) = [lines |-> LinesOf(t) \o LinesOf(v), rest |-> Split(v).rest]
      BY <2>2
    <3> DEFINE a == LinesOf(t)
               b == LinesOf(v)
               r == Split(v).rest
               st == Split(v)
    <3>5. st = [lines |-> b, rest |-> r] /\ a \in Seq(Seq(S)) /\ b \in Seq(Seq(S)) /\ r \in Seq(S)
      <4>1. Split(v) \in Splits(S)
        BY SplitAppend
      <4> QED BY <1>1, <3>3, <4>1 DEF Splits
    <3>6. /\ Split(t \o v) = [lines |-> a \o b, rest |-> r]
          /\ Split(t \o Append(v, c)) = LineStep(Split(t \o v), c)
          /\ LinesOf(Append(v, c)) = LineStep(st, c).lines
          /\ Split(Append(v, c)).rest = LineStep(st, c).rest
      BY <3>1, <3>2, <3>3, <3>4
    <3> HIDE DEF a, b, r, st
    <3>7. LineStep([lines |-> a \o b, rest |-> r], c)
              = [lines |-> a \o LineStep(st, c).lines, rest |-> LineStep(st, c).rest]
      <4>1. a \o Append(b, r) = Append(a \o b, r)
        <5> DEFINE SS == Seq(S)
        <5>1. a \in Seq(SS) /\ b \in Seq(SS) /\ r \in SS
          BY <3>5
        <5> HIDE DEF SS
        <5> QED BY <5>1, AppendFacts
      <4> QED BY <3>5, <4>1 DEF LineStep
    <3>8. Split(t \o Append(v, c))
              = [lines |-> a \o LinesOf(Append(v, c)), rest |-> Split(Append(v, c)).rest]
      BY <3>6, <3>7, Zenon
    <3> QED BY <3>1, <3>8 DEF a
  <2> HIDE DEF T
  <2> QED BY <2>1, <2>2, SequenceInduction
<1> QED BY <1>2

\* The lines of a beginning are among the lines of the whole.
LEMMA LinesOfPrefix ==
    ASSUME NEW S, NEW t \in Seq(S), NEW k \in 0 .. Len(t)
    PROVE  ToSet(LinesOf(SubSeq(t, 1, k))) \subseteq ToSet(LinesOf(t))
<1> DEFINE Lines(i) == ToSet(Splitting(t)[i].lines)
           n == Len(t)
           T == {j \in 0 .. n : j >= k => Lines(k) \subseteq Lines(j)}
<1>1. n \in Nat /\ k \in 0 .. n
  OBVIOUS
<1>2. \A i \in 0 .. n : Splitting(t)[i] \in Splits(S)
  BY SplittingFacts
<1>3. ASSUME NEW i \in 0 .. n - 1 PROVE Lines(i) \subseteq Lines(i + 1)
  <2> DEFINE st == Splitting(t)[i]
  <2>1. i + 1 \in 1 .. n /\ (i + 1) - 1 = i /\ i \in 0 .. n
    BY <1>1
  <2>2. Splitting(t)[i + 1] = LineStep(st, t[i + 1])
    BY <2>1, SplittingFacts
  <2>3. st.lines \in Seq(Seq(S)) /\ st.rest \in Seq(S)
    BY <1>2, <2>1 DEF Splits
  <2> HIDE DEF st
  <2>4. ToSet(st.lines) \subseteq ToSet(LineStep(st, t[i + 1]).lines)
    <3>1. ToSet(st.lines) \subseteq ToSet(Append(st.lines, st.rest))
      <4>1. \A j \in DOMAIN st.lines :
                j \in DOMAIN Append(st.lines, st.rest) /\ Append(st.lines, st.rest)[j] = st.lines[j]
        BY <2>3
      <4> QED BY <4>1 DEF ToSet
    <3> QED BY <3>1 DEF LineStep
  <2> QED BY <2>2, <2>4 DEF st
<1>4. 0 .. n \subseteq T
  <2> HIDE DEF Lines, n
  <2>1. 0 \in T
    BY <1>1
  <2>2. ASSUME NEW j \in 0 .. n - 1, j \in T PROVE j + 1 \in T
    <3>1. j + 1 \in 0 .. n /\ (j + 1 >= k => j >= k \/ j + 1 = k)
      BY <1>1
    <3> QED BY <1>3, <2>2, <3>1
  <2> HIDE DEF T
  <2> QED BY <1>1, <2>1, <2>2, UpToInduction
<1>5. Lines(k) \subseteq Lines(n)
  <2> HIDE DEF Lines, n
  <2>1. n \in 0 .. n /\ n >= k
    BY <1>1
  <2> QED BY <1>4, <2>1
<1>6. Split(SubSeq(t, 1, k)) = Splitting(t)[k]
  <2> DEFINE p == SubSeq(t, 1, k)
  <2>1. p \in Seq(S) /\ Len(p) = k /\ \A i \in 1 .. k : p[i] = t[i]
    <3>1. \A i \in 1 .. k : i \in 1 .. Len(t)
      OBVIOUS
    <3> QED BY <3>1, SubSeqProperties
  <2> HIDE DEF p
  <2>2. k \in 0 .. Len(p) /\ k <= Len(t)
    BY <2>1
  <2>3. Splitting(p)[k] = Splitting(t)[k]
    BY <2>1, <2>2, SplittingOfPrefix
  <2> QED BY <2>1, <2>3 DEF Split, p
<1> QED BY <1>5, <1>6 DEF LinesOf, Split

\* A text whose last line is over.
LEMMA IntactRest ==
    ASSUME NEW S, NEW t \in Seq(S), Intact(t)
    PROVE  Split(t).rest = <<>>
<1>1. CASE t = <<>>
  BY <1>1, EmptySplit DEF Unsplit
<1>2. CASE t # <<>>
  <2>1. PICK u \in Seq(S), c \in S : t = Append(u, c)
    BY <1>2, SequenceEmptyOrAppend
  <2>2. c = Newline
    <3>1. Len(t) = Len(u) + 1 /\ t[Len(u) + 1] = c
      BY <2>1
    <3> QED BY <1>2, <3>1 DEF Intact, Last
  <2> QED BY <2>1, <2>2, SplitAppend DEF LineStep
<1> QED BY <1>1, <1>2

-----------------------------------------------------------------------------
(* The text that is saved *)

\* The lines that a command with newlines is read back as.
LinesIn(c) == ToSet(LinesOf(Append(c, Newline)))

\* One more command.
LEMMA EncodedFacts ==
    ASSUME NEW S, Newline \in S, NEW cs \in Seq(Seq(S)), NEW c \in Seq(S)
    PROVE  /\ Encoded(cs) \in Seq(S) /\ Encoded(<<>>) = <<>>
           /\ Append(c, Newline) \in Seq(S)
           /\ Encoded(Append(cs, c)) = Encoded(cs) \o Append(c, Newline)
<1> DEFINE Ended(ds) == [i \in DOMAIN ds |-> Append(ds[i], Newline)]
           ds == Append(cs, c)
<1>1. Append(c, Newline) \in Seq(S)
  BY AppendProperties
<1>2. Ended(cs) \in Seq(Seq(S)) /\ Len(Ended(cs)) = Len(cs) /\ Len(cs) \in Nat
  <2> DEFINE SS == Seq(S)
             n == Len(cs)
             e == Ended(cs)
  <2>1. n \in Nat /\ DOMAIN cs = 1 .. n /\ \A i \in 1 .. n : Append(cs[i], Newline) \in SS
    BY AppendProperties
  <2>2. e \in [1 .. n -> SS]
    BY <2>1
  <2> HIDE DEF e, n, SS
  <2>3. e \in Seq(SS) /\ Len(e) = n
    BY <2>1, <2>2
  <2> QED BY <2>1, <2>3 DEF e, n, SS
<1>3. Ended(ds) = Append(Ended(cs), Append(c, Newline))
  <2>1. /\ DOMAIN ds = 1 .. Len(cs) + 1 /\ DOMAIN cs = 1 .. Len(cs)
        /\ \A i \in 1 .. Len(cs) : ds[i] = cs[i]
        /\ ds[Len(cs) + 1] = c
    OBVIOUS
  <2> DEFINE a == Ended(cs)
             b == Append(a, Append(c, Newline))
  <2>2. /\ a \in Seq(Seq(S)) /\ Len(a) = Len(cs)
        /\ \A i \in 1 .. Len(cs) : a[i] = Append(cs[i], Newline)
    BY <1>2, <2>1
  <2> HIDE DEF a
  <2>3. /\ b \in Seq(Seq(S)) /\ DOMAIN b = 1 .. Len(cs) + 1
        /\ \A i \in 1 .. Len(cs) : b[i] = a[i]
        /\ b[Len(cs) + 1] = Append(c, Newline)
    BY <1>1, <1>2, <2>2
  <2> HIDE DEF b, ds
  <2>4. \A i \in 1 .. Len(cs) + 1 : i \in 1 .. Len(cs) \/ i = Len(cs) + 1
    BY <1>2
  <2>5. \A i \in 1 .. Len(cs) + 1 : Append(ds[i], Newline) = b[i]
    BY <2>1, <2>2, <2>3, <2>4
  <2>6. Ended(ds) = [i \in 1 .. Len(cs) + 1 |-> b[i]]
    BY <2>1, <2>5
  <2>7. b = [i \in 1 .. Len(cs) + 1 |-> b[i]]
    BY <2>3
  <2> QED BY <2>6, <2>7 DEF a, b
<1>4. Ended(<<>>) = <<>>
  OBVIOUS
<1>5. /\ Encoded(cs) = FlattenSeq(Ended(cs)) /\ Encoded(<<>>) = FlattenSeq(Ended(<<>>))
      /\ Encoded(Append(cs, c)) = FlattenSeq(Ended(ds))
  BY DEF Encoded
<1> HIDE DEF Ended, ds
<1> QED BY <1>1, <1>2, <1>3, <1>4, <1>5, FlattenFacts

\* The file ends in a newline, if there is anything in it.
LEMMA EncodedIntact ==
    ASSUME NEW S, Newline \in S, NEW cs \in Seq(Seq(S))
    PROVE  Encoded(cs) \in Seq(S) /\ Intact(Encoded(cs))
<1>1. <<>> \in Seq(S)
  OBVIOUS
<1>2. Encoded(cs) \in Seq(S)
  BY <1>1, EncodedFacts
<1>3. CASE cs = <<>>
  BY <1>1, <1>3, EncodedFacts DEF Intact
<1>4. CASE cs # <<>>
  <2>1. PICK ds \in Seq(Seq(S)), c \in Seq(S) : cs = Append(ds, c)
    BY <1>4, SequenceEmptyOrAppend
  <2> DEFINE t == Encoded(ds)
  <2>2. Encoded(cs) = t \o Append(c, Newline) /\ t \in Seq(S)
    BY <2>1, EncodedFacts
  <2> HIDE DEF t
  <2>3. t \o Append(c, Newline) = Append(t \o c, Newline) /\ t \o c \in Seq(S)
    BY <2>2, AppendFacts, ConcatProperties
  <2>4. Last(Append(t \o c, Newline)) = Newline
    BY <2>3, AppendProperties DEF Last
  <2> QED BY <2>2, <2>3, <2>4 DEF Intact
<1> QED BY <1>2, <1>3, <1>4

\* Its lines are those of the commands, one command after the other.
LEMMA EncodedLines ==
    ASSUME NEW S, Newline \in S, NEW cs \in Seq(Seq(S)), NEW c \in Seq(S)
    PROVE  /\ LinesOf(Encoded(Append(cs, c))) = LinesOf(Encoded(cs)) \o LinesOf(Append(c, Newline))
           /\ LinesOf(Encoded(cs)) \in Seq(Seq(S))
           /\ LinesOf(Append(c, Newline)) \in Seq(Seq(S))
<1> DEFINE t == Encoded(cs)
           u == Append(c, Newline)
<1>1. t \in Seq(S) /\ u \in Seq(S) /\ Encoded(Append(cs, c)) = t \o u /\ Split(t).rest = <<>>
  BY EncodedFacts, EncodedIntact, IntactRest
<1> HIDE DEF t, u
<1>2. Split(t \o u) = [lines |-> LinesOf(t) \o LinesOf(u), rest |-> Split(u).rest]
  BY <1>1, SplitConcat
<1>3. t \o u \in Seq(S)
  BY <1>1, ConcatProperties
<1>4. /\ LinesOf(t \o u) = Split(t \o u).lines
      /\ LinesOf(t) \in Seq(Seq(S)) /\ LinesOf(u) \in Seq(Seq(S))
  BY <1>1, <1>3, LinesArePlain
<1> QED BY <1>1, <1>2, <1>4 DEF t, u

\* No line of the file is of any other.
LEMMA EncodedWithin ==
    ASSUME NEW S, Newline \in S, NEW cs \in Seq(Seq(S)), NEW X,
           \A i \in DOMAIN cs : LinesIn(cs[i]) \subseteq X
    PROVE  ToSet(LinesOf(Encoded(cs))) \subseteq X
<1> DEFINE Of(ds) == \A i \in DOMAIN ds : LinesIn(ds[i]) \subseteq X
           T == {ds \in Seq(Seq(S)) : Of(ds) => ToSet(LinesOf(Encoded(ds))) \subseteq X}
<1>1. Seq(Seq(S)) \subseteq T
  <2>1. <<>> \in T
    <3>1. <<>> \in Seq(S) /\ <<>> \in Seq(Seq(S))
      OBVIOUS
    <3>2. LinesOf(Encoded(<<>>)) = <<>>
      BY <3>1, EncodedFacts, EmptySplit
    <3>3. ToSet(<<>>) = {}
      BY DEF ToSet
    <3> QED BY <3>1, <3>2, <3>3
  <2>2. ASSUME NEW ds \in Seq(Seq(S)), NEW c \in Seq(S), ds \in T PROVE Append(ds, c) \in T
    <3>1. Append(ds, c) \in Seq(Seq(S))
      BY AppendProperties
    <3>2. ASSUME Of(Append(ds, c)) PROVE ToSet(LinesOf(Encoded(Append(ds, c)))) \subseteq X
      <4>1. Of(ds) /\ LinesIn(c) \subseteq X
        <5>1. /\ \A i \in DOMAIN ds : i \in DOMAIN Append(ds, c) /\ Append(ds, c)[i] = ds[i]
              /\ Len(ds) + 1 \in DOMAIN Append(ds, c) /\ Append(ds, c)[Len(ds) + 1] = c
          OBVIOUS
        <5> QED BY <3>2, <5>1
      <4>2. ToSet(LinesOf(Encoded(ds))) \subseteq X
        BY <2>2, <4>1
      <4> HIDE DEF Of
      <4>3. ToSet(LinesOf(Encoded(Append(ds, c)))) = ToSet(LinesOf(Encoded(ds))) \cup LinesIn(c)
        <5> DEFINE a == LinesOf(Encoded(ds))
                   b == LinesOf(Append(c, Newline))
        <5>1. LinesOf(Encoded(Append(ds, c))) = a \o b /\ a \in Seq(Seq(S)) /\ b \in Seq(Seq(S))
          BY EncodedLines
        <5> HIDE DEF a, b
        <5>2. ToSet(a \o b) = ToSet(a) \cup ToSet(b)
          BY <5>1, ConcatToSet
        <5> QED BY <5>1, <5>2 DEF a, b, LinesIn
      <4> QED BY <4>1, <4>2, <4>3
    <3> QED BY <3>1, <3>2
  <2> HIDE DEF T
  <2> QED BY <2>1, <2>2, SequenceInduction
<1> QED BY <1>1

\* Commands without newlines come back as they were.
LEMMA EncodedBack ==
    ASSUME NEW S, Newline \in S, NEW cs \in Seq(Seq(S)),
           \A i \in DOMAIN cs : Newline \notin ToSet(cs[i])
    PROVE  LinesOf(Encoded(cs)) = cs
<1> DEFINE Plain(ds) == \A i \in DOMAIN ds : Newline \notin ToSet(ds[i])
           T == {ds \in Seq(Seq(S)) : Plain(ds) => LinesOf(Encoded(ds)) = ds}
<1>1. Seq(Seq(S)) \subseteq T
  <2>1. <<>> \in T
    <3>1. <<>> \in Seq(S) /\ <<>> \in Seq(Seq(S))
      OBVIOUS
    <3>2. LinesOf(Encoded(<<>>)) = <<>>
      BY <3>1, EncodedFacts, EmptySplit
    <3> QED BY <3>1, <3>2
  <2>2. ASSUME NEW ds \in Seq(Seq(S)), NEW c \in Seq(S), ds \in T PROVE Append(ds, c) \in T
    <3>1. Append(ds, c) \in Seq(Seq(S))
      BY AppendProperties
    <3>2. ASSUME Plain(Append(ds, c)) PROVE LinesOf(Encoded(Append(ds, c))) = Append(ds, c)
      <4>1. Plain(ds) /\ Newline \notin ToSet(c)
        <5>1. /\ \A i \in DOMAIN ds : i \in DOMAIN Append(ds, c) /\ Append(ds, c)[i] = ds[i]
              /\ Len(ds) + 1 \in DOMAIN Append(ds, c) /\ Append(ds, c)[Len(ds) + 1] = c
          OBVIOUS
        <5> QED BY <3>2, <5>1
      <4>2. LinesOf(Encoded(ds)) = ds
        BY <2>2, <4>1
      <4> HIDE DEF Plain
      <4>3. LinesOf(Encoded(Append(ds, c))) = ds \o <<c>>
        BY <4>1, <4>2, EncodedLines, PlainLine
      <4> QED BY <4>3, AppendIsConcat
    <3> QED BY <3>1, <3>2
  <2> HIDE DEF T
  <2> QED BY <2>1, <2>2, SequenceInduction
<1> QED BY <1>1

-----------------------------------------------------------------------------
(* What is saved of a list of commands, and what is read of a file *)

LEMMA MaxOfTwo ==
    ASSUME NEW a \in Int, NEW b \in Int
    PROVE  Max({a, b}) = IF a >= b THEN a ELSE b
BY DEF Max

LEMMA MinOfTwo ==
    ASSUME NEW a \in Int, NEW b \in Int
    PROVE  Min({a, b}) = IF a <= b THEN a ELSE b
BY DEF Min

\* How far one call to the C library gets.
LEMMA BlockFacts ==
    ASSUME NEW n \in Nat, NEW i \in Nat, i < n
    PROVE  Min({n, i + BlockSize}) \in i + 1 .. n
<1>1. BlockSize \in Nat /\ BlockSize > 0
  BY HistoryFileAssumption
<1>2. Min({n, i + BlockSize}) = IF n <= i + BlockSize THEN n ELSE i + BlockSize
  BY <1>1, MinOfTwo
<1> QED BY <1>1, <1>2

\* The last commands, in their order.
LEMMA WindowFacts ==
    ASSUME NEW S, NEW cs \in Seq(S)
    PROVE  /\ Window(cs) \in Seq(S)
           /\ Len(Window(cs)) = Min({Len(cs), MaxSaved})
           /\ \A i \in DOMAIN Window(cs) : \E j \in DOMAIN cs : Window(cs)[i] = cs[j]
           /\ IsSuffix(Window(cs), cs)
<1> DEFINE w == Window(cs)
           k == Max({Len(cs) - MaxSaved, 0})
<1>1. MaxSaved \in Nat /\ MaxSaved > 0 /\ Len(cs) \in Nat
  BY HistoryFileAssumption
<1>2. k = IF Len(cs) - MaxSaved >= 0 THEN Len(cs) - MaxSaved ELSE 0
  BY <1>1, MaxOfTwo
<1>3. w = SubSeq(cs, k + 1, Len(cs))
  BY DEF Window
<1> HIDE DEF k, w
<1>4. k \in 0 .. Len(cs) /\ Len(cs) - k \in Nat
  BY <1>1, <1>2
<1>5. Min({Len(cs), MaxSaved}) = Len(cs) - k
  <2>1. Min({Len(cs), MaxSaved}) = IF Len(cs) <= MaxSaved THEN Len(cs) ELSE MaxSaved
    BY <1>1, MinOfTwo
  <2> QED BY <1>1, <1>2, <2>1
<1>6. /\ w \in Seq(S) /\ Len(w) = Len(cs) - k
      /\ \A i \in 1 .. Len(cs) - k : w[i] = cs[k + i]
  <2>1. \A i \in k + 1 .. Len(cs) : cs[i] \in S
    BY <1>4
  <2>2. k + 1 \in Int /\ Len(cs) \in Int /\ Len(cs) - (k + 1) + 1 = Len(cs) - k
    BY <1>4
  <2>3. /\ w \in Seq(S)
        /\ Len(w) = IF k + 1 <= Len(cs) THEN Len(cs) - (k + 1) + 1 ELSE 0
        /\ \A i \in 1 .. Len(cs) - (k + 1) + 1 : w[i] = cs[(k + 1) + i - 1]
    BY <1>3, <2>1, <2>2, SubSeqProperties
  <2>4. Len(w) = Len(cs) - k
    BY <1>4, <2>3
  <2>5. \A i \in 1 .. Len(cs) - k : (k + 1) + i - 1 = k + i
    BY <1>4
  <2> QED BY <2>2, <2>3, <2>4, <2>5
<1>7. \A i \in DOMAIN w : \E j \in DOMAIN cs : w[i] = cs[j]
  <2> SUFFICES ASSUME NEW i \in 1 .. Len(cs) - k PROVE \E j \in DOMAIN cs : w[i] = cs[j]
    BY <1>6
  <2>1. k + i \in 1 .. Len(cs)
    BY <1>4
  <2> QED BY <1>6, <2>1
<1>8. IsSuffix(w, cs)
  <2> DEFINE n == Len(cs) - k
             r == Reverse(w)
             q == Reverse(cs)
  <2>1. /\ r = [i \in 1 .. n |-> w[(n - i) + 1]]
        /\ q = [i \in 1 .. Len(cs) |-> cs[(Len(cs) - i) + 1]]
    BY <1>6 DEF Reverse
  <2>2. n \in Nat /\ n <= Len(cs)
    BY <1>1, <1>4
  <2>3. ASSUME NEW i \in 1 .. n
        PROVE  /\ (n - i) + 1 \in 1 .. n /\ (Len(cs) - i) + 1 \in 1 .. Len(cs)
               /\ k + ((n - i) + 1) = (Len(cs) - i) + 1
               /\ i \in 1 .. Len(cs)
    BY <1>1, <1>4
  <2> HIDE DEF n
  <2>4. ASSUME NEW i \in 1 .. n PROVE r[i] = q[i] /\ r[i] \in S /\ q[i] \in S
    <3>1. r[i] = w[(n - i) + 1] /\ q[i] = cs[(Len(cs) - i) + 1]
      BY <2>1, <2>3
    <3>2. w[(n - i) + 1] = cs[(Len(cs) - i) + 1]
      <4>1. w[(n - i) + 1] = cs[k + ((n - i) + 1)]
        BY <1>6, <2>3 DEF n
      <4> QED BY <2>3, <4>1, Zenon
    <3>3. cs[(Len(cs) - i) + 1] \in S
      BY <2>3
    <3> QED BY <3>1, <3>2, <3>3
  <2>5. Len(r) = n /\ Len(q) = Len(cs)
    BY <1>1, <2>1, <2>2
  <2> HIDE DEF r, q
  <2>6. SubSeq(r, 1, n) = SubSeq(q, 1, n)
    <3> DEFINE a == SubSeq(r, 1, n)
               b == SubSeq(q, 1, n)
    <3>1. 1 \in Int /\ n \in Int /\ n - 1 + 1 = n /\ (1 <= n \/ n = 0)
      BY <2>2
    <3>2. /\ a \in Seq(S) /\ Len(a) = n /\ \A i \in 1 .. n : a[i] = r[1 + i - 1]
      BY <2>4, <3>1, SubSeqProperties
    <3>3. /\ b \in Seq(S) /\ Len(b) = n /\ \A i \in 1 .. n : b[i] = q[1 + i - 1]
      BY <2>4, <3>1, SubSeqProperties
    <3>4. \A i \in 1 .. n : 1 + i - 1 = i
      OBVIOUS
    <3> HIDE DEF a, b
    <3>5. \A i \in 1 .. n : a[i] = b[i]
      BY <2>4, <3>2, <3>3, <3>4
    <3>6. a = b
      BY <3>2, <3>3, <3>5, SeqEqual
    <3> QED BY <3>6 DEF a, b
  <2> QED BY <2>2, <2>5, <2>6 DEF IsSuffix, IsPrefix, r, q
<1> QED BY <1>5, <1>6, <1>7, <1>8 DEF w

\* What is read has no Nul, and is all of a text that has none.
LEMMA ReadableFacts ==
    ASSUME NEW text \in Seq(Chars \cup {Nul})
    PROVE  /\ Readable(text) \in Seq(Chars)
           /\ text \in Seq(Chars) => Readable(text) = text
<1> DEFINE nuls == {i \in DOMAIN text : text[i] = Nul}
<1>1. Nul \notin Chars
  BY HistoryFileAssumption
<1>2. nuls \subseteq Nat /\ nuls \subseteq 1 .. Len(text) /\ Len(text) \in Nat
  OBVIOUS
<1>3. text \in Seq(Chars) => nuls = {}
  BY <1>1
<1>4. CASE nuls = {}
  <2>1. \A i \in 1 .. Len(text) : text[i] \in Chars
    BY <1>4
  <2>2. text \in Seq(Chars)
    <3>1. SubSeq(text, 1, Len(text)) = text
      BY SubSeqFull
    <3>2. SubSeq(text, 1, Len(text)) \in Seq(Chars)
      BY <1>2, <2>1, SubSeqProperties
    <3> QED BY <3>1, <3>2
  <2> QED BY <1>4, <2>2 DEF Readable
<1>5. CASE nuls # {}
  <2> DEFINE m == Min(nuls)
  <2>1. m \in nuls /\ \A i \in nuls : m <= i
    <3> HIDE DEF nuls
    <3> QED BY <1>2, <1>5, MinFacts
  <2>2. m \in 1 .. Len(text) /\ m - 1 \in Int
    BY <2>1
  <2>3. ASSUME NEW i \in 1 .. m - 1 PROVE text[i] \in Chars
    <3>1. i \in 1 .. Len(text) /\ ~(m <= i)
      BY <1>2, <2>2
    <3>2. i \notin nuls
      <4> HIDE DEF m, nuls
      <4> QED BY <2>1, <3>1
    <3> QED BY <3>1, <3>2
  <2>4. SubSeq(text, 1, m - 1) \in Seq(Chars)
    <3> HIDE DEF m
    <3> QED BY <2>2, <2>3, SubSeqProperties
  <2> QED BY <1>3, <1>5, <2>4 DEF Readable
<1> QED BY <1>4, <1>5

\* A beginning, and the piece behind it.
LEMMA PrefixFacts ==
    ASSUME NEW S, NEW t \in Seq(S), NEW i \in 0 .. Len(t), NEW j \in i .. Len(t)
    PROVE  /\ SubSeq(t, 1, j) \in Seq(S) /\ Len(SubSeq(t, 1, j)) = j
           /\ SubSeq(t, 1, 0) = <<>> /\ SubSeq(t, 1, Len(t)) = t
           /\ SubSeq(t, 1, i) \o SubSeq(t, i + 1, j) = SubSeq(t, 1, j)
           /\ \A k \in 1 .. j : SubSeq(t, 1, j)[k] = t[k]
<1>1. Len(t) \in Nat /\ i \in Nat /\ j \in Nat /\ i <= j /\ j <= Len(t)
  OBVIOUS
<1>2. \A k \in 1 .. j : t[k] \in S
  BY <1>1
<1>3. /\ SubSeq(t, 1, j) \in Seq(S)
      /\ Len(SubSeq(t, 1, j)) = IF 1 <= j THEN j - 1 + 1 ELSE 0
      /\ \A k \in 1 .. j - 1 + 1 : SubSeq(t, 1, j)[k] = t[1 + k - 1]
  BY <1>1, <1>2, SubSeqProperties
<1>4. j - 1 + 1 = j /\ (1 <= j \/ j = 0) /\ \A k \in 1 .. j : 1 + k - 1 = k
  BY <1>1
<1>5. SubSeq(t, 1, i) \o SubSeq(t, i + 1, j) = SubSeq(t, 1, j)
  <2>1. 1 \in 1 .. Len(t) + 1 /\ i \in 1 - 1 .. Len(t) /\ j \in i .. Len(t)
    BY <1>1
  <2> QED BY <2>1, ConcatAdjacentSubSeq
<1>6. SubSeq(t, 1, 0) = <<>> /\ SubSeq(t, 1, Len(t)) = t
  BY SubSeqEmpty, SubSeqFull
<1> QED BY <1>3, <1>4, <1>5, <1>6

-----------------------------------------------------------------------------
(* The inductive invariant *)

\* What the file holds when the last save is over, and a beginning of it.
Whole == Encoded(Window(saved))
UpTo(n) == SubSeq(Whole, 1, n)

Readers == {s \in Shells : phase[s] = "reading"}
Savers == {s \in Shells : phase[s] = "saving"}

\* Who neither reads nor saves holds nothing of the file.
Idle == \A s \in Shells :
    /\ phase[s] \notin {"reading", "saving"} => offset[s] = 0 /\ stream[s] = <<>>
    /\ phase[s] = "none" => commands[s] = <<>>

\* The file is a beginning of what was last begun to be saved: one shell at
\* most is writing the rest of it, and what the others read is a beginning too.
FileIsSaved ==
    /\ Len(file) <= Len(Whole) /\ file = UpTo(Len(file))
    /\ \A s \in Readers : offset[s] <= Len(file) /\ stream[s] = UpTo(offset[s])
    /\ \A s \in Savers : offset[s] = Len(file) /\ stream[s] = Whole
    /\ \A s, t \in Savers : s = t

\* The file is complete but while it is written, when nobody reads it.
SaveIsAlone ==
    /\ Savers = {} => file = Whole
    /\ Savers # {} => Readers = {}

EnteredOnly ==
    /\ \A s \in Shells : \A i \in DOMAIN commands[s] : LinesIn(commands[s][i]) \subseteq entered
    /\ \A i \in DOMAIN saved : LinesIn(saved[i]) \subseteq entered

IInv ==
    /\ TypeOK /\ Idle
    /\ ~mixed \/ ~torn => FileIsSaved
    /\ ~torn => SaveIsAlone
    /\ ~mixed => EnteredOnly

\* What was last saved, as a text.
LEMMA WholeFacts ==
    ASSUME TypeOK
    PROVE  /\ Newline \in Chars /\ Nul \notin Chars
           /\ Window(saved) \in Seq(Seq(Chars))
           /\ Whole \in Seq(Chars) /\ Len(Whole) \in Nat /\ Intact(Whole)
           /\ UpTo(0) = <<>> /\ UpTo(Len(Whole)) = Whole
<1>1. Newline \in Chars /\ Nul \notin Chars
  <2>1. Newline \in Chars
    BY DEF Chars
  <2> QED BY <2>1, HistoryFileAssumption
<1>2. saved \in Seq(Seq(Chars))
  BY DEF TypeOK
<1> DEFINE cs == Window(saved)
<1>3. cs \in Seq(Seq(Chars))
  BY <1>2, WindowFacts
<1> HIDE DEF cs
<1>4. Encoded(cs) \in Seq(Chars) /\ Intact(Encoded(cs))
  BY <1>1, <1>3, EncodedIntact
<1>5. Whole \in Seq(Chars) /\ Intact(Whole)
  BY <1>4 DEF Whole, cs
<1>6. UpTo(0) = <<>> /\ UpTo(Len(Whole)) = Whole
  <2> HIDE DEF Whole
  <2>1. Len(Whole) \in Nat /\ 0 \in 0 .. Len(Whole) /\ Len(Whole) \in 0 .. Len(Whole)
    BY <1>5
  <2> QED BY <1>5, <2>1, PrefixFacts DEF UpTo
<1> QED BY <1>1, <1>3, <1>5, <1>6 DEF cs

\* The program starts in the invariant.
LEMMA InitIInv == Init => IInv
<1> SUFFICES ASSUME Init PROVE IInv
  OBVIOUS
<1>1. TypeOK
  <2>1. /\ file \in Seq(Chars \cup {Nul}) /\ saved \in Seq(Seq(Chars))
        /\ entered \subseteq Seq(Chars \ {Newline})
    BY DEF Init
  <2>2. \A s \in Shells : offset[s] <= Len(stream[s])
    BY DEF Init
  <2> QED BY <2>1, <2>2 DEF Init, TypeOK
<1>2. Idle
  BY DEF Init, Idle
<1>3. Readers = {} /\ Savers = {}
  BY DEF Init, Readers, Savers
<1>4. Whole = <<>>
  <2>1. <<>> \in Seq(Seq(Chars)) /\ <<>> \in Seq(Chars) /\ Len(<<>>) = 0 /\ Newline \in Chars
    BY <1>1, WholeFacts
  <2>2. Window(<<>>) = <<>>
    <3>1. Window(<<>>) \in Seq(Seq(Chars)) /\ Len(Window(<<>>)) = Min({0, MaxSaved})
      BY <2>1, WindowFacts
    <3>2. Min({0, MaxSaved}) = 0
      BY MinOfTwo, HistoryFileAssumption
    <3> HIDE DEF Window
    <3> QED BY <3>1, <3>2, EmptySeq
  <2> QED BY <2>1, <2>2, EncodedFacts DEF Init, Whole
<1>5. FileIsSaved /\ SaveIsAlone
  <2>1. file = <<>> /\ Len(file) = 0
    BY DEF Init
  <2> QED BY <1>1, <1>3, <1>4, <2>1, WholeFacts DEF FileIsSaved, SaveIsAlone
<1>6. EnteredOnly
  BY DEF Init, EnteredOnly
<1> QED BY <1>1, <1>2, <1>5, <1>6 DEF IInv

-----------------------------------------------------------------------------
(* The steps *)

\* Who reads and who saves, after a shell's phase has changed.
LEMMA PhaseFacts ==
    ASSUME TypeOK, NEW s \in Shells, NEW p, Go(s, p)
    PROVE  /\ phase'[s] = p /\ \A t \in Shells \ {s} : phase'[t] = phase[t]
           /\ Readers' = IF p = "reading" THEN Readers \cup {s} ELSE Readers \ {s}
           /\ Savers' = IF p = "saving" THEN Savers \cup {s} ELSE Savers \ {s}
BY DEF TypeOK, Go, Readers, Savers

LEMMA AttachIInv ==
    ASSUME IInv, NEW s \in Shells, Attach(s)
    PROVE  IInv'
<1> USE DEF IInv
<1>1. /\ UNCHANGED <<file, commands, stream, offset, saved, mixed, entered>>
      /\ torn' = (torn \/ Savers # {}) /\ phase[s] = "none" /\ Go(s, "reading")
  BY DEF Attach, Savers
<1>2. TypeOK'
  <2>1. phase' \in [Shells -> {"none", "reading", "running", "saving", "gone", "failed"}]
    BY <1>1 DEF TypeOK, Go
  <2>2. torn' \in BOOLEAN
    BY <1>1 DEF TypeOK
  <2> QED BY <1>1, <2>1, <2>2 DEF TypeOK
<1>3. /\ phase'[s] = "reading" /\ \A t \in Shells \ {s} : phase'[t] = phase[t]
      /\ Readers' = Readers \cup {s} /\ Savers' = Savers
  <2>1. s \notin Savers
    BY <1>1 DEF Savers
  <2> QED BY <1>1, <2>1, PhaseFacts
<1>4. Idle'
  BY <1>1, <1>3 DEF Idle
<1>5. offset[s] = 0 /\ stream[s] = <<>> /\ UpTo(0) = <<>>
  BY <1>1, WholeFacts DEF Idle
<1>6. ASSUME FileIsSaved PROVE FileIsSaved'
  <2>1. Whole' = Whole /\ \A n : UpTo(n)' = UpTo(n)
    BY <1>1 DEF Whole, UpTo
  <2>2. Len(file) \in Nat
    BY DEF TypeOK
  <2> QED BY <1>1, <1>3, <1>5, <1>6, <2>1, <2>2 DEF FileIsSaved
<1>7. ASSUME ~torn' PROVE SaveIsAlone'
  <2>1. Whole' = Whole
    BY <1>1 DEF Whole
  <2> QED BY <1>1, <1>3, <1>7, <2>1 DEF SaveIsAlone
<1>8. EnteredOnly => EnteredOnly'
  BY <1>1 DEF EnteredOnly
<1> QED BY <1>1, <1>2, <1>4, <1>6, <1>7, <1>8

\* The next block of a beginning makes a longer one.
LEMMA ReadBlockIInv ==
    ASSUME IInv, NEW s \in Shells, ReadBlock(s)
    PROVE  IInv'
<1> USE DEF IInv
<1> DEFINE to == Min({Len(file), offset[s] + BlockSize})
           more == SubSeq(file, offset[s] + 1, to)
<1>1. /\ UNCHANGED <<file, phase, commands, saved, torn, mixed, entered>>
      /\ stream' = [stream EXCEPT ![s] = @ \o more]
      /\ offset' = [offset EXCEPT ![s] = to]
      /\ phase[s] = "reading" /\ offset[s] < Len(file)
  BY DEF ReadBlock
<1>2. /\ to \in offset[s] + 1 .. Len(file) /\ offset[s] \in Nat /\ Len(file) \in Nat
      /\ file \in Seq(Chars \cup {Nul}) /\ stream[s] \in Seq(Chars \cup {Nul})
      /\ offset[s] <= Len(stream[s])
  <2>1. /\ offset[s] \in Nat /\ Len(file) \in Nat
        /\ file \in Seq(Chars \cup {Nul}) /\ stream[s] \in Seq(Chars \cup {Nul})
        /\ offset[s] <= Len(stream[s])
    BY DEF TypeOK
  <2> QED BY <1>1, <2>1, BlockFacts
<1> HIDE DEF to
<1>3. more \in Seq(Chars \cup {Nul}) /\ Len(more) = to - offset[s]
  <2>1. \A i \in offset[s] + 1 .. to : file[i] \in Chars \cup {Nul}
    <3>1. \A i \in offset[s] + 1 .. to : i \in 1 .. Len(file)
      BY <1>2
    <3> QED BY <1>2, <3>1, ElementOfSeq
  <2>2. offset[s] + 1 \in Int /\ to \in Int /\ offset[s] + 1 <= to
    BY <1>2
  <2>3. to - (offset[s] + 1) + 1 = to - offset[s]
    BY <1>2
  <2> QED BY <2>1, <2>2, <2>3, SubSeqProperties
<1> HIDE DEF more
<1>4. TypeOK'
  <2>1. /\ stream[s] \o more \in Seq(Chars \cup {Nul})
        /\ Len(stream[s] \o more) = Len(stream[s]) + (to - offset[s])
    <3> DEFINE a == stream[s]
    <3>1. a \in Seq(Chars \cup {Nul})
      BY <1>2
    <3> HIDE DEF a
    <3>2. a \o more \in Seq(Chars \cup {Nul}) /\ Len(a \o more) = Len(a) + Len(more)
      BY <1>3, <3>1, ConcatProperties
    <3> QED BY <1>3, <3>2 DEF a
  <2>2. to \in Nat /\ Len(stream[s]) \in Nat /\ to <= Len(stream[s]) + (to - offset[s])
    BY <1>2
  <2>3. stream' \in [Shells -> Seq(Chars \cup {Nul})] /\ offset' \in [Shells -> Nat]
    BY <1>1, <2>1, <2>2 DEF TypeOK
  <2>4. \A t \in Shells : offset'[t] <= Len(stream'[t])
    BY <1>1, <2>1, <2>2 DEF TypeOK
  <2> QED BY <1>1, <2>3, <2>4 DEF TypeOK
<1>5. /\ stream'[s] = stream[s] \o more /\ offset'[s] = to
      /\ \A t \in Shells \ {s} : stream'[t] = stream[t] /\ offset'[t] = offset[t]
  BY <1>1 DEF TypeOK
<1>6. Idle'
  BY <1>1, <1>5 DEF Idle
<1>7. Whole' = Whole /\ (\A n : UpTo(n)' = UpTo(n)) /\ Readers' = Readers /\ Savers' = Savers
  BY <1>1 DEF Whole, UpTo, Readers, Savers
<1>8. ASSUME FileIsSaved PROVE FileIsSaved'
  <2>1. s \in Readers /\ s \notin Savers
    BY <1>1 DEF Readers, Savers
  <2>2. /\ Len(file) <= Len(Whole) /\ file = UpTo(Len(file)) /\ stream[s] = UpTo(offset[s])
        /\ Whole \in Seq(Chars) /\ Len(Whole) \in Nat
    BY <1>8, <2>1, WholeFacts DEF FileIsSaved
  <2>3. more = SubSeq(Whole, offset[s] + 1, to)
    <3>1. more = SubSeq(UpTo(Len(file)), offset[s] + 1, to)
      BY <2>2 DEF more
    <3>2. /\ 1 \in 1 .. Len(Whole) /\ Len(file) \in 1 .. Len(Whole)
          /\ offset[s] + 1 \in 1 .. Len(file) - 1 + 1 /\ to \in 1 .. Len(file) - 1 + 1
          /\ 1 + (offset[s] + 1) - 1 = offset[s] + 1 /\ 1 + to - 1 = to
      BY <1>2, <2>2
    <3>3. SubSeq(SubSeq(Whole, 1, Len(file)), offset[s] + 1, to)
              = SubSeq(Whole, 1 + (offset[s] + 1) - 1, 1 + to - 1)
      <4> DEFINE w == Whole
                 l == Len(file)
                 i == offset[s] + 1
      <4>1. /\ w \in Seq(Chars) /\ 1 \in 1 .. Len(w) /\ l \in 1 .. Len(w)
            /\ i \in 1 .. l - 1 + 1 /\ to \in 1 .. l - 1 + 1
        BY <2>2, <3>2
      <4> HIDE DEF w, l, i
      <4>2. SubSeq(SubSeq(w, 1, l), i, to) = SubSeq(w, 1 + i - 1, 1 + to - 1)
        BY <4>1, SubSeqOfSubSeq
      <4> QED BY <4>2 DEF w, l, i
    <3> QED BY <3>1, <3>2, <3>3 DEF UpTo
  <2>4. stream'[s] = UpTo(to)
    <3>1. offset[s] \in 0 .. Len(Whole) /\ to \in offset[s] .. Len(Whole)
      BY <1>2, <2>2
    <3>2. SubSeq(Whole, 1, offset[s]) \o SubSeq(Whole, offset[s] + 1, to) = SubSeq(Whole, 1, to)
      <4> DEFINE w == Whole
                 i == offset[s]
      <4>1. w \in Seq(Chars) /\ i \in 0 .. Len(w) /\ to \in i .. Len(w)
        BY <2>2, <3>1
      <4> HIDE DEF w, i
      <4>2. SubSeq(w, 1, i) \o SubSeq(w, i + 1, to) = SubSeq(w, 1, to)
        BY <4>1, PrefixFacts
      <4> QED BY <4>2 DEF w, i
    <3> QED BY <1>5, <2>2, <2>3, <3>2 DEF UpTo
  <2>5. to <= Len(file)
    BY <1>2
  <2>6. \A t \in Readers : offset'[t] <= Len(file) /\ stream'[t] = UpTo(offset'[t])
    BY <1>5, <1>8, <2>4, <2>5 DEF FileIsSaved, Readers
  <2>7. \A t \in Savers : offset'[t] = offset[t] /\ stream'[t] = stream[t]
    BY <1>5, <2>1 DEF Savers
  <2> QED BY <1>1, <1>7, <1>8, <2>6, <2>7 DEF FileIsSaved
<1>9. SaveIsAlone => SaveIsAlone'
  BY <1>1, <1>7 DEF SaveIsAlone
<1>10. EnteredOnly => EnteredOnly'
  BY <1>1 DEF EnteredOnly
<1> QED BY <1>1, <1>4, <1>6, <1>8, <1>9, <1>10

\* As long as the file is a beginning of what was saved, nothing else can be read.
LEMMA ReadIsSaved ==
    ASSUME TypeOK, FileIsSaved, EnteredOnly, NEW s \in Readers
    PROVE  /\ Readable(stream[s]) = stream[s]
           /\ ToSet(LinesOf(stream[s])) \subseteq entered
<1>1. /\ Whole \in Seq(Chars) /\ Len(Whole) \in Nat /\ Newline \in Chars
      /\ Window(saved) \in Seq(Seq(Chars))
  BY WholeFacts
<1>2. s \in Shells /\ offset[s] \in 0 .. Len(Whole) /\ stream[s] = UpTo(offset[s])
  BY <1>1 DEF FileIsSaved, Readers, TypeOK
<1>3. stream[s] \in Seq(Chars)
  <2> DEFINE i == offset[s]
             w == Whole
  <2>1. w \in Seq(Chars) /\ i \in 0 .. Len(w) /\ 0 \in 0 .. Len(w) /\ i \in 0 .. Len(w)
    BY <1>1, <1>2
  <2> HIDE DEF i, w
  <2>2. SubSeq(w, 1, i) \in Seq(Chars)
    BY <2>1, PrefixFacts
  <2> QED BY <1>2, <2>2 DEF i, w, UpTo
<1>4. ToSet(LinesOf(UpTo(offset[s]))) \subseteq ToSet(LinesOf(Whole))
  <2> DEFINE i == offset[s]
             w == Whole
  <2>1. w \in Seq(Chars) /\ i \in 0 .. Len(w)
    BY <1>1, <1>2
  <2> HIDE DEF i, w
  <2>2. ToSet(LinesOf(SubSeq(w, 1, i))) \subseteq ToSet(LinesOf(w))
    BY <2>1, LinesOfPrefix
  <2> QED BY <2>2 DEF i, w, UpTo
<1>5. ToSet(LinesOf(Whole)) \subseteq entered
  <2> DEFINE cs == Window(saved)
  <2>1. \A i \in DOMAIN cs : LinesIn(cs[i]) \subseteq entered
    <3>1. saved \in Seq(Seq(Chars))
      BY DEF TypeOK
    <3>2. \A i \in DOMAIN cs : \E j \in DOMAIN saved : cs[i] = saved[j]
      BY <3>1, WindowFacts
    <3> HIDE DEF cs
    <3> QED BY <3>2 DEF EnteredOnly
  <2>2. cs \in Seq(Seq(Chars))
    BY <1>1
  <2> HIDE DEF cs
  <2>3. ToSet(LinesOf(Encoded(cs))) \subseteq entered
    BY <1>1, <2>1, <2>2, EncodedWithin
  <2> QED BY <2>3 DEF cs, Whole
<1>6. Readable(stream[s]) = stream[s]
  <2>1. stream[s] \in Seq(Chars \cup {Nul})
    BY <1>2 DEF TypeOK
  <2> QED BY <1>3, <2>1, ReadableFacts
<1> QED BY <1>2, <1>4, <1>5, <1>6

\* A shell that read the whole file, and how it goes on.
LEMMA PopulateIInv ==
    ASSUME IInv, NEW s \in Shells, Populate(s)
    PROVE  IInv'
<1> USE DEF IInv
<1> DEFINE text == Readable(stream[s])
<1>1. /\ UNCHANGED <<file, saved, torn, mixed, entered>>
      /\ stream' = [stream EXCEPT ![s] = <<>>] /\ offset' = [offset EXCEPT ![s] = 0]
      /\ phase[s] = "reading"
  BY DEF Populate
<1>2. \/ Go(s, "running") /\ commands' = [commands EXCEPT ![s] = LinesOf(text)]
      \/ Go(s, "failed") /\ UNCHANGED commands
  BY DEF Populate
<1>3. /\ text \in Seq(Chars) /\ LinesOf(text) \in Seq(Seq(Chars))
      /\ \A i \in DOMAIN LinesOf(text) : Newline \notin ToSet(LinesOf(text)[i])
  <2>1. text \in Seq(Chars)
    BY ReadableFacts DEF TypeOK
  <2> HIDE DEF text
  <2> QED BY <2>1, LinesArePlain
<1> HIDE DEF text
<1>4. TypeOK'
  <2>1. phase' \in [Shells -> {"none", "reading", "running", "saving", "gone", "failed"}]
    BY <1>2 DEF TypeOK, Go
  <2>2. commands' \in [Shells -> Seq(Seq(Chars))]
    BY <1>2, <1>3 DEF TypeOK
  <2>3. stream' \in [Shells -> Seq(Chars \cup {Nul})] /\ offset' \in [Shells -> Nat]
    BY <1>1 DEF TypeOK
  <2>4. \A t \in Shells : offset'[t] <= Len(stream'[t])
    BY <1>1 DEF TypeOK
  <2> QED BY <1>1, <2>1, <2>2, <2>3, <2>4 DEF TypeOK
<1>5. /\ stream'[s] = <<>> /\ offset'[s] = 0
      /\ \A t \in Shells \ {s} : stream'[t] = stream[t] /\ offset'[t] = offset[t]
  BY <1>1 DEF TypeOK
<1>6. /\ phase'[s] \in {"running", "failed"} /\ \A t \in Shells \ {s} : phase'[t] = phase[t]
      /\ Readers' = Readers \ {s} /\ Savers' = Savers
  <2>1. s \notin Savers
    BY <1>1 DEF Savers
  <2> QED BY <1>2, <2>1, PhaseFacts
<1>7. \A t \in Shells \ {s} : commands'[t] = commands[t]
  BY <1>2 DEF TypeOK
<1>8. Idle'
  BY <1>5, <1>6, <1>7 DEF Idle
<1>9. Whole' = Whole /\ \A n : UpTo(n)' = UpTo(n)
  BY <1>1 DEF Whole, UpTo
<1>10. FileIsSaved => FileIsSaved'
  <2>1. s \notin Savers /\ Savers \subseteq Shells /\ Readers \subseteq Shells
    BY <1>1 DEF Savers, Readers
  <2> QED BY <1>1, <1>5, <1>6, <1>9, <2>1 DEF FileIsSaved
<1>11. SaveIsAlone => SaveIsAlone'
  BY <1>1, <1>6, <1>9 DEF SaveIsAlone
<1>12. ASSUME FileIsSaved, EnteredOnly PROVE EnteredOnly'
  <2>1. s \in Readers
    BY <1>1 DEF Readers
  <2>2. text = stream[s] /\ ToSet(LinesOf(text)) \subseteq entered
    BY <1>12, <2>1, ReadIsSaved DEF text
  <2>3. ASSUME NEW i \in DOMAIN LinesOf(text) PROVE LinesIn(LinesOf(text)[i]) \subseteq entered
    <3> DEFINE l == LinesOf(text)[i]
    <3>1. l \in Seq(Chars) /\ Newline \notin ToSet(l) /\ Newline \in Chars
      BY <1>3, <2>3, WholeFacts
    <3>2. l \in entered
      BY <2>2, <2>3 DEF ToSet
    <3> HIDE DEF l
    <3>3. LinesOf(Append(l, Newline)) = <<l>>
      BY <3>1, PlainLine
    <3>4. ToSet(<<l>>) = {l}
      BY DEF ToSet
    <3> QED BY <3>2, <3>3, <3>4 DEF LinesIn, l
  <2>4. \A i \in DOMAIN commands'[s] : LinesIn(commands'[s][i]) \subseteq entered
    <3>1. CASE commands' = [commands EXCEPT ![s] = LinesOf(text)]
      <4>1. commands'[s] = LinesOf(text)
        BY <3>1 DEF TypeOK
      <4> QED BY <2>3, <4>1
    <3>2. CASE UNCHANGED commands
      BY <1>12, <3>2 DEF EnteredOnly
    <3> QED BY <1>2, <3>1, <3>2
  <2> QED BY <1>1, <1>7, <1>12, <2>4 DEF EnteredOnly
<1> QED BY <1>1, <1>4, <1>8, <1>10, <1>11, <1>12

LEMMA AttachWithoutIInv ==
    ASSUME IInv, NEW s \in Shells, AttachWithout(s)
    PROVE  IInv'
<1> USE DEF IInv
<1>1. /\ UNCHANGED <<file, commands, stream, offset, saved, torn, mixed, entered>>
      /\ phase[s] = "none" /\ Go(s, "running")
  BY DEF AttachWithout
<1>2. TypeOK'
  <2>1. phase' \in [Shells -> {"none", "reading", "running", "saving", "gone", "failed"}]
    BY <1>1 DEF TypeOK, Go
  <2> QED BY <1>1, <2>1 DEF TypeOK
<1>3. /\ phase'[s] = "running" /\ \A t \in Shells \ {s} : phase'[t] = phase[t]
      /\ Readers' = Readers /\ Savers' = Savers
  <2>1. s \notin Savers /\ s \notin Readers
    BY <1>1 DEF Savers, Readers
  <2> QED BY <1>1, <2>1, PhaseFacts
<1>4. Idle'
  BY <1>1, <1>3 DEF Idle
<1>5. Whole' = Whole /\ \A n : UpTo(n)' = UpTo(n)
  BY <1>1 DEF Whole, UpTo
<1>6. (FileIsSaved => FileIsSaved') /\ (SaveIsAlone => SaveIsAlone')
  BY <1>1, <1>3, <1>5 DEF FileIsSaved, SaveIsAlone
<1>7. EnteredOnly => EnteredOnly'
  BY <1>1 DEF EnteredOnly
<1> QED BY <1>1, <1>2, <1>4, <1>6, <1>7

LEMMA EnterIInv ==
    ASSUME IInv, NEW s \in Shells, NEW c \in Commands, Enter(s, c)
    PROVE  IInv'
<1> USE DEF IInv
<1> DEFINE lines == LinesOf(Append(c, Newline))
<1>1. /\ UNCHANGED <<file, phase, stream, offset, saved, torn, mixed>>
      /\ phase[s] = "running"
      /\ commands' = [commands EXCEPT ![s] = Append(@, c)]
      /\ entered' = entered \cup ToSet(lines)
  BY DEF Enter
<1>2. c \in Seq(Chars) /\ Newline \in Chars
  BY HistoryFileAssumption, WholeFacts
<1>3. /\ lines \in Seq(Seq(Chars))
      /\ \A i \in DOMAIN lines : Newline \notin ToSet(lines[i])
  <2>1. Append(c, Newline) \in Seq(Chars)
    BY <1>2, AppendProperties
  <2> QED BY <2>1, LinesArePlain
<1>4. ToSet(lines) = LinesIn(c)
  BY DEF LinesIn
<1> HIDE DEF lines
<1>5. ToSet(lines) \subseteq Seq(Chars \ {Newline})
  <2> SUFFICES ASSUME NEW i \in 1 .. Len(lines) PROVE lines[i] \in Seq(Chars \ {Newline})
    BY <1>3 DEF ToSet
  <2> DEFINE l == lines[i]
  <2>1. l \in Seq(Chars) /\ Newline \notin ToSet(l)
    BY <1>3
  <2> HIDE DEF l
  <2>2. \A j \in 1 .. Len(l) : l[j] \in Chars \ {Newline}
    BY <2>1 DEF ToSet
  <2>3. SubSeq(l, 1, Len(l)) \in Seq(Chars \ {Newline}) /\ SubSeq(l, 1, Len(l)) = l
    BY <2>1, <2>2, SubSeqProperties, SubSeqFull, LenProperties
  <2> QED BY <2>3 DEF l
<1>6. TypeOK'
  <2>1. commands' \in [Shells -> Seq(Seq(Chars))]
    <3>1. Append(commands[s], c) \in Seq(Seq(Chars))
      BY <1>2, AppendProperties DEF TypeOK
    <3> QED BY <1>1, <3>1 DEF TypeOK
  <2>2. entered' \subseteq Seq(Chars \ {Newline})
    BY <1>1, <1>5 DEF TypeOK
  <2> QED BY <1>1, <2>1, <2>2 DEF TypeOK
<1>7. commands'[s] = Append(commands[s], c) /\ \A t \in Shells \ {s} : commands'[t] = commands[t]
  BY <1>1 DEF TypeOK
<1>8. Idle'
  BY <1>1, <1>7 DEF Idle
<1>9. /\ Whole' = Whole /\ (\A n : UpTo(n)' = UpTo(n))
      /\ Readers' = Readers /\ Savers' = Savers
  BY <1>1 DEF Whole, UpTo, Readers, Savers
<1>10. (FileIsSaved => FileIsSaved') /\ (SaveIsAlone => SaveIsAlone')
  BY <1>1, <1>9 DEF FileIsSaved, SaveIsAlone
<1>11. ASSUME EnteredOnly PROVE EnteredOnly'
  <2>1. entered \subseteq entered' /\ LinesIn(c) \subseteq entered'
    BY <1>1, <1>4
  <2>2. ASSUME NEW i \in DOMAIN commands'[s] PROVE LinesIn(commands'[s][i]) \subseteq entered'
    <3> DEFINE cs == commands[s]
               ds == Append(cs, c)
    <3>1. cs \in Seq(Seq(Chars)) /\ Len(cs) \in Nat /\ DOMAIN ds = 1 .. Len(cs) + 1
      BY <1>2, AppendProperties DEF TypeOK
    <3>2. \A j \in DOMAIN cs : LinesIn(cs[j]) \subseteq entered
      BY <1>11 DEF EnteredOnly
    <3>3. (\A j \in DOMAIN cs : ds[j] = cs[j]) /\ ds[Len(cs) + 1] = c /\ DOMAIN cs = 1 .. Len(cs)
      BY <1>2, <3>1, AppendProperties
    <3> HIDE DEF cs, ds
    <3>4. i \in DOMAIN ds
      BY <1>7, <2>2 DEF cs, ds
    <3>5. i \in DOMAIN cs \/ i = Len(cs) + 1
      BY <3>1, <3>3, <3>4
    <3>6. LinesIn(ds[i]) \subseteq entered'
      BY <2>1, <3>2, <3>3, <3>5
    <3> QED BY <1>7, <3>6 DEF cs, ds
  <2> QED BY <1>1, <1>7, <1>11, <2>1, <2>2 DEF EnteredOnly
<1> QED BY <1>1, <1>6, <1>8, <1>10, <1>11

\* A save that begins beside nobody else's access makes the file its own.
LEMMA BeginSaveIInv ==
    ASSUME IInv, NEW s \in Shells, BeginSave(s)
    PROVE  IInv'
<1> USE DEF IInv
<1> DEFINE text == Encoded(Window(commands[s]))
<1>1. /\ UNCHANGED <<commands, offset, entered>>
      /\ phase[s] = "running" /\ Go(s, "saving")
      /\ file' = <<>> /\ saved' = commands[s]
      /\ stream' = [stream EXCEPT ![s] = text]
      /\ torn' = Busy(s) /\ mixed' = (mixed \/ Busy(s))
  BY DEF BeginSave
<1>2. Newline \in Chars /\ commands[s] \in Seq(Seq(Chars))
  BY WholeFacts DEF TypeOK
<1>3. text \in Seq(Chars) /\ text \in Seq(Chars \cup {Nul})
  <2> DEFINE cs == Window(commands[s])
  <2>1. cs \in Seq(Seq(Chars))
    BY <1>2, WindowFacts
  <2> HIDE DEF cs
  <2>2. Encoded(cs) \in Seq(Chars)
    BY <1>2, <2>1, EncodedIntact
  <2>3. Encoded(cs) \in Seq(Chars \cup {Nul})
    BY <2>2, SeqMonotonic
  <2> QED BY <2>2, <2>3 DEF cs
<1>4. Whole' = text
  BY <1>1 DEF Whole
<1> HIDE DEF text
<1>5. Busy(s) \in BOOLEAN
  BY DEF Busy
<1>6. offset[s] = 0
  BY <1>1 DEF Idle
<1>7. /\ stream'[s] = text /\ \A t \in Shells \ {s} : stream'[t] = stream[t]
  BY <1>1 DEF TypeOK
<1>8. TypeOK'
  <2>1. phase' \in [Shells -> {"none", "reading", "running", "saving", "gone", "failed"}]
    BY <1>1 DEF TypeOK, Go
  <2>2. stream' \in [Shells -> Seq(Chars \cup {Nul})]
    BY <1>1, <1>3 DEF TypeOK
  <2>3. \A t \in Shells : offset'[t] <= Len(stream'[t])
    <3>1. 0 <= Len(text)
      BY <1>3
    <3> QED BY <1>1, <1>6, <1>7, <3>1 DEF TypeOK
  <2>4. torn' \in BOOLEAN
    BY <1>1, <1>5
  <2>5. mixed' \in BOOLEAN
    BY <1>1, <1>5 DEF TypeOK
  <2>6. file' \in Seq(Chars \cup {Nul}) /\ saved' \in Seq(Seq(Chars))
    BY <1>1, <1>2
  <2> QED BY <1>1, <2>1, <2>2, <2>3, <2>4, <2>5, <2>6 DEF TypeOK
<1>9. /\ phase'[s] = "saving" /\ \A t \in Shells \ {s} : phase'[t] = phase[t]
      /\ Readers' = Readers \ {s} /\ Savers' = Savers \cup {s}
  BY <1>1, PhaseFacts
<1>10. Idle'
  BY <1>1, <1>7, <1>9 DEF Idle
<1>11. ~Busy(s) => Readers' = {} /\ Savers' = {s}
  BY <1>9 DEF Busy, Readers, Savers
<1>12. ~mixed' \/ ~torn' => FileIsSaved'
  <2> SUFFICES ASSUME Readers' = {}, Savers' = {s} PROVE FileIsSaved'
    BY <1>1, <1>11
  <2>1. UpTo(0)' = <<>> /\ Len(Whole)' \in Nat
    <3>1. SubSeq(text, 1, 0) = <<>> /\ Len(text) \in Nat
      BY <1>3, SubSeqEmpty
    <3> QED BY <1>4, <3>1 DEF UpTo
  <2> QED BY <1>1, <1>4, <1>6, <1>7, <2>1 DEF FileIsSaved
<1>13. ~torn' => SaveIsAlone'
  BY <1>1, <1>11 DEF SaveIsAlone
<1>14. EnteredOnly => EnteredOnly'
  BY <1>1 DEF EnteredOnly
<1> QED BY <1>1, <1>8, <1>10, <1>12, <1>13, <1>14

\* What the file holds after a block was written to it.
LEMMA WrittenFacts ==
    ASSUME NEW S, file \in Seq(S \cup {Nul}), NEW text \in Seq(S \cup {Nul}), NEW at \in Nat
    PROVE  /\ Written(text, at) \in Seq(S \cup {Nul})
           /\ at = Len(file) => Written(text, at) = file \o text
<1> DEFINE n == Max({Len(file), at + Len(text)})
           w == Written(text, at)
           C == S \cup {Nul}
           l == Len(file)
           k == Len(text)
<1>1. l \in Nat /\ k \in Nat /\ n = IF l >= at + k THEN l ELSE at + k
  BY MaxOfTwo
<1>2. /\ (\A i \in 1 .. k : text[i] \in C) /\ (\A i \in 1 .. l : file[i] \in C) /\ Nul \in C
      /\ file \in Seq(C) /\ text \in Seq(C)
  OBVIOUS
<1>3. w = [i \in 1 .. n |->
              CASE i \in at + 1 .. at + k -> text[i - at]
                [] i \notin at + 1 .. at + k /\ i <= l -> file[i]
                [] OTHER -> Nul]
  BY DEF Written
<1> HIDE DEF n, w, C, l, k
<1>4. ASSUME NEW i \in 1 .. n
      PROVE  /\ i \in at + 1 .. at + k => w[i] = text[i - at] /\ i - at \in 1 .. k
             /\ i \notin at + 1 .. at + k /\ i <= l => w[i] = file[i] /\ i \in 1 .. l
             /\ i \notin at + 1 .. at + k /\ ~(i <= l) => w[i] = Nul
  <2>1. i \in at + 1 .. at + k => i - at \in 1 .. k
    BY <1>1
  <2>2. i <= l => i \in 1 .. l
    BY <1>1
  <2> QED BY <1>3, <2>1, <2>2
<1>5. \A i \in 1 .. n : w[i] \in C
  BY <1>2, <1>4
<1>6. w \in Seq(C) /\ Len(w) = n
  <2>1. n \in Nat
    BY <1>1
  <2>2. DOMAIN w = 1 .. n
    BY <1>3
  <2>3. w \in [1 .. n -> C]
    BY <1>3, <1>5, <2>2
  <2> QED BY <2>1, <2>3
<1>7. ASSUME at = l PROVE w = file \o text
  <2> DEFINE f == file \o text
  <2>1. /\ f \in Seq(C) /\ Len(f) = l + k
        /\ \A i \in 1 .. l + k : f[i] = IF i <= l THEN file[i] ELSE text[i - l]
    BY <1>2, ConcatProperties DEF l, k
  <2> HIDE DEF f
  <2>2. n = l + k
    BY <1>1, <1>7
  <2>3. ASSUME NEW i \in 1 .. n PROVE w[i] = f[i]
    <3>1. CASE i <= l
      <4>1. i \notin at + 1 .. at + k
        BY <1>1, <1>7, <3>1
      <4> QED BY <1>4, <2>1, <2>2, <3>1, <4>1
    <3>2. CASE ~(i <= l)
      <4>1. i \in at + 1 .. at + k
        BY <1>1, <1>7, <2>2, <3>2
      <4> QED BY <1>4, <1>7, <2>1, <2>2, <3>2, <4>1
    <3> QED BY <3>1, <3>2
  <2>4. w = f
    BY <1>6, <2>1, <2>2, <2>3, SeqEqual
  <2> QED BY <2>4 DEF f
<1> QED BY <1>6, <1>7 DEF w, C, l

\* The next block of what is saved makes the file a longer beginning of it.
LEMMA WriteBlockIInv ==
    ASSUME IInv, NEW s \in Shells, WriteBlock(s)
    PROVE  IInv'
<1> USE DEF IInv
<1> DEFINE to == Min({Len(stream[s]), offset[s] + BlockSize})
           more == SubSeq(stream[s], offset[s] + 1, to)
           at == offset[s]
           str == stream[s]
           w == Written(more, at)
<1>1. /\ UNCHANGED <<phase, commands, stream, saved, torn, mixed, entered>>
      /\ file' = w
      /\ offset' = [offset EXCEPT ![s] = to]
      /\ phase[s] = "saving" /\ at < Len(str)
  BY DEF WriteBlock
<1>2. /\ at \in Nat /\ Len(str) \in Nat /\ to \in at + 1 .. Len(str)
      /\ file \in Seq(Chars \cup {Nul}) /\ str \in Seq(Chars \cup {Nul})
  <2>1. /\ at \in Nat /\ Len(str) \in Nat
        /\ file \in Seq(Chars \cup {Nul}) /\ str \in Seq(Chars \cup {Nul})
    BY DEF TypeOK
  <2> QED BY <1>1, <2>1, BlockFacts
<1>3. more = SubSeq(str, at + 1, to)
  OBVIOUS
<1> HIDE DEF to, at, str, w, more
<1>4. to \in Nat /\ at + 1 <= to /\ to <= Len(str) /\ to - (at + 1) + 1 = to - at
  BY <1>2
<1>5. more \in Seq(Chars \cup {Nul})
  <2>1. \A i \in at + 1 .. to : i \in 1 .. Len(str)
    BY <1>2
  <2>2. \A i \in at + 1 .. to : str[i] \in Chars \cup {Nul}
    BY <1>2, <2>1, ElementOfSeq
  <2>3. at + 1 \in Int /\ to \in Int
    BY <1>2
  <2> QED BY <1>3, <2>2, <2>3, SubSeqProperties
<1>6. w \in Seq(Chars \cup {Nul}) /\ (at = Len(file) => w = file \o more)
  BY <1>2, <1>5, WrittenFacts DEF w
<1>7. offset'[s] = to /\ \A t \in Shells \ {s} : offset'[t] = offset[t]
  BY <1>1 DEF TypeOK
<1>8. TypeOK'
  <2>1. offset' \in [Shells -> Nat]
    BY <1>1, <1>4 DEF TypeOK
  <2>2. \A t \in Shells : offset'[t] <= Len(stream'[t])
    BY <1>1, <1>4, <1>7 DEF TypeOK, str
  <2> QED BY <1>1, <1>6, <2>1, <2>2 DEF TypeOK
<1>9. Idle'
  BY <1>1, <1>7 DEF Idle
<1>10. Whole' = Whole /\ (\A n : UpTo(n)' = UpTo(n)) /\ Readers' = Readers /\ Savers' = Savers
  BY <1>1 DEF Whole, UpTo, Readers, Savers
<1>11. s \in Savers /\ s \notin Readers
  BY <1>1 DEF Savers, Readers
<1>12. ASSUME FileIsSaved PROVE FileIsSaved'
  <2>1. /\ at = Len(file) /\ str = Whole /\ file = UpTo(Len(file))
        /\ Whole \in Seq(Chars) /\ Len(Whole) \in Nat
    BY <1>11, <1>12, WholeFacts DEF FileIsSaved, at, str
  <2>2. file' = UpTo(to) /\ Len(file') = to
    <3> DEFINE whole == Whole
    <3>1. whole \in Seq(Chars) /\ at \in 0 .. Len(whole) /\ to \in at .. Len(whole)
      BY <1>2, <2>1
    <3>2. file = SubSeq(whole, 1, at) /\ more = SubSeq(whole, at + 1, to)
      BY <1>3, <2>1 DEF UpTo
    <3>3. file' = file \o more
      BY <1>1, <1>6, <2>1
    <3> DEFINE i == at
               j == to
    <3> HIDE DEF whole, i, j
    <3>4. SubSeq(whole, 1, i) \o SubSeq(whole, i + 1, j) = SubSeq(whole, 1, j)
      <4>1. i \in 0 .. Len(whole) /\ j \in i .. Len(whole)
        BY <3>1 DEF i, j
      <4> QED BY <3>1, <4>1, PrefixFacts
    <3>5. Len(SubSeq(whole, 1, to)) = to
      BY <3>1
    <3> QED BY <3>2, <3>3, <3>4, <3>5 DEF whole, i, j, UpTo
  <2>3. to <= Len(Whole) /\ Len(file) <= to /\ Len(file) \in Nat
    BY <1>2, <2>1
  <2>4. \A t \in Readers : offset'[t] <= to /\ stream'[t] = UpTo(offset'[t])
    <3> SUFFICES ASSUME NEW t \in Readers PROVE offset'[t] <= to /\ stream'[t] = UpTo(offset'[t])
      OBVIOUS
    <3>1. t \in Shells \ {s} /\ offset[t] \in Nat
      BY <1>11 DEF Readers, TypeOK
    <3>2. offset[t] <= Len(file) /\ stream[t] = UpTo(offset[t])
      BY <1>12 DEF FileIsSaved
    <3> QED BY <1>1, <1>4, <1>7, <2>3, <3>1, <3>2
  <2>5. \A t \in Savers : t = s
    BY <1>11, <1>12 DEF FileIsSaved
  <2>6. offset'[s] = to /\ stream'[s] = Whole
    BY <1>1, <1>7, <2>1 DEF str
  <2> QED BY <1>10, <1>12, <2>2, <2>3, <2>4, <2>5, <2>6 DEF FileIsSaved
<1>13. SaveIsAlone => SaveIsAlone'
  BY <1>10, <1>11 DEF SaveIsAlone
<1>14. EnteredOnly => EnteredOnly'
  BY <1>1 DEF EnteredOnly
<1> QED BY <1>1, <1>8, <1>9, <1>12, <1>13, <1>14

\* Who reads or saves no more leaves the file as it is: complete, if a save
\* came to its end.
LEMMA OverIInv ==
    ASSUME IInv, NEW s \in Shells, Over(s), UNCHANGED <<file, saved, mixed, entered>>,
           torn' \in BOOLEAN, ~torn' => ~torn /\ (phase[s] = "saving" => offset[s] >= Len(stream[s]))
    PROVE  IInv'
<1> USE DEF IInv
<1>1. /\ UNCHANGED <<file, saved, mixed, entered>> /\ Go(s, "gone")
      /\ commands' = [commands EXCEPT ![s] = <<>>]
      /\ stream' = [stream EXCEPT ![s] = <<>>] /\ offset' = [offset EXCEPT ![s] = 0]
  BY DEF Over
<1>2. TypeOK'
  <2>1. phase' \in [Shells -> {"none", "reading", "running", "saving", "gone", "failed"}]
    BY <1>1 DEF TypeOK, Go
  <2>2. /\ commands' \in [Shells -> Seq(Seq(Chars))] /\ stream' \in [Shells -> Seq(Chars \cup {Nul})]
        /\ offset' \in [Shells -> Nat]
    BY <1>1 DEF TypeOK
  <2>3. \A t \in Shells : offset'[t] <= Len(stream'[t])
    BY <1>1 DEF TypeOK
  <2> QED BY <1>1, <2>1, <2>2, <2>3 DEF TypeOK
<1>3. /\ stream'[s] = <<>> /\ offset'[s] = 0 /\ commands'[s] = <<>>
      /\ \A t \in Shells \ {s} :
             stream'[t] = stream[t] /\ offset'[t] = offset[t] /\ commands'[t] = commands[t]
  BY <1>1 DEF TypeOK
<1>4. /\ phase'[s] = "gone" /\ \A t \in Shells \ {s} : phase'[t] = phase[t]
      /\ Readers' = Readers \ {s} /\ Savers' = Savers \ {s}
  BY <1>1, PhaseFacts
<1>5. Idle'
  BY <1>3, <1>4 DEF Idle
<1>6. Whole' = Whole /\ \A n : UpTo(n)' = UpTo(n)
  BY <1>1 DEF Whole, UpTo
<1>7. FileIsSaved => FileIsSaved'
  <2>1. Savers \subseteq Shells /\ Readers \subseteq Shells
    BY DEF Savers, Readers
  <2> QED BY <1>1, <1>3, <1>4, <1>6, <2>1 DEF FileIsSaved
<1>8. ASSUME ~torn' PROVE SaveIsAlone'
  <2>1. ~torn /\ FileIsSaved /\ SaveIsAlone
    BY <1>8
  <2>2. CASE s \in Savers
    <3>1. Savers' = {}
      BY <1>4, <2>1, <2>2 DEF FileIsSaved
    <3>2. offset[s] \in Nat /\ Len(stream[s]) \in Nat /\ ~(offset[s] < Len(stream[s]))
      BY <1>8, <2>2 DEF TypeOK, Savers
    <3>3. Len(file) = Len(Whole)
      <4>1. /\ offset[s] = Len(file) /\ stream[s] = Whole
            /\ Len(file) <= Len(Whole) /\ Len(file) \in Nat /\ Len(Whole) \in Nat
        BY <2>1, <2>2, WholeFacts DEF FileIsSaved, TypeOK
      <4> QED BY <3>2, <4>1
    <3>4. file = Whole
      BY <2>1, <3>3, WholeFacts DEF FileIsSaved
    <3> QED BY <1>1, <1>6, <3>1, <3>4 DEF SaveIsAlone
  <2>3. CASE s \notin Savers
    BY <1>1, <1>4, <1>6, <2>1, <2>3 DEF SaveIsAlone
  <2> QED BY <2>2, <2>3
<1>9. EnteredOnly => EnteredOnly'
  <2>1. DOMAIN <<>> = {}
    OBVIOUS
  <2> QED BY <1>1, <1>3, <2>1 DEF EnteredOnly
<1> QED BY <1>1, <1>2, <1>5, <1>7, <1>8, <1>9

\* Every step keeps the invariant.
LEMMA NextIInv == IInv /\ [Next]_vars => IInv'
<1> SUFFICES ASSUME IInv, [Next]_vars PROVE IInv'
  OBVIOUS
<1>1. ASSUME NEW s \in Shells, Attach(s) PROVE IInv'
  BY <1>1, AttachIInv
<1>2. ASSUME NEW s \in Shells, ReadBlock(s) PROVE IInv'
  BY <1>2, ReadBlockIInv
<1>3. ASSUME NEW s \in Shells, Populate(s) PROVE IInv'
  BY <1>3, PopulateIInv
<1>4. ASSUME NEW s \in Shells, AttachWithout(s) PROVE IInv'
  BY <1>4, AttachWithoutIInv
<1>5. ASSUME NEW s \in Shells, NEW c \in Commands, Enter(s, c) PROVE IInv'
  BY <1>5, EnterIInv
<1>6. ASSUME NEW s \in Shells, BeginSave(s) PROVE IInv'
  BY <1>6, BeginSaveIInv
<1>7. ASSUME NEW s \in Shells, WriteBlock(s) PROVE IInv'
  BY <1>7, WriteBlockIInv
<1>8. ASSUME NEW s \in Shells, EndSave(s) PROVE IInv'
  <2>1. torn \in BOOLEAN
    BY DEF IInv, TypeOK
  <2>2. /\ Over(s) /\ UNCHANGED <<file, saved, mixed, entered>> /\ torn' = torn
        /\ offset[s] >= Len(stream[s])
    BY <1>8 DEF EndSave
  <2> QED BY <2>1, <2>2, OverIInv
<1>9. ASSUME NEW s \in Shells, SaveRefused(s) PROVE IInv'
  <2>1. torn \in BOOLEAN
    BY DEF IInv, TypeOK
  <2>2. /\ Over(s) /\ UNCHANGED <<file, saved, mixed, entered>> /\ torn' = torn
        /\ phase[s] # "saving"
    BY <1>9 DEF SaveRefused
  <2> QED BY <2>1, <2>2, OverIInv
<1>10. ASSUME NEW s \in Shells, Kill(s) PROVE IInv'
  <2>1. torn \in BOOLEAN
    BY DEF IInv, TypeOK
  <2>2. /\ Over(s) /\ UNCHANGED <<file, saved, mixed, entered>>
        /\ torn' = (torn \/ phase[s] = "saving")
    BY <1>10 DEF Kill
  <2>3. torn' \in BOOLEAN /\ (~torn' => ~torn /\ phase[s] # "saving")
    BY <2>1, <2>2
  <2> QED BY <2>2, <2>3, OverIInv
<1>11. CASE UNCHANGED vars
  <2>1. TypeOK'
    BY <1>11 DEF vars, IInv, TypeOK
  <2>2. Idle'
    BY <1>11 DEF vars, IInv, Idle
  <2>3. /\ Whole' = Whole /\ (\A n : UpTo(n)' = UpTo(n))
        /\ Readers' = Readers /\ Savers' = Savers
    BY <1>11 DEF vars, Whole, UpTo, Readers, Savers
  <2>4. (FileIsSaved => FileIsSaved') /\ (SaveIsAlone => SaveIsAlone')
    BY <1>11, <2>3 DEF vars, FileIsSaved, SaveIsAlone
  <2>5. EnteredOnly => EnteredOnly'
    BY <1>11 DEF vars, EnteredOnly
  <2>6. torn' = torn /\ mixed' = mixed
    BY <1>11 DEF vars
  <2> QED BY <2>1, <2>2, <2>4, <2>5, <2>6 DEF IInv
<1> QED BY <1>1, <1>2, <1>3, <1>4, <1>5, <1>6, <1>7, <1>8, <1>9, <1>10, <1>11 DEF Next

-----------------------------------------------------------------------------
(* The theorems *)

\* Every reachable state is in the invariant.
LEMMA AlwaysIInv == Spec => []IInv
<1>1. Init => IInv
  BY InitIInv
<1>2. IInv /\ [Next]_vars => IInv'
  BY NextIInv
<1> QED BY <1>1, <1>2, PTL DEF Spec

\* The types of the file, of the shells' phases and of what they read and write.
THEOREM TypeCorrect == Spec => []TypeOK
<1>1. IInv => TypeOK
  BY DEF IInv
<1> QED BY <1>1, AlwaysIInv, PTL

\* A history holds nothing but lines that were entered, as long as no save
\* began beside another's access to the file (ReadHistoryFile,
\* WriteHistoryFile).
THEOREM NobodyInventsCommands == Spec => []NothingInvented
<1>1. IInv => NothingInvented
  BY DEF IInv, EnteredOnly, NothingInvented, LinesIn
<1> QED BY <1>1, AlwaysIInv, PTL

\* Of a file that no kill and no other shell has spoiled, a shell that reaches
\* the end has read all that was saved.
LEMMA ReadsTheWhole ==
    ASSUME IInv, ~torn, NEW s \in Shells, phase[s] = "reading", offset[s] >= Len(file)
    PROVE  Readable(stream[s]) = Whole
<1>1. FileIsSaved /\ SaveIsAlone /\ TypeOK /\ s \in Readers
  BY DEF IInv, Readers
<1>2. file = Whole
  BY <1>1 DEF SaveIsAlone
<1>3. offset[s] = Len(Whole) /\ stream[s] = UpTo(offset[s])
  <2>1. offset[s] \in Nat /\ Len(file) \in Nat
    BY <1>1 DEF TypeOK
  <2> QED BY <1>1, <1>2, <2>1 DEF FileIsSaved
<1>4. stream[s] = Whole /\ Whole \in Seq(Chars)
  BY <1>1, <1>3, WholeFacts
<1>5. stream[s] \in Seq(Chars \cup {Nul})
  BY <1>1 DEF TypeOK
<1> QED BY <1>4, <1>5, ReadableFacts

\* A shell does not come up only if the last save was killed, or was not
\* alone (the CHECK of ReadHistoryFile).
THEOREM OnlyTornFilesFail == Spec => FailsOnlyTorn
<1> DEFINE A == \A s \in Shells : phase'[s] = "failed" /\ phase[s] # "failed" => torn
<1>1. IInv /\ [Next]_vars => [A]_vars
  <2> SUFFICES ASSUME IInv, Next, NEW s \in Shells, phase'[s] = "failed", phase[s] # "failed"
               PROVE  torn
    OBVIOUS
  <2>1. phase \in [Shells -> {"none", "reading", "running", "saving", "gone", "failed"}]
    BY DEF IInv, TypeOK
  <2>2. PICK t \in Shells :
            \/ Attach(t) \/ ReadBlock(t) \/ Populate(t) \/ AttachWithout(t)
            \/ \E c \in Commands : Enter(t, c)
            \/ BeginSave(t) \/ WriteBlock(t) \/ EndSave(t) \/ SaveRefused(t) \/ Kill(t)
    BY DEF Next
  <2>3. Populate(t) /\ phase' = [phase EXCEPT ![t] = "failed"]
    <3>1. \/ UNCHANGED phase
          \/ \E p \in {"reading", "running", "saving", "gone"} : phase' = [phase EXCEPT ![t] = p]
          \/ Populate(t) /\ phase' = [phase EXCEPT ![t] = "failed"]
      <4>1. CASE Populate(t)
        BY <4>1 DEF Populate, Go
      <4>2. CASE ~Populate(t)
        BY <2>2, <4>2 DEF Attach, ReadBlock, AttachWithout, Enter, BeginSave, WriteBlock, EndSave,
                          SaveRefused, Kill, Over, Go
      <4> QED BY <4>1, <4>2
    <3> QED BY <2>1, <3>1
  <2>4. t = s
    BY <2>1, <2>3
  <2>5. SUFFICES ASSUME ~torn PROVE FALSE
    OBVIOUS
  <2>6. Readable(stream[s]) = Whole
    BY <2>3, <2>4, <2>5, ReadsTheWhole DEF Populate
  <2>7. Intact(Readable(stream[s]))
    BY <2>6, WholeFacts DEF IInv
  <2>8. phase'[s] = "running"
    BY <2>1, <2>3, <2>4, <2>7 DEF Populate, Go
  <2> QED BY <2>8
<1>2. Spec => []IInv
  BY AlwaysIInv
<1> QED BY <1>1, <1>2, PTL DEF Spec, FailsOnlyTorn

\* The next shell has the last commands of the one that saved last, in their
\* order, whatever earlier saves came to (WriteHistoryFile, ReadHistoryFile).
THEOREM HistorySurvives == Spec => LoadsWhatWasSaved
<1> DEFINE Loads(s) ==
        /\ IsSuffix(commands'[s], saved)
        /\ Len(commands'[s]) = Min({Len(saved), MaxSaved})
           A == \A s \in Shells :
                    Populate(s) /\ ~torn /\ (\A i \in DOMAIN saved : Newline \notin ToSet(saved[i]))
                       => Loads(s)
<1>1. IInv /\ [Next]_vars => [A]_vars
  <2> SUFFICES ASSUME IInv, NEW s \in Shells, Populate(s), ~torn,
                      \A i \in DOMAIN saved : Newline \notin ToSet(saved[i])
               PROVE  Loads(s)
    OBVIOUS
  <2> DEFINE cs == Window(saved)
  <2>1. /\ cs \in Seq(Seq(Chars)) /\ Newline \in Chars /\ saved \in Seq(Seq(Chars))
        /\ Whole = Encoded(cs) /\ Intact(Whole)
    BY WholeFacts DEF IInv, TypeOK, Whole
  <2>2. /\ Len(cs) = Min({Len(saved), MaxSaved}) /\ IsSuffix(cs, saved)
        /\ \A i \in DOMAIN cs : \E j \in DOMAIN saved : cs[i] = saved[j]
    BY <2>1, WindowFacts
  <2> HIDE DEF cs
  <2>3. \A i \in DOMAIN cs : Newline \notin ToSet(cs[i])
    BY <2>2
  <2>4. LinesOf(Whole) = cs
    BY <2>1, <2>3, EncodedBack
  <2>5. Readable(stream[s]) = Whole
    BY ReadsTheWhole DEF Populate
  <2>6. commands' = [commands EXCEPT ![s] = LinesOf(Whole)]
    BY <2>1, <2>5 DEF Populate
  <2>7. commands'[s] = cs
    BY <2>4, <2>6 DEF IInv, TypeOK
  <2> QED BY <2>2, <2>7
<1>2. Spec => []IInv
  BY AlwaysIInv
<1> QED BY <1>1, <1>2, PTL DEF Spec, LoadsWhatWasSaved

=============================================================================
