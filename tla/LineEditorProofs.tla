-------------------------- MODULE LineEditorProofs --------------------------
(***************************************************************************)
(* What TLAPS proves about LineEditor for every alphabet, every clipboard, *)
(* history and completer, and lines of every length: the inductive         *)
(* invariant of the keys, and that what CompletionLine promises of the     *)
(* splitting and the quoting is so of every line.                          *)
(***************************************************************************)
EXTENDS LineEditor, FiniteSetTheorems, SequenceTheorems, WellFoundedInduction, TLAPS

-----------------------------------------------------------------------------

\* While the message is up, it is in the line and on the screen, and what it
\* hides is a line with the cursor in it.
PendingHolds ==
    Confirming => /\ savedPosition \in 0 .. Len(savedLine)
                  /\ line = Message
                  /\ shown.line = Message

\* Completing ends with any other key, so no prompt begins in the middle of it
\* and no message hides it.
CompletingHolds ==
    IsCompleting /\ phase # "ended" => phase = "editing" /\ ~Confirming

IInv ==
    /\ TypeOK
    /\ CursorInLine
    /\ CompletionStands
    /\ ScreenAgrees
    /\ PendingHolds
    /\ CompletingHolds

-----------------------------------------------------------------------------
(* Numbers *)

\* A set of naturals that is not empty has a least element.
LEMMA LeastNatural ==
    ASSUME NEW T, T \subseteq Nat, T # {}
    PROVE  \E x \in T : \A y \in T : x <= y
<1> DEFINE R == OpToRel(<, Nat)
<1>1. PICK x \in T : \A y \in T : ~(<<y, x>> \in R)
  <2>1. IsWellFoundedOn(R, Nat)
    BY NatLessThanWellFounded
  <2> HIDE DEF R
  <2> QED BY <2>1, WFMin
<1>2. \A y \in T : ~(y < x)
  BY <1>1 DEF OpToRel
<1>3. x \in Nat /\ \A y \in T : y \in Nat
  OBVIOUS
<1> HIDE DEF R
<1>4. \A y \in T : x <= y
  BY <1>2, <1>3
<1> QED BY <1>4

\* What holds at a, and after each place where it holds, holds up to n.
LEMMA Upwards ==
    ASSUME NEW a \in Nat, NEW n \in Nat, NEW T, a \in T,
           \A k \in a .. n - 1 : k \in T => k + 1 \in T
    PROVE  \A k \in a .. n : k \in T
<1> DEFINE Bad == {k \in a .. n : k \notin T}
<1> SUFFICES ASSUME Bad # {} PROVE FALSE
  OBVIOUS
<1>1. PICK m \in Bad : \A k \in Bad : m <= k
  <2>1. Bad \subseteq Nat
    OBVIOUS
  <2> HIDE DEF Bad
  <2> QED BY <2>1, LeastNatural
<1>2. m \in a .. n /\ m \notin T /\ m # a
  OBVIOUS
<1>3. m - 1 \in a .. n - 1 /\ ~(m <= m - 1) /\ (m - 1) + 1 = m
  BY <1>2
<1>4. m - 1 \in T
  BY <1>1, <1>3
<1> QED BY <1>2, <1>3, <1>4

\* And what holds at n, and before each place where it holds, down to a.
LEMMA Downwards ==
    ASSUME NEW a \in Nat, NEW n \in Nat, NEW T, n \in T,
           \A k \in a .. n - 1 : k + 1 \in T => k \in T
    PROVE  \A k \in a .. n : k \in T
<1> DEFINE U == {j \in 0 .. n - a : n - j \in T}
<1>1. ASSUME NEW k \in a .. n PROVE k \in T
  <2>1. 0 \in Nat /\ n - a \in Nat /\ 0 \in U
    BY <1>1
  <2>2. \A j \in 0 .. (n - a) - 1 : j \in U => j + 1 \in U
    <3> SUFFICES ASSUME NEW j \in 0 .. (n - a) - 1, j \in U PROVE j + 1 \in U
      OBVIOUS
    <3>1. n - j = (n - (j + 1)) + 1 /\ n - (j + 1) \in a .. n - 1 /\ j + 1 \in 0 .. n - a
      OBVIOUS
    <3>2. n - j \in T
      OBVIOUS
    <3>3. n - (j + 1) \in T
      BY <3>1, <3>2
    <3> QED BY <3>1, <3>3
  <2>3. \A j \in 0 .. n - a : j \in U
    <3> HIDE DEF U
    <3> QED BY <2>1, <2>2, Upwards
  <2>4. n - k \in 0 .. n - a /\ n - (n - k) = k
    BY <1>1
  <2>5. n - k \in U
    BY <2>3, <2>4
  <2>6. n - (n - k) \in T
    BY <2>5
  <2> QED BY <2>4, <2>6
<1> QED BY <1>1

\* From b on there is a first stop, or none up to n.
LEMMA FirstStop ==
    ASSUME NEW n \in Nat, NEW b \in Int, b <= n, b >= -1, NEW stops
    PROVE  \E e \in b .. n : /\ e = n \/ e \in stops
                            /\ \A i \in b .. e - 1 : i \notin stops
<1> DEFINE T == {k \in Nat : b + k <= n /\ (b + k = n \/ b + k \in stops)}
<1>1. n - b \in T
  OBVIOUS
<1>2. PICK k \in T : \A j \in T : k <= j
  <2>1. T \subseteq Nat /\ T # {}
    BY <1>1
  <2> HIDE DEF T
  <2> QED BY <2>1, LeastNatural
<1>3. k \in Nat /\ b + k \in b .. n /\ (b + k = n \/ b + k \in stops)
  OBVIOUS
<1>4. ASSUME NEW i \in b .. b + k - 1, i \in stops PROVE FALSE
  <2>1. i - b \in Nat /\ i - b < k /\ b + (i - b) = i /\ i <= n
    BY <1>3
  <2>2. i - b \in T
    BY <2>1, <1>4
  <2>3. k <= i - b
    <3> HIDE DEF T
    <3> QED BY <1>2, <2>2
  <2> QED BY <2>1, <2>3, <1>3
<1> QED BY <1>3, <1>4

-----------------------------------------------------------------------------
(* Splitting a line into words *)

\* The command's name ends within the line; nothing is left of it only if the line
\* begins with a blank.
LEMMA ExecutableEndFacts ==
    ASSUME NEW S, NEW l \in Seq(S)
    PROVE  /\ ExecutableEnd(l) \in 0 .. Len(l)
           /\ ExecutableEnd(l) = 0 /\ l # <<>> => IsBlankAt(l, 0)
<1> DEFINE n == Len(l)
<1>1. n \in Nat /\ (l # <<>> => n >= 1)
  OBVIOUS
<1>2. CASE l # <<>> /\ l[1] = Quote
  <2> DEFINE stops == {i \in Int : i > 1 /\ l[i] = Quote}
  <2>1. \E e \in 1 .. n : /\ e = n \/ e \in stops
                          /\ \A i \in 1 .. e - 1 : i \notin stops
    <3>1. n \in Nat /\ 1 \in Int /\ 1 <= n /\ 1 >= -1
      BY <1>1, <1>2
    <3> HIDE DEF stops, n
    <3> QED BY <3>1, FirstStop, Zenon
  <2>2. \E e \in 1 .. n : /\ e = n \/ (e > 1 /\ l[e] = Quote)
                          /\ \A i \in 1 .. e - 1 : ~(i > 1 /\ l[i] = Quote)
    BY <2>1
  <2>3. ExecutableEnd(l) \in 1 .. n
    BY <1>1, <1>2, <2>2 DEF ExecutableEnd, FirstFrom
  <2> QED BY <1>1, <2>3
<1>3. CASE ~(l # <<>> /\ l[1] = Quote)
  <2> DEFINE stops == {i \in Int : IsBlankAt(l, i)}
  <2>1. \E e \in 0 .. n : /\ e = n \/ e \in stops
                          /\ \A i \in 0 .. e - 1 : i \notin stops
    <3>1. n \in Nat /\ 0 \in Int /\ 0 <= n /\ 0 >= -1
      BY <1>1
    <3> HIDE DEF stops, n
    <3> QED BY <3>1, FirstStop, Zenon
  <2>2. \E e \in 0 .. n : /\ e = n \/ IsBlankAt(l, e)
                          /\ \A i \in 0 .. e - 1 : ~IsBlankAt(l, i)
    BY <2>1
  <2>3. /\ ExecutableEnd(l) \in 0 .. n
        /\ ExecutableEnd(l) = n \/ IsBlankAt(l, ExecutableEnd(l))
    BY <1>3, <2>2 DEF ExecutableEnd, FirstFrom
  <2> QED BY <1>1, <2>3
<1> QED BY <1>2, <1>3

\* Between the name and the arguments are blanks, and the arguments, if there are
\* any, begin with none.
LEMMA ArgumentsBeginFacts ==
    ASSUME NEW S, NEW l \in Seq(S)
    PROVE  /\ ArgumentsBegin(l) \in ExecutableEnd(l) .. Len(l)
           /\ ArgumentsBegin(l) < Len(l) => ~IsBlankAt(l, ArgumentsBegin(l))
           /\ \A i \in ExecutableEnd(l) .. ArgumentsBegin(l) - 1 : IsBlankAt(l, i)
<1> DEFINE n == Len(l)
           b == ExecutableEnd(l)
           stops == {i \in Int : ~IsBlankAt(l, i)}
<1>1. n \in Nat /\ b \in 0 .. n
  BY ExecutableEndFacts
<1>2. \E e \in b .. n : /\ e = n \/ e \in stops
                        /\ \A i \in b .. e - 1 : i \notin stops
  <2>1. n \in Nat /\ b \in Int /\ b <= n /\ b >= -1
    BY <1>1
  <2> HIDE DEF stops, n, b
  <2> QED BY <2>1, FirstStop, Zenon
<1>3. \E e \in b .. n : /\ e = n \/ ~IsBlankAt(l, e)
                        /\ \A i \in b .. e - 1 : ~ ~IsBlankAt(l, i)
  <2> HIDE DEF b
  <2> QED BY <1>1, <1>2
<1>4. /\ ArgumentsBegin(l) \in b .. n
      /\ ArgumentsBegin(l) = n \/ ~IsBlankAt(l, ArgumentsBegin(l))
      /\ \A i \in b .. ArgumentsBegin(l) - 1 : IsBlankAt(l, i)
  BY <1>3 DEF ArgumentsBegin, FirstFrom
<1> QED BY <1>1, <1>4

\* Where the breaks are, an argument begins at the first place and after every
\* break that no break follows, and ends at the next break.
LEMMA SeparatedFacts ==
    ASSUME NEW l, Len(l) \in Nat, NEW a \in 0 .. Len(l),
           NEW breaks \in SUBSET (a .. Len(l) - 1),
           NEW w \in Separated(l, a, breaks)
    PROVE  /\ w = Word(w.begin, w.end)
           /\ w.begin \in a .. Len(l) - 1 /\ w.end \in w.begin + 1 .. Len(l)
           /\ w.begin = a \/ w.begin - 1 \in breaks
           /\ w.end = Len(l) \/ w.end \in breaks
           /\ \A i \in w.begin .. w.end - 1 : i \notin breaks
<1> DEFINE n == Len(l)
           Until(b) == FirstFrom(l, b, LAMBDA i : i \in breaks)
<1>1. PICK b \in a .. n - 1 : /\ b \notin breaks /\ (b = a \/ b - 1 \in breaks)
                              /\ w = Word(b, Until(b))
  BY DEF Separated
<1>2. \E e \in b .. n : /\ e = n \/ e \in breaks
                        /\ \A i \in b .. e - 1 : i \notin breaks
  <2>1. n \in Nat /\ b \in Int /\ b <= n /\ b >= -1
    BY <1>1
  <2> HIDE DEF n, Until
  <2> QED BY ONLY <2>1, FirstStop, ZenonT(30)
<1>3. /\ Until(b) \in b .. n /\ (Until(b) = n \/ Until(b) \in breaks)
      /\ \A i \in b .. Until(b) - 1 : i \notin breaks
  BY <1>2 DEF FirstFrom
<1>4. w.begin = b /\ w.end = Until(b)
  BY <1>1 DEF Word
<1> HIDE DEF Until
<1>5. Until(b) # b
  BY <1>1, <1>3
<1> QED BY <1>1, <1>3, <1>4, <1>5

\* Outside the breaks, every place is in an argument.
LEMMA SeparatedCovers ==
    ASSUME NEW l, Len(l) \in Nat, NEW a \in 0 .. Len(l),
           NEW breaks \in SUBSET (a .. Len(l) - 1),
           NEW i \in a .. Len(l) - 1, i \notin breaks
    PROVE  \E w \in Separated(l, a, breaks) : w.begin <= i /\ i < w.end
<1> DEFINE T == {k \in Nat : i - k >= a /\ (i - k = a \/ (i - k) - 1 \in breaks)}
<1>1. PICK k \in T : \A j \in T : k <= j
  <2>1. i - a \in T
    OBVIOUS
  <2>2. T \subseteq Nat /\ T # {}
    BY <2>1
  <2> HIDE DEF T
  <2> QED BY <2>2, LeastNatural
<1> DEFINE b == i - k
<1>2. b \in a .. i /\ (b = a \/ b - 1 \in breaks)
  OBVIOUS
<1>3. \A j \in b .. i : j \notin breaks
  <2> SUFFICES ASSUME NEW j \in b .. i, j \in breaks PROVE FALSE
    OBVIOUS
  <2>1. j < i
    OBVIOUS
  <2>2. (i - j) - 1 \in T
    BY <2>1, <1>2
  <2>3. k <= (i - j) - 1
    <3> HIDE DEF T
    <3> QED BY <1>1, <2>2
  <2> QED BY <2>3
<1> HIDE DEF b
<1> DEFINE Until(c) == FirstFrom(l, c, LAMBDA j : j \in breaks)
           starts == {c \in a .. Len(l) - 1 :
                         c \notin breaks /\ (c = a \/ c - 1 \in breaks)}
           w == Word(b, Until(b))
<1>4. w \in Separated(l, a, breaks)
  <2>1. Separated(l, a, breaks) = {Word(c, Until(c)) : c \in starts}
    BY DEF Separated
  <2>2. b \in starts
    BY <1>2, <1>3
  <2> HIDE DEF starts, Until
  <2> QED BY <2>1, <2>2
<1> HIDE DEF w
<1>5. /\ w.end \in w.begin + 1 .. Len(l)
      /\ w.end = Len(l) \/ w.end \in breaks
  BY <1>4, SeparatedFacts
<1>6. w.begin = b
  BY DEF w, Word
<1> QED BY <1>2, <1>3, <1>4, <1>5, <1>6

\* Every word lies within the line.
IsPartOf(l, w) == w = Word(w.begin, w.end) /\ w.begin \in 0 .. Len(l) /\ w.end \in w.begin .. Len(l)

\* The words are in order, do not overlap, and leave out nothing but blanks.
Divides(l, ws) ==
    /\ \A w \in ws : IsPartOf(l, w)
    /\ \A u, v \in ws : /\ u.begin = v.begin => u = v
                        /\ u.begin < v.begin => u.end <= v.begin
    /\ \A i \in 0 .. Len(l) - 1 :
           IsBlankAt(l, i) \/ \E w \in ws : w.begin <= i /\ i < w.end

\* The words parsed divide the line, and of two only the first can touch the next.
LEMMA ParsedWordsFacts ==
    ASSUME NEW S, NEW l \in Seq(S)
    PROVE  /\ Divides(l, ParsedWords(l))
           /\ \E w \in ParsedWords(l) : w.begin = 0
           /\ \A u, v \in ParsedWords(l) :
                  u.begin < v.begin /\ u.end = v.begin => u.begin = 0
<1> DEFINE n == Len(l)
           x == ExecutableEnd(l)
           a == ArgumentsBegin(l)
           breaks == Breaks(l, a)
           args == Separated(l, a, breaks)
           name == Word(0, x)
           ws == ParsedWords(l)
<1>1. n \in Nat /\ x \in 0 .. n /\ a \in x .. n
  BY ExecutableEndFacts, ArgumentsBeginFacts
<1>2. /\ x = 0 /\ n > 0 => IsBlankAt(l, 0)
      /\ a < n => ~IsBlankAt(l, a)
      /\ \A i \in x .. a - 1 : IsBlankAt(l, i)
  BY ExecutableEndFacts, ArgumentsBeginFacts
<1>3. ws = {name} \cup args
  BY DEF ParsedWords, ArgumentsFrom
<1>4. breaks \in SUBSET (a .. n - 1) /\ \A i \in breaks : IsBlankAt(l, i)
  BY DEF Breaks
<1>5. name.begin = 0 /\ name.end = x /\ name = Word(name.begin, name.end)
  BY DEF Word
<1>6. ASSUME NEW w \in args
      PROVE  /\ w = Word(w.begin, w.end)
             /\ w.begin \in a .. n - 1 /\ w.end \in w.begin + 1 .. n
             /\ w.begin = a \/ w.begin - 1 \in breaks
             /\ w.end = n \/ w.end \in breaks
             /\ \A i \in w.begin .. w.end - 1 : i \notin breaks
  <2>1. Len(l) \in Nat /\ a \in 0 .. Len(l)
    BY <1>1
  <2> HIDE DEF a, breaks
  <2> QED BY <2>1, <1>4, SeparatedFacts
<1>7. ASSUME NEW i \in a .. n - 1, i \notin breaks
      PROVE  \E w \in args : w.begin <= i /\ i < w.end
  <2>1. Len(l) \in Nat /\ a \in 0 .. Len(l)
    BY <1>1
  <2> HIDE DEF a, breaks
  <2> QED BY <2>1, <1>4, <1>7, SeparatedCovers
<1> HIDE DEF n, x, a, breaks, args, name, ws
<1>8. \A w \in ws : IsPartOf(l, w)
  BY <1>1, <1>3, <1>5, <1>6 DEF IsPartOf, n
<1>9. ASSUME NEW u \in args, NEW v \in args
      PROVE  /\ u.begin = v.begin => u = v
             /\ u.begin < v.begin => u.end < v.begin
  <2>1. /\ u.begin \in a .. n - 1 /\ u.end \in u.begin + 1 .. n
        /\ u.end = n \/ u.end \in breaks
        /\ \A i \in u.begin .. u.end - 1 : i \notin breaks
        /\ u = Word(u.begin, u.end)
    BY <1>6
  <2>2. /\ v.begin \in a .. n - 1 /\ v.end \in v.begin + 1 .. n
        /\ v.begin = a \/ v.begin - 1 \in breaks
        /\ v.end = n \/ v.end \in breaks
        /\ \A i \in v.begin .. v.end - 1 : i \notin breaks
        /\ v = Word(v.begin, v.end)
    BY <1>6
  <2>3. ASSUME u.begin = v.begin PROVE u = v
    <3>1. ~(u.end < v.end) /\ ~(v.end < u.end)
      BY <2>1, <2>2, <2>3, <1>1
    <3>2. u.end = v.end
      BY <2>1, <2>2, <3>1, <1>1
    <3> QED BY <2>1, <2>2, <2>3, <3>2
  <2>4. ASSUME u.begin < v.begin PROVE u.end < v.begin
    <3> DEFINE p == u.begin
               q == u.end
               b == v.begin
    <3>1. p \in Int /\ q \in Int /\ b \in Int /\ a <= p /\ p < b
      BY <2>1, <2>2, <2>4, <1>1
    <3>2. /\ b = a \/ b - 1 \in breaks
          /\ \A i \in p .. q - 1 : i \notin breaks
      BY <2>1, <2>2
    <3>3. a \in Int
      BY <1>1
    <3> HIDE DEF p, q, b
    <3>4. b - 1 \in breaks /\ b - 1 \in Int /\ p <= b - 1
      BY <3>1, <3>2, <3>3
    <3>5. ~(b - 1 \in p .. q - 1)
      BY <3>2, <3>4
    <3>6. q < b
      BY <3>1, <3>4, <3>5
    <3> QED BY <3>6 DEF q, b
  <2> QED BY <2>3, <2>4
<1>10. ASSUME NEW v \in args PROVE v.begin > 0 /\ x <= v.begin
  <2>1. v.begin \in a .. n - 1
    BY <1>6
  <2>2. ~(a = 0)
    BY <1>1, <1>2, <2>1
  <2> QED BY <1>1, <2>1, <2>2
<1>11. ASSUME NEW u \in ws, NEW v \in ws
       PROVE  /\ u.begin = v.begin => u = v
              /\ u.begin < v.begin => u.end <= v.begin
              /\ u.begin < v.begin /\ u.end = v.begin => u.begin = 0
  <2>1. CASE u \in args /\ v \in args
    <3>1. u.begin \in Int /\ v.begin \in Int /\ u.end \in Int
      BY <1>8 DEF IsPartOf
    <3> QED BY <1>9, <2>1, <3>1
  <2>2. CASE u = name /\ v \in args
    BY <1>5, <1>10, <2>2
  <2>3. CASE v = name /\ u \in args
    <3>1. u.begin > 0 /\ u.begin \in Int
      BY <1>10, <1>8, <2>3 DEF IsPartOf
    <3> QED BY <3>1, <1>5, <2>3
  <2>4. CASE u = name /\ v = name
    BY <1>5, <2>4
  <2> QED BY <1>3, <2>1, <2>2, <2>3, <2>4
<1>12. ASSUME NEW i \in 0 .. n - 1, ~IsBlankAt(l, i)
       PROVE  \E w \in ws : w.begin <= i /\ i < w.end
  <2>1. CASE i < x
    BY <1>3, <1>5, <2>1
  <2>2. CASE i \in x .. a - 1
    BY <1>2, <1>12, <2>2
  <2>3. CASE i \in a .. n - 1
    <3>1. i \notin breaks
      BY <1>4, <1>12
    <3> QED BY <1>3, <1>7, <2>3, <3>1
  <2> QED BY <1>1, <2>1, <2>2, <2>3
<1>13. Divides(l, ws)
  BY <1>8, <1>11, <1>12 DEF Divides, n
<1>14. name \in ws
  BY <1>3
<1> QED BY <1>5, <1>11, <1>13, <1>14 DEF ws

\* So do the words when those that touch are joined.
LEMMA WordsFacts ==
    ASSUME NEW S, NEW l \in Seq(S)
    PROVE  /\ Divides(l, Words(l))
           /\ \E w \in Words(l) : w.begin = 0
<1> DEFINE ws == ParsedWords(l)
           Merged(w) == \E u \in ws : Attached(l, u, w)
           Whole(w) == IF \E v \in ws : Attached(l, w, v)
                       THEN Word(w.begin, (CHOOSE v \in ws : Attached(l, w, v)).end)
                       ELSE w
           whole == {Whole(w) : w \in {v \in ws : ~Merged(v)}}
<1>1. Words(l) = whole \cup TrailingWord(l, ws)
  BY DEF Words, Joined
<1>2. /\ Len(l) \in Nat /\ \A w \in ws : IsPartOf(l, w)
      /\ \A w \in ws : w.begin \in Nat /\ w.end \in Nat /\ w.begin <= w.end /\ w.end <= Len(l)
      /\ \A i \in 0 .. Len(l) - 1 :
             IsBlankAt(l, i) \/ \E w \in ws : w.begin <= i /\ i < w.end
  BY ParsedWordsFacts DEF Divides, IsPartOf
<1>3. \A u, v \in ws : /\ u.begin = v.begin => u = v
                       /\ u.begin < v.begin => u.end <= v.begin
                       /\ u.begin < v.begin /\ u.end = v.begin => u.begin = 0
  BY ParsedWordsFacts DEF Divides
<1> HIDE DEF ws
<1>4. ASSUME NEW u \in ws, NEW v \in ws, Attached(l, u, v)
      PROVE  u.begin < v.begin /\ u.end = v.begin /\ u.begin = 0 /\ ~Merged(u)
  <2>1. u.begin < v.begin /\ u.end = v.begin
    BY <1>4 DEF Attached
  <2>2. u.begin = 0
    BY <1>3, <2>1
  <2>3. ASSUME NEW t \in ws, Attached(l, t, u) PROVE FALSE
    BY <1>2, <2>2, <2>3 DEF Attached
  <2> QED BY <2>1, <2>2, <2>3
<1>5. ASSUME NEW u \in ws, NEW v \in ws, Attached(l, u, v)
      PROVE  Whole(u) = Word(u.begin, v.end)
  <2>1. PICK t \in ws : t = (CHOOSE v0 \in ws : Attached(l, u, v0)) /\ Attached(l, u, t)
    BY <1>5
  <2>2. t = v
    BY <1>3, <1>4, <1>5, <2>1
  <2> QED BY <1>5, <2>1, <2>2
<1>6. ASSUME NEW u \in ws, ~\E v \in ws : Attached(l, u, v)
      PROVE  Whole(u) = u
  BY <1>6
<1> HIDE DEF Whole
<1>7. ASSUME NEW w \in ws
      PROVE  /\ IsPartOf(l, Whole(w)) /\ Whole(w).begin = w.begin
             /\ Whole(w).end >= w.end
             /\ Whole(w).end = w.end \/ \E v \in ws : Attached(l, w, v) /\ Whole(w).end = v.end
  <2>1. CASE \E v \in ws : Attached(l, w, v)
    <3>1. PICK v \in ws : Attached(l, w, v)
      BY <2>1
    <3>2. Whole(w) = Word(w.begin, v.end) /\ w.end = v.begin
      BY <1>4, <1>5, <3>1
    <3>3. Whole(w).begin = w.begin /\ Whole(w).end = v.end
      BY <3>2 DEF Word
    <3> QED BY <1>2, <3>1, <3>2, <3>3 DEF IsPartOf
  <2>2. CASE ~\E v \in ws : Attached(l, w, v)
    BY <1>2, <1>6, <2>2
  <2> QED BY <2>1, <2>2
<1>8. ASSUME NEW u \in ws, NEW v \in ws, ~Merged(u), ~Merged(v)
      PROVE  /\ Whole(u).begin = Whole(v).begin => Whole(u) = Whole(v)
             /\ Whole(u).begin < Whole(v).begin => Whole(u).end <= Whole(v).begin
  <2>1. ASSUME u.begin < v.begin PROVE Whole(u).end <= v.begin
    <3>1. CASE Whole(u).end = u.end
      BY <1>3, <2>1, <3>1
    <3>2. ASSUME NEW t \in ws, Attached(l, u, t), Whole(u).end = t.end
          PROVE  Whole(u).end <= v.begin
      <4>1. u.end = t.begin /\ u.end <= v.begin
        BY <1>3, <1>4, <2>1, <3>2
      <4>2. t.begin # v.begin
        BY <1>3, <1>8, <3>2
      <4>3. t.begin < v.begin
        BY <4>1, <4>2, <1>2
      <4> QED BY <1>3, <4>3, <3>2
    <3> QED BY <1>7, <3>1, <3>2
  <2> QED BY <1>3, <1>7, <2>1
<1>9. ASSUME NEW w \in ws
      PROVE  \E v \in ws : ~Merged(v) /\ Whole(v).begin <= w.begin /\ w.end <= Whole(v).end
  <2>1. CASE ~Merged(w)
    BY <1>2, <1>7, <2>1
  <2>2. CASE Merged(w)
    <3>1. PICK u \in ws : Attached(l, u, w)
      BY <2>2
    <3>2. ~Merged(u) /\ u.begin < w.begin /\ Whole(u) = Word(u.begin, w.end)
      BY <1>4, <1>5, <3>1
    <3>3. Whole(u).begin = u.begin /\ Whole(u).end = w.end
      BY <3>2 DEF Word
    <3> QED BY <1>2, <3>2, <3>3
  <2> QED BY <2>1, <2>2
<1> HIDE DEF Merged
<1>10. ASSUME NEW t \in TrailingWord(l, ws)
       PROVE  /\ t = Word(Len(l), Len(l)) /\ t.begin = Len(l) /\ t.end = Len(l)
              /\ \A w \in ws : Whole(w).end < Len(l)
  <2>1. t = Word(Len(l), Len(l)) /\ \A w \in ws : w.end < Len(l)
    BY DEF TrailingWord
  <2> QED BY <2>1, <1>7 DEF Word
<1>11. ASSUME NEW w \in Words(l) PROVE IsPartOf(l, w)
  BY <1>1, <1>2, <1>7, <1>10 DEF IsPartOf
<1>12. ASSUME NEW u \in Words(l), NEW v \in Words(l)
       PROVE  /\ u.begin = v.begin => u = v
              /\ u.begin < v.begin => u.end <= v.begin
  <2>0. /\ u.begin \in Nat /\ u.end \in Nat /\ u.begin <= u.end
        /\ v.begin \in Nat /\ v.end \in Nat /\ v.begin <= v.end
        /\ u.end <= Len(l) /\ v.end <= Len(l)
    BY <1>2, <1>11 DEF IsPartOf
  <2>1. CASE u \in whole /\ v \in whole
    BY <1>8, <2>1
  <2>2. CASE u \in TrailingWord(l, ws) /\ v \in whole
    BY <1>10, <2>0, <2>2
  <2>3. CASE u \in whole /\ v \in TrailingWord(l, ws)
    BY <1>10, <2>0, <2>3
  <2>4. CASE u \in TrailingWord(l, ws) /\ v \in TrailingWord(l, ws)
    BY <1>10, <2>0, <2>4
  <2> QED BY <1>1, <2>1, <2>2, <2>3, <2>4
<1>13. ASSUME NEW i \in 0 .. Len(l) - 1, ~IsBlankAt(l, i)
       PROVE  \E w \in Words(l) : w.begin <= i /\ i < w.end
  <2>1. PICK w \in ws : w.begin <= i /\ i < w.end
    BY <1>2, <1>13
  <2>2. PICK v \in ws : ~Merged(v) /\ Whole(v).begin <= w.begin /\ w.end <= Whole(v).end
    BY <1>9
  <2>3. Whole(v) \in Words(l)
    BY <1>1, <2>2
  <2>4. Whole(v).begin \in Nat /\ Whole(v).end \in Nat
    BY <1>2, <1>7 DEF IsPartOf
  <2> QED BY <1>2, <2>1, <2>2, <2>3, <2>4
<1>14. \E w \in Words(l) : w.begin = 0
  <2>1. PICK w \in ws : w.begin = 0
    BY ParsedWordsFacts DEF ws
  <2>2. ~Merged(w)
    <3> SUFFICES ASSUME NEW u \in ws, Attached(l, u, w) PROVE FALSE
      BY DEF Merged
    <3> QED BY <1>2, <1>4, <2>1
  <2>3. Whole(w) \in Words(l) /\ Whole(w).begin = 0
    BY <1>1, <1>7, <2>1, <2>2
  <2> QED BY <2>3
<1>15. Divides(l, Words(l))
  BY <1>11, <1>12, <1>13 DEF Divides
<1> QED BY <1>14, <1>15

\* The word to complete is the last that begins at or before the cursor.
LEMMA WordAtFacts ==
    ASSUME NEW S, NEW l \in Seq(S), NEW p \in 0 .. Len(l)
    PROVE  /\ IsPartOf(l, WordAt(l, p)) /\ WordAt(l, p) \in Words(l)
           /\ WordAt(l, p).begin <= p
           /\ \A v \in Words(l) : v.begin <= p => v.begin <= WordAt(l, p).begin
<1> DEFINE before == {w \in Words(l) : w.begin <= p}
           T == {p - w.begin : w \in before}
<1>1. Len(l) \in Nat /\ p \in Nat /\ \A w \in before : w.begin \in Nat /\ w.begin <= p
  BY WordsFacts DEF Divides, IsPartOf
<1>2. T \subseteq Nat /\ T # {}
  <2>1. PICK w \in Words(l) : w.begin = 0
    BY WordsFacts
  <2>2. w \in before
    BY <1>1, <2>1
  <2>3. \A v \in before : p - v.begin \in Nat
    BY <1>1
  <2> HIDE DEF before
  <2> QED BY <2>2, <2>3
<1>3. PICK t \in T : \A u \in T : t <= u
  <2> HIDE DEF T
  <2> QED BY <1>2, LeastNatural
<1>4. PICK w \in before : t = p - w.begin
  BY <1>3
<1>5. \A v \in before : v.begin <= w.begin
  <2> SUFFICES ASSUME NEW v \in before PROVE v.begin <= w.begin
    OBVIOUS
  <2>1. t <= p - v.begin
    <3> HIDE DEF before
    <3> QED BY <1>3
  <2>2. w.begin \in Nat /\ v.begin \in Nat
    BY <1>1
  <2> HIDE DEF before, T
  <2> QED BY <1>1, <1>4, <2>1, <2>2
<1>6. \E x \in Words(l) : x.begin <= p /\ \A v \in Words(l) : v.begin <= p => v.begin <= x.begin
  BY <1>4, <1>5
<1>7. /\ WordAt(l, p) \in Words(l) /\ WordAt(l, p).begin <= p
      /\ \A v \in Words(l) : v.begin <= p => v.begin <= WordAt(l, p).begin
  BY <1>6 DEF WordAt, LastBefore
<1> QED BY <1>7, WordsFacts DEF Divides

\* Completing takes no character from another word, and begins with the word the
\* cursor is in or behind.
LEMMA EveryCursorWord ==
    ASSUME NEW S, line \in Seq(S)
    PROVE  CursorWord
<1>1. /\ Divides(line, Words(line)) /\ Len(line) \in Nat
      /\ \A w \in Words(line) : /\ w.begin \in Nat /\ w.end \in Nat
                               /\ w.begin <= w.end /\ w.end <= Len(line)
  BY WordsFacts DEF Divides, IsPartOf
<1>2. ASSUME NEW u \in Words(line), NEW v \in Words(line), NEW i \in Int,
             u.begin <= i, i < u.end, v.begin <= i, i < v.end
      PROVE  u = v
  <2>1. ~(u.begin < v.begin) /\ ~(v.begin < u.begin)
    BY <1>1, <1>2 DEF Divides
  <2>2. u.begin = v.begin
    BY <1>1, <2>1
  <2> QED BY <1>1, <2>2 DEF Divides
<1>3. ASSUME NEW i \in 0 .. Len(line) - 1
      PROVE  \A holders \in {{w \in Words(line) : w.begin <= i /\ i < w.end}} :
                 Cardinality(holders) = 1 \/ (holders = {} /\ IsBlankAt(line, i))
  <2> DEFINE holders == {w \in Words(line) : w.begin <= i /\ i < w.end}
  <2>1. CASE holders = {}
    BY <1>1, <2>1 DEF Divides
  <2>2. CASE holders # {}
    <3>1. PICK w \in Words(line) : w \in holders
      BY <2>2
    <3>2. holders = {w}
      BY <1>2, <3>1
    <3>3. Cardinality(holders) = 1
      BY <3>2, FS_Singleton
    <3> QED BY <3>3
  <2> QED BY <2>1, <2>2
<1>4. ASSUME NEW p \in 0 .. Len(line)
      PROVE  \A w \in {WordAt(line, p)} :
                 /\ w.begin <= p
                 /\ p > w.end => \A i \in w.end .. p - 1 : IsBlankAt(line, i)
  <2> DEFINE w == WordAt(line, p)
  <2>1. /\ w \in Words(line) /\ w.begin <= p
        /\ \A v \in Words(line) : v.begin <= p => v.begin <= w.begin
    BY WordAtFacts
  <2> HIDE DEF w
  <2>2. ASSUME NEW i \in w.end .. p - 1, ~IsBlankAt(line, i) PROVE FALSE
    <3>1. w.begin \in Nat /\ w.end \in Nat /\ w.begin <= w.end /\ i \in 0 .. Len(line) - 1
      BY <1>1, <2>1
    <3>2. PICK v \in Words(line) : v.begin <= i /\ i < v.end
      BY <1>1, <2>2, <3>1 DEF Divides
    <3>3. v.begin \in Nat /\ v.end \in Nat /\ v.begin <= w.begin
      BY <1>1, <2>1, <3>1, <3>2
    <3>4. CASE v.begin = w.begin
      BY <1>1, <2>1, <3>1, <3>2, <3>4 DEF Divides
    <3>5. CASE v.begin < w.begin
      BY <1>1, <2>1, <3>1, <3>2, <3>5 DEF Divides
    <3> QED BY <3>3, <3>1, <3>4, <3>5
  <2> QED BY <2>1, <2>2 DEF w
<1> QED BY <1>3, <1>4 DEF CursorWord, Positions

-----------------------------------------------------------------------------
(* The scanners *)

\* The states that the scanners begin with.
ScanBegin == [quotes |-> 0, backslashes |-> 0, inRun |-> FALSE]
ArgvBegin == [args |-> <<>>, open |-> FALSE, out |-> <<>>,
              quotes |-> 0, backslashes |-> 0, inRun |-> FALSE]

\* Completion's scanner takes one step per character.
LEMMA ScanFacts ==
    ASSUME NEW l, Len(l) \in Nat, NEW a \in 0 .. Len(l)
    PROVE  /\ Scan(l, a)[a] = ScanBegin
           /\ \A i \in a + 1 .. Len(l) : Scan(l, a)[i] = Scanned(Scan(l, a)[i - 1], l[i])
<1> DEFINE n == Len(l)
           Step(f, i) == IF i = a THEN ScanBegin ELSE Scanned(f[i - 1], l[i])
           Runs(m, f) == f = [i \in a .. m |-> Step(f, i)]
           T == {m \in a .. n : \E f : Runs(m, f)}
           scan == CHOOSE f : Runs(n, f)
<1>1. a \in T
  <2>1. Runs(a, [i \in a .. a |-> ScanBegin])
    OBVIOUS
  <2> HIDE DEF Runs
  <2> QED BY <2>1
<1>2. ASSUME NEW m \in a .. n - 1, m \in T PROVE m + 1 \in T
  <2>1. PICK f : Runs(m, f)
    BY <1>2
  <2> DEFINE g == [i \in a .. m + 1 |-> Step(f, i)]
  <2>2. ASSUME NEW i \in a .. m + 1 PROVE Step(f, i) = Step(g, i)
    <3>1. CASE i = a
      BY <3>1
    <3>2. CASE i # a
      <4>1. i - 1 \in a .. m /\ i - 1 \in a .. m + 1
        BY <3>2
      <4>2. f[i - 1] = Step(f, i - 1)
        BY <2>1, <4>1
      <4>3. g[i - 1] = Step(f, i - 1)
        BY <4>1
      <4> HIDE DEF g
      <4> QED BY <3>2, <4>2, <4>3
    <3> QED BY <3>1, <3>2
  <2>3. Runs(m + 1, g)
    BY <2>2
  <2>4. m + 1 \in a .. n
    OBVIOUS
  <2> HIDE DEF Runs, g
  <2> QED BY <2>3, <2>4
<1>3. n \in T
  <2>1. a \in Nat /\ n \in Nat /\ n \in a .. n
    OBVIOUS
  <2> HIDE DEF T, n
  <2> QED BY <1>1, <1>2, <2>1, Upwards
<1>4. Runs(n, scan)
  <2> HIDE DEF Runs, n
  <2> QED BY <1>3
<1>5. Scan(l, a) = scan
  BY DEF Scan, ScanBegin
<1> HIDE DEF scan
<1>6. \A i \in a .. n : scan[i] = Step(scan, i)
  BY <1>4
<1> QED BY <1>5, <1>6

\* So does CommandLineToArgvW.
ArgvAt(l) ==
    CHOOSE at : at = [i \in ExecutableEnd(l) .. Len(l) |->
                         IF i = ExecutableEnd(l) THEN ArgvBegin ELSE ArgvStep(at[i - 1], l[i])]

\* What is read of a line is what its characters, one step each, lead to.
LEMMA ArgvFacts ==
    ASSUME NEW S, NEW l \in Seq(S)
    PROVE  /\ ArgvAt(l)[ExecutableEnd(l)] = ArgvBegin
           /\ \A i \in ExecutableEnd(l) + 1 .. Len(l) :
                  ArgvAt(l)[i] = ArgvStep(ArgvAt(l)[i - 1], l[i])
           /\ CommandLineToArgvW(l) =
                  LET st == ArgvAt(l)[Len(l)]
                  IN  IF st.open THEN Append(st.args, st.out) ELSE st.args
<1> DEFINE n == Len(l)
           x == ExecutableEnd(l)
           Step(f, i) == IF i = x THEN ArgvBegin ELSE ArgvStep(f[i - 1], l[i])
           Runs(m, f) == f = [i \in x .. m |-> Step(f, i)]
           T == {m \in x .. n : \E f : Runs(m, f)}
           at == CHOOSE f : Runs(n, f)
<1>0. n \in Nat /\ x \in 0 .. n
  BY ExecutableEndFacts
<1>5. ArgvAt(l) = at
  BY DEF ArgvAt
<1>6. CommandLineToArgvW(l) =
         IF at[n].open THEN Append(at[n].args, at[n].out) ELSE at[n].args
  BY DEF CommandLineToArgvW, ArgvBegin
<1> HIDE DEF x, n
<1>1. x \in T
  <2>1. Runs(x, [i \in x .. x |-> ArgvBegin])
    BY <1>0
  <2> HIDE DEF Runs
  <2> QED BY <2>1, <1>0
<1>2. ASSUME NEW m \in x .. n - 1, m \in T PROVE m + 1 \in T
  <2>1. PICK f : Runs(m, f)
    BY <1>2
  <2> DEFINE g == [i \in x .. m + 1 |-> Step(f, i)]
  <2>2. ASSUME NEW i \in x .. m + 1 PROVE Step(f, i) = Step(g, i)
    <3>1. CASE i = x
      BY <3>1
    <3>2. CASE i # x
      <4>1. i - 1 \in x .. m /\ i - 1 \in x .. m + 1
        BY <1>0, <3>2
      <4>2. f[i - 1] = Step(f, i - 1)
        BY <2>1, <4>1
      <4>3. g[i - 1] = Step(f, i - 1)
        BY <4>1
      <4> HIDE DEF g
      <4> QED BY <3>2, <4>2, <4>3
    <3> QED BY <3>1, <3>2
  <2>3. Runs(m + 1, g)
    BY <2>2
  <2>4. m + 1 \in x .. n
    BY <1>0
  <2> HIDE DEF Runs, g
  <2> QED BY <2>3, <2>4
<1>3. n \in T
  <2>1. x \in Nat /\ n \in Nat /\ n \in x .. n
    BY <1>0
  <2> HIDE DEF T
  <2> QED BY <1>1, <1>2, <2>1, Upwards
<1>4. Runs(n, at)
  <2> HIDE DEF Runs
  <2> QED BY <1>3
<1> HIDE DEF at
<1>7. \A i \in x .. n : at[i] = Step(at, i)
  BY <1>4
<1>8. at[x] = ArgvBegin /\ \A i \in x + 1 .. n : at[i] = ArgvStep(at[i - 1], l[i])
  BY <1>0, <1>7
<1> QED BY <1>5, <1>6, <1>8 DEF x, n

ArgvStates(S) ==
    [args : Seq(Seq(S)), open : BOOLEAN, out : Seq(S),
     quotes : 0 .. 2, backslashes : Nat, inRun : BOOLEAN]

\* What is dropped is dropped at the end.
LEMMA DroppedFacts ==
    ASSUME NEW S, NEW out \in Seq(S), NEW k \in Nat
    PROVE  /\ Dropped(out, k) \in Seq(S)
           /\ k <= Len(out) => /\ Len(Dropped(out, k)) = Len(out) - k
                               /\ \A j \in 1 .. Len(out) - k : Dropped(out, k)[j] = out[j]
<1> DEFINE m == Len(out) - k
<1>1. Len(out) \in Nat /\ m \in Int /\ m <= Len(out) /\ \A j \in 1 .. m : out[j] \in S
  OBVIOUS
<1>2. Dropped(out, k) = SubSeq(out, 1, m)
  BY DEF Dropped
<1> HIDE DEF m
<1>3. /\ SubSeq(out, 1, m) \in Seq(S)
      /\ Len(SubSeq(out, 1, m)) = IF 1 <= m THEN (m - 1) + 1 ELSE 0
      /\ \A j \in 1 .. m : SubSeq(out, 1, m)[j] = out[j]
  <2>1. \A j \in 1 .. m : out[j] \in S
    BY <1>1
  <2> QED BY <1>1
<1> QED BY <1>1, <1>2, <1>3 DEF m

\* A step of CommandLineToArgvW, character by character.
LEMMA ArgvQuoteFacts ==
    ASSUME NEW S, Quote \in S, NEW st \in ArgvStates(S)
    PROVE  LET next == ArgvStep(st, Quote)
               half == st.backslashes \div 2
           IN  /\ next \in ArgvStates(S)
               /\ next.args = st.args /\ next.open = TRUE
               /\ next.backslashes = 0 /\ next.inRun = TRUE
               /\ st.inRun => /\ next.quotes = (st.quotes + 1) % 3
                              /\ st.quotes # 2 => next.out = st.out
               /\ ~st.inRun /\ st.backslashes % 2 = 0 =>
                      /\ next.quotes = Settled(st.quotes) + 1
                      /\ next.out = Dropped(st.out, half)
               /\ ~st.inRun /\ st.backslashes % 2 # 0 =>
                      /\ next.quotes = Settled(st.quotes)
                      /\ next.out = Append(Dropped(st.out, half + 1), Quote)
<1> DEFINE next == ArgvStep(st, Quote)
           half == st.backslashes \div 2
           even == st.backslashes % 2 = 0
           quotes == CASE st.inRun -> (st.quotes + 1) % 3
                       [] ~st.inRun /\ st.backslashes % 2 = 0 -> Settled(st.quotes) + 1
                       [] OTHER -> Settled(st.quotes)
           out == CASE st.inRun /\ st.quotes = 2 -> Append(st.out, Quote)
                    [] st.inRun /\ st.quotes # 2 -> st.out
                    [] ~st.inRun /\ st.backslashes % 2 = 0 -> Dropped(st.out, half)
                    [] OTHER -> Append(Dropped(st.out, half + 1), Quote)
<1>1. /\ st.args \in Seq(Seq(S)) /\ st.open \in BOOLEAN /\ st.out \in Seq(S)
      /\ st.quotes \in 0 .. 2 /\ st.backslashes \in Nat /\ st.inRun \in BOOLEAN
  BY DEF ArgvStates
<1>2. half \in Nat
  BY <1>1
<1>3. next = [[st EXCEPT !.backslashes = 0, !.inRun = TRUE, !.quotes = quotes, !.out = out]
                 EXCEPT !.open = TRUE]
  BY CharsAssumption DEF ArgvStep, ArgvQuote
<1>4. next = [args |-> st.args, open |-> TRUE, out |-> out, quotes |-> quotes,
              backslashes |-> 0, inRun |-> TRUE]
  <2> HIDE DEF next, out, quotes
  <2> QED BY <1>3 DEF ArgvStates
<1>5. /\ Dropped(st.out, half) \in Seq(S) /\ Dropped(st.out, half + 1) \in Seq(S)
  <2>1. half + 1 \in Nat
    BY <1>2
  <2> HIDE DEF half
  <2> QED BY <1>1, <1>2, <2>1, DroppedFacts
<1>6. /\ Append(st.out, Quote) \in Seq(S)
      /\ Append(Dropped(st.out, half + 1), Quote) \in Seq(S)
  <2> HIDE DEF half
  <2> QED BY <1>1, <1>5
<1>7. /\ next.args = st.args /\ next.open = TRUE /\ next.backslashes = 0
      /\ next.inRun = TRUE /\ next.out = out /\ next.quotes = quotes
      /\ out \in Seq(S) /\ quotes \in 0 .. 2 => next \in ArgvStates(S)
  <2> HIDE DEF next, out, quotes
  <2> QED BY <1>1, <1>4 DEF ArgvStates
<1>8. ASSUME st.inRun
      PROVE  /\ out \in Seq(S) /\ quotes \in 0 .. 2
             /\ quotes = (st.quotes + 1) % 3 /\ (st.quotes # 2 => out = st.out)
  <2>1. quotes = (st.quotes + 1) % 3 /\ (st.quotes + 1) % 3 \in 0 .. 2
    BY <1>1, <1>8
  <2>2. CASE st.quotes = 2
    BY <1>6, <1>8, <2>1, <2>2
  <2>3. CASE st.quotes # 2
    BY <1>1, <1>8, <2>1, <2>3
  <2> QED BY <2>2, <2>3
<1>9. ASSUME ~st.inRun, even
      PROVE  /\ out \in Seq(S) /\ quotes \in 0 .. 2
             /\ quotes = Settled(st.quotes) + 1 /\ out = Dropped(st.out, half)
  <2>1. quotes = Settled(st.quotes) + 1 /\ out = Dropped(st.out, half)
    BY <1>9
  <2>2. Settled(st.quotes) + 1 \in 0 .. 2
    BY <1>1 DEF Settled
  <2> QED BY <1>5, <2>1, <2>2
<1>10. ASSUME ~st.inRun, ~even
       PROVE  /\ out \in Seq(S) /\ quotes \in 0 .. 2
              /\ quotes = Settled(st.quotes)
              /\ out = Append(Dropped(st.out, half + 1), Quote)
  <2>1. quotes = Settled(st.quotes) /\ out = Append(Dropped(st.out, half + 1), Quote)
    BY <1>10
  <2>2. Settled(st.quotes) \in 0 .. 2
    BY <1>1 DEF Settled
  <2> QED BY <1>6, <2>1, <2>2
<1>11. next \in ArgvStates(S)
  <2> HIDE DEF next, out, quotes, half
  <2> QED BY <1>1, <1>7, <1>8, <1>9, <1>10
<1> HIDE DEF out, quotes
<1> QED BY <1>7, <1>8, <1>9, <1>10, <1>11

\* A blank outside quotes ends the argument that is open.
LEMMA ArgvBlankFacts ==
    ASSUME NEW S, NEW st \in ArgvStates(S), st.quotes # 1
    PROVE  ArgvStep(st, Blank) =
               [args |-> IF st.open THEN Append(st.args, st.out) ELSE st.args,
                open |-> FALSE, out |-> <<>>, quotes |-> 0, backslashes |-> 0, inRun |-> FALSE]
<1>1. Settled(st.quotes) = 0 /\ Blank # Quote
  BY CharsAssumption DEF ArgvStates, Settled
<1> QED BY <1>1 DEF ArgvStep

\* Any character that is no quote, and no blank outside quotes, is read as itself.
LEMMA ArgvOtherFacts ==
    ASSUME NEW S, NEW st \in ArgvStates(S), NEW c \in S, c # Quote,
           c # Blank \/ st.quotes = 1
    PROVE  ArgvStep(st, c) =
               [args |-> st.args, open |-> TRUE, out |-> Append(st.out, c),
                quotes |-> Settled(st.quotes),
                backslashes |-> IF c = Backslash THEN st.backslashes + 1 ELSE 0,
                inRun |-> FALSE]
<1>1. ~(c = Blank /\ Settled(st.quotes) = 0)
  BY DEF ArgvStates, Settled
<1> QED BY <1>1 DEF ArgvStep

\* Its states, without the arguments found so far, are those of completion's scanner.
Scanning(st) == [quotes |-> st.quotes, backslashes |-> st.backslashes, inRun |-> st.inRun]

\* Windows keeps track of quotes and backslashes as the reimplementation does.
LEMMA ArgvStepFacts ==
    ASSUME NEW S, Quote \in S, NEW st \in ArgvStates(S), NEW c \in S
    PROVE  /\ ArgvStep(st, c) \in ArgvStates(S)
           /\ Scanning(ArgvStep(st, c)) = Scanned(Scanning(st), c)
<1>1. /\ st.args \in Seq(Seq(S)) /\ st.open \in BOOLEAN /\ st.out \in Seq(S)
      /\ st.quotes \in 0 .. 2 /\ st.backslashes \in Nat /\ st.inRun \in BOOLEAN
  BY DEF ArgvStates
<1>2. CASE c = Quote
  <2> DEFINE next == ArgvStep(st, Quote)
  <2>1. /\ next \in ArgvStates(S) /\ next.backslashes = 0 /\ next.inRun = TRUE
        /\ st.inRun => next.quotes = (st.quotes + 1) % 3
        /\ ~st.inRun /\ st.backslashes % 2 = 0 => next.quotes = Settled(st.quotes) + 1
        /\ ~st.inRun /\ st.backslashes % 2 # 0 => next.quotes = Settled(st.quotes)
    BY ArgvQuoteFacts
  <2> HIDE DEF next
  <2>2. Settled(st.quotes) \in 0 .. 1
    BY <1>1 DEF Settled
  <2>3. next.quotes = IF st.inRun
                      THEN (st.quotes + 1) % 3
                      ELSE (Settled(st.quotes) + (IF st.backslashes % 2 = 0 THEN 1 ELSE 0)) % 3
    <3>1. CASE st.inRun
      BY <2>1, <3>1
    <3>2. CASE ~st.inRun /\ st.backslashes % 2 = 0
      BY <2>1, <2>2, <3>2
    <3>3. CASE ~st.inRun /\ st.backslashes % 2 # 0
      BY <2>1, <2>2, <3>3
    <3> QED BY <3>1, <3>2, <3>3
  <2>4. Scanning(next) = Scanned(Scanning(st), Quote)
    BY <2>1, <2>3 DEF Scanning, Scanned
  <2> QED BY <1>2, <2>1, <2>4 DEF next
<1>3. CASE c = Blank /\ st.quotes # 1
  <2>1. ArgvStep(st, c) =
            [args |-> IF st.open THEN Append(st.args, st.out) ELSE st.args,
             open |-> FALSE, out |-> <<>>, quotes |-> 0, backslashes |-> 0, inRun |-> FALSE]
    BY <1>3, ArgvBlankFacts
  <2>2. /\ Append(st.args, st.out) \in Seq(Seq(S)) /\ <<>> \in Seq(S)
    BY <1>1
  <2>3. ArgvStep(st, c) \in ArgvStates(S)
    BY <1>1, <2>1, <2>2 DEF ArgvStates
  <2>4. Settled(st.quotes) = 0 /\ c # Quote /\ c # Backslash
    BY <1>1, <1>3, CharsAssumption DEF Settled
  <2>5. Scanned(Scanning(st), c) = ScanBegin
    BY <2>4 DEF Scanning, Scanned, ScanBegin
  <2>6. Scanning(ArgvStep(st, c)) = ScanBegin
    BY <2>1 DEF Scanning, ScanBegin
  <2> QED BY <2>3, <2>5, <2>6
<1>4. CASE c # Quote /\ ~(c = Blank /\ st.quotes # 1)
  <2>1. ArgvStep(st, c) =
               [args |-> st.args, open |-> TRUE, out |-> Append(st.out, c),
                quotes |-> Settled(st.quotes),
                backslashes |-> IF c = Backslash THEN st.backslashes + 1 ELSE 0,
                inRun |-> FALSE]
    BY <1>4, ArgvOtherFacts
  <2>2. Append(st.out, c) \in Seq(S) /\ Settled(st.quotes) \in 0 .. 2
    BY <1>1 DEF Settled
  <2>3. ArgvStep(st, c) \in ArgvStates(S)
    BY <1>1, <2>1, <2>2 DEF ArgvStates
  <2> QED BY <1>4, <2>1, <2>3 DEF Scanning, Scanned
<1> QED BY <1>2, <1>3, <1>4

\* So the two agree all along the arguments, which begin with the beginning state.
LEMMA ScannersAgree ==
    ASSUME NEW S, NEW l \in Seq(S), {Blank, Quote, Backslash} \subseteq S
    PROVE  LET a == ArgumentsBegin(l)
               at == ArgvAt(l)
           IN  /\ at[a] = ArgvBegin
               /\ \A i \in a .. Len(l) :
                      at[i] \in ArgvStates(S) /\ Scan(l, a)[i] = Scanning(at[i])
               /\ \A i \in a + 1 .. Len(l) : at[i] = ArgvStep(at[i - 1], l[i])
<1> DEFINE n == Len(l)
           x == ExecutableEnd(l)
           a == ArgumentsBegin(l)
           at == ArgvAt(l)
           scan == Scan(l, a)
<1>1. /\ n \in Nat /\ x \in 0 .. n /\ a \in x .. n
      /\ \A i \in x .. a - 1 : l[i + 1] = Blank
      /\ \A i \in 1 .. n : l[i] \in S
  BY ExecutableEndFacts, ArgumentsBeginFacts DEF IsBlankAt
<1>2. /\ at[x] = ArgvBegin
      /\ \A i \in x + 1 .. n : at[i] = ArgvStep(at[i - 1], l[i])
  BY ArgvFacts
<1>3. /\ scan[a] = ScanBegin
      /\ \A i \in a + 1 .. n : scan[i] = Scanned(scan[i - 1], l[i])
  <2> HIDE DEF a, x
  <2> QED BY <1>1, ScanFacts DEF n
<1> HIDE DEF n, x, a, at, scan
<1>4. ArgvBegin \in ArgvStates(S) /\ ArgvStep(ArgvBegin, Blank) = ArgvBegin
  <2>1. ArgvBegin \in ArgvStates(S) /\ ArgvBegin.quotes # 1 /\ ArgvBegin.open = FALSE
    BY DEF ArgvBegin, ArgvStates
  <2>2. ArgvStep(ArgvBegin, Blank) =
            [args |-> ArgvBegin.args, open |-> FALSE, out |-> <<>>,
             quotes |-> 0, backslashes |-> 0, inRun |-> FALSE]
    BY <2>1, ArgvBlankFacts
  <2> QED BY <2>1, <2>2 DEF ArgvBegin
<1>5. at[a] = ArgvBegin
  <2> DEFINE T == {i \in x .. a : at[i] = ArgvBegin}
  <2>1. x \in T /\ x \in Nat /\ a \in Nat /\ a \in x .. a
    BY <1>1, <1>2
  <2>2. ASSUME NEW k \in x .. a - 1, k \in T PROVE k + 1 \in T
    <3>1. k + 1 \in x + 1 .. n /\ (k + 1) - 1 = k /\ k + 1 \in x .. a
      BY <1>1
    <3>2. at[k + 1] = ArgvStep(at[k], l[k + 1]) /\ l[k + 1] = Blank /\ at[k] = ArgvBegin
      BY <1>1, <1>2, <2>2, <3>1
    <3> QED BY <1>4, <3>1, <3>2
  <2> HIDE DEF T
  <2>3. a \in T
    BY <2>1, <2>2, Upwards
  <2> QED BY <2>3 DEF T
<1>6. \A i \in a .. n : at[i] \in ArgvStates(S) /\ scan[i] = Scanning(at[i])
  <2> DEFINE T == {i \in a .. n : at[i] \in ArgvStates(S) /\ scan[i] = Scanning(at[i])}
  <2>1. a \in T /\ a \in Nat /\ n \in Nat
    <3>1. Scanning(ArgvBegin) = ScanBegin
      BY DEF Scanning, ArgvBegin, ScanBegin
    <3> QED BY <1>1, <1>3, <1>4, <1>5, <3>1
  <2>2. ASSUME NEW k \in a .. n - 1, k \in T PROVE k + 1 \in T
    <3>1. /\ k + 1 \in a + 1 .. n /\ k + 1 \in x + 1 .. n /\ (k + 1) - 1 = k
          /\ k + 1 \in a .. n /\ k + 1 \in 1 .. n
      BY <1>1
    <3>2. /\ at[k + 1] = ArgvStep(at[k], l[k + 1])
          /\ scan[k + 1] = Scanned(scan[k], l[k + 1])
          /\ l[k + 1] \in S /\ at[k] \in ArgvStates(S) /\ scan[k] = Scanning(at[k])
      BY <1>1, <1>2, <1>3, <2>2, <3>1
    <3>3. /\ at[k + 1] \in ArgvStates(S)
          /\ scan[k + 1] = Scanning(at[k + 1])
      BY <3>2, ArgvStepFacts
    <3> QED BY <3>1, <3>3
  <2> HIDE DEF T
  <2>3. \A i \in a .. n : i \in T
    BY <2>1, <2>2, Upwards
  <2> QED BY <2>3 DEF T
<1>7. \A i \in a + 1 .. n : at[i] = ArgvStep(at[i - 1], l[i])
  BY <1>1, <1>2
<1> QED BY <1>5, <1>6, <1>7 DEF n, a, at, scan

-----------------------------------------------------------------------------
(* Quoting *)

\* Sequences put together are a sequence of the same elements, and each stands in
\* it behind those before.
LEMMA FlattenFacts ==
    ASSUME NEW S, NEW seqs \in Seq(Seq(S))
    PROVE  /\ FlattenSeq(seqs) \in Seq(S)
           /\ \E off \in [0 .. Len(seqs) -> Nat] :
                  /\ off[0] = 0 /\ off[Len(seqs)] = Len(FlattenSeq(seqs))
                  /\ \A k \in 1 .. Len(seqs) :
                         /\ off[k] = off[k - 1] + Len(seqs[k])
                         /\ \A j \in 1 .. Len(seqs[k]) :
                                FlattenSeq(seqs)[off[k - 1] + j] = seqs[k][j]
<1> DEFINE n == Len(seqs)
           flat == FlattenSeq(seqs)
           Step(f, i) == IF i = 1 THEN seqs[i] ELSE f[i - 1] \o seqs[i]
           Runs(m, f) == f = [i \in 1 .. m |-> Step(f, i)]
           T == {m \in 1 .. n : \E f : Runs(m, f)}
           f == CHOOSE g : Runs(n, g)
<1>1. n \in Nat /\ \A i \in 1 .. n : seqs[i] \in Seq(S)
  OBVIOUS
<1>2. CASE n = 0
  <2>1. flat = <<>>
    BY <1>2 DEF FlattenSeq
  <2> DEFINE off == [k \in 0 .. n |-> 0]
  <2>2. /\ off \in [0 .. n -> Nat] /\ off[0] = 0 /\ off[n] = 0
    BY <1>2
  <2>3. \A k \in 1 .. n : FALSE
    BY <1>2
  <2> HIDE DEF off
  <2> QED BY <2>1, <2>2, <2>3
<1>3. CASE n > 0
  <2>1. 1 \in T
    <3>1. Runs(1, [i \in 1 .. 1 |-> seqs[1]])
      OBVIOUS
    <3> HIDE DEF Runs
    <3> QED BY <3>1, <1>1, <1>3
  <2>2. ASSUME NEW m \in 1 .. n - 1, m \in T PROVE m + 1 \in T
    <3>1. PICK h : Runs(m, h)
      BY <2>2
    <3> DEFINE g == [i \in 1 .. m + 1 |-> Step(h, i)]
    <3>2. ASSUME NEW i \in 1 .. m + 1 PROVE Step(h, i) = Step(g, i)
      <4>1. CASE i = 1
        BY <4>1
      <4>2. CASE i # 1
        <5>1. i - 1 \in 1 .. m /\ i - 1 \in 1 .. m + 1
          BY <4>2
        <5>2. h[i - 1] = Step(h, i - 1)
          BY <3>1, <5>1
        <5>3. g[i - 1] = Step(h, i - 1)
          BY <5>1
        <5> HIDE DEF g
        <5> QED BY <4>2, <5>2, <5>3
      <4> QED BY <4>1, <4>2
    <3>3. Runs(m + 1, g)
      BY <3>2
    <3>4. m + 1 \in 1 .. n
      BY <1>1
    <3> HIDE DEF Runs, g
    <3> QED BY <3>3, <3>4
  <2>3. n \in T
    <3>1. 1 \in Nat /\ n \in Nat /\ n \in 1 .. n
      BY <1>1, <1>3
    <3> HIDE DEF T, n
    <3> QED BY <2>1, <2>2, <3>1, Upwards
  <2>4. Runs(n, f)
    <3> HIDE DEF Runs, n
    <3> QED BY <2>3
  <2>5. flat = f[n]
    BY <1>3 DEF FlattenSeq
  <2> HIDE DEF f, flat
  <2>6. f[1] = seqs[1] /\ \A k \in 1 .. n - 1 : f[k + 1] = f[k] \o seqs[k + 1]
    <3>1. \A i \in 1 .. n : f[i] = Step(f, i)
      BY <2>4
    <3>2. f[1] = seqs[1]
      BY <1>1, <1>3, <3>1
    <3>3. ASSUME NEW k \in 1 .. n - 1 PROVE f[k + 1] = f[k] \o seqs[k + 1]
      <4>1. k + 1 \in 1 .. n /\ k + 1 # 1 /\ (k + 1) - 1 = k
        BY <1>1
      <4>2. f[k + 1] = Step(f, k + 1)
        BY <3>1, <4>1
      <4> QED BY <4>1, <4>2
    <3> QED BY <3>2, <3>3
  <2> HIDE DEF n
  <2>7. \A k \in 1 .. n : f[k] \in Seq(S)
    <3> DEFINE U == {k \in 1 .. n : f[k] \in Seq(S)}
    <3>1. 1 \in U /\ 1 \in Nat /\ n \in Nat
      BY <1>1, <1>3, <2>6
    <3>2. ASSUME NEW k \in 1 .. n - 1, k \in U PROVE k + 1 \in U
      <4>1. k + 1 \in 1 .. n
        BY <1>1
      <4>2. seqs[k + 1] \in Seq(S) /\ f[k] \in Seq(S)
        BY <1>1, <3>2, <4>1
      <4>3. f[k] \o seqs[k + 1] \in Seq(S)
        BY <4>2, ConcatProperties
      <4>4. f[k + 1] = f[k] \o seqs[k + 1]
        BY <2>6
      <4> QED BY <4>1, <4>3, <4>4
    <3> HIDE DEF U
    <3>3. \A k \in 1 .. n : k \in U
      BY <3>1, <3>2, Upwards
    <3> QED BY <3>3 DEF U
  <2>8. ASSUME NEW k \in 1 .. n - 1
        PROVE  /\ k + 1 \in 1 .. n /\ Len(f[k]) \in Nat /\ Len(seqs[k + 1]) \in Nat
               /\ Len(f[k + 1]) = Len(f[k]) + Len(seqs[k + 1])
               /\ \A j \in 1 .. Len(f[k]) : f[k + 1][j] = f[k][j]
               /\ \A j \in 1 .. Len(seqs[k + 1]) : f[k + 1][Len(f[k]) + j] = seqs[k + 1][j]
    <3>1. k + 1 \in 1 .. n
      BY <1>1
    <3>2. f[k + 1] = f[k] \o seqs[k + 1]
      BY <2>6
    <3>3. f[k] \in Seq(S) /\ seqs[k + 1] \in Seq(S)
      <4>1. k \in 1 .. n
        BY <1>1
      <4> QED BY <1>1, <2>7, <3>1, <4>1
    <3> DEFINE s == f[k]
               t == seqs[k + 1]
    <3>4. /\ Len(s) \in Nat /\ Len(t) \in Nat /\ Len(s \o t) = Len(s) + Len(t)
          /\ \A j \in 1 .. Len(s) + Len(t) :
                 (s \o t)[j] = IF j <= Len(s) THEN s[j] ELSE t[j - Len(s)]
      <4>1. s \in Seq(S) /\ t \in Seq(S)
        BY <3>3
      <4> HIDE DEF s, t
      <4>2. /\ Len(s) \in Nat /\ Len(t) \in Nat
            /\ Len(s \o t) = Len(s) + Len(t)
        BY <4>1, ConcatProperties, LenProperties
      <4>3. \A j \in 1 .. Len(s) + Len(t) :
                (s \o t)[j] = IF j <= Len(s) THEN s[j] ELSE t[j - Len(s)]
        BY <4>1, ConcatProperties
      <4> QED BY <4>2, <4>3
    <3>5. \A j \in 1 .. Len(s) : (s \o t)[j] = s[j]
      <4> HIDE DEF s, t
      <4> QED BY <3>4
    <3>6. ASSUME NEW j \in 1 .. Len(t) PROVE (s \o t)[Len(s) + j] = t[j]
      <4> HIDE DEF s, t
      <4>1. /\ Len(s) + j \in 1 .. Len(s) + Len(t) /\ ~(Len(s) + j <= Len(s))
            /\ (Len(s) + j) - Len(s) = j
        BY <3>4
      <4> QED BY <3>4, <4>1
    <3> QED BY <3>1, <3>2, <3>4, <3>5, <3>6
  <2>9. \A k \in 1 .. n : \A j \in 1 .. Len(f[k]) : flat[j] = f[k][j]
    <3> DEFINE U == {k \in 1 .. n : \A j \in 1 .. Len(f[k]) : flat[j] = f[k][j]}
    <3>1. n \in U /\ 1 \in Nat /\ n \in Nat
      BY <1>1, <1>3, <2>5
    <3>2. ASSUME NEW k \in 1 .. n - 1, k + 1 \in U PROVE k \in U
      <4>1. /\ Len(f[k]) \in Nat /\ Len(seqs[k + 1]) \in Nat
            /\ Len(f[k + 1]) = Len(f[k]) + Len(seqs[k + 1])
            /\ \A j \in 1 .. Len(f[k]) : f[k + 1][j] = f[k][j]
        BY <2>8
      <4>2. \A j \in 1 .. Len(f[k + 1]) : flat[j] = f[k + 1][j]
        BY <3>2
      <4>3. \A j \in 1 .. Len(f[k]) : j \in 1 .. Len(f[k + 1])
        <5> DEFINE x == Len(f[k])
                   y == Len(seqs[k + 1])
        <5>1. x \in Nat /\ y \in Nat /\ Len(f[k + 1]) = x + y
          BY <4>1
        <5> HIDE DEF x, y
        <5>2. \A j \in 1 .. x : j \in 1 .. x + y
          BY <5>1
        <5> QED BY <5>1, <5>2 DEF x
      <4>4. k \in 1 .. n
        BY <1>1
      <4> QED BY <4>1, <4>2, <4>3, <4>4
    <3> HIDE DEF U
    <3>3. \A k \in 1 .. n : k \in U
      BY <3>1, <3>2, Downwards
    <3> QED BY <3>3 DEF U
  <2> DEFINE off == [k \in 0 .. n |-> IF k = 0 THEN 0 ELSE Len(f[k])]
  <2>10. off \in [0 .. n -> Nat] /\ off[0] = 0 /\ \A k \in 1 .. n : off[k] = Len(f[k])
    <3>1. \A k \in 1 .. n : Len(f[k]) \in Nat
      BY <2>7
    <3> QED BY <1>1, <3>1
  <2> HIDE DEF off
  <2>11. ASSUME NEW k \in 1 .. n
         PROVE  /\ off[k] = off[k - 1] + Len(seqs[k])
                /\ \A j \in 1 .. Len(seqs[k]) : flat[off[k - 1] + j] = seqs[k][j]
    <3>1. CASE k = 1
      <4>1. Len(seqs[1]) \in Nat /\ f[1] = seqs[1] /\ off[1 - 1] = 0 /\ off[1] = Len(seqs[1])
        BY <1>1, <1>3, <2>6, <2>10
      <4>2. \A j \in 1 .. Len(seqs[1]) : flat[j] = seqs[1][j] /\ 0 + j = j
        BY <1>1, <1>3, <2>9, <4>1
      <4> QED BY <3>1, <4>1, <4>2
    <3>2. CASE k # 1
      <4> DEFINE m == k - 1
      <4>1. m \in 1 .. n - 1 /\ m \in 1 .. n /\ k = m + 1
        BY <1>1, <3>2
      <4>2. off[m] = Len(f[m]) /\ off[k] = Len(f[k])
        BY <2>10, <4>1
      <4> HIDE DEF m
      <4>3. off[k] = off[m] + Len(seqs[k])
        BY <2>8, <4>1, <4>2
      <4>4. ASSUME NEW j \in 1 .. Len(seqs[k]) PROVE flat[off[m] + j] = seqs[k][j]
        <5>1. /\ f[k][off[m] + j] = seqs[k][j] /\ Len(f[m]) \in Nat
              /\ Len(f[k]) = Len(f[m]) + Len(seqs[k]) /\ Len(seqs[k]) \in Nat
          BY <2>8, <4>1, <4>2
        <5>2. off[m] + j \in 1 .. Len(f[k])
          <6> DEFINE x == Len(f[m])
                     y == Len(seqs[k])
          <6>1. x \in Nat /\ y \in Nat /\ Len(f[k]) = x + y /\ off[m] = x /\ j \in 1 .. y
            BY <4>2, <5>1
          <6> HIDE DEF x, y
          <6> QED BY <6>1
        <5>3. flat[off[m] + j] = f[k][off[m] + j]
          BY <2>9, <5>2
        <5> QED BY <5>1, <5>3
      <4> QED BY <4>3, <4>4 DEF m
    <3> QED BY <3>1, <3>2
  <2>12. /\ flat \in Seq(S) /\ off[n] = Len(flat)
    BY <1>1, <1>3, <2>5, <2>7, <2>10
  <2> QED BY <2>10, <2>11, <2>12 DEF flat, n
<1> QED BY <1>1, <1>2, <1>3

\* What Append does.
LEMMA AppendFacts ==
    ASSUME NEW S, NEW s \in Seq(S), NEW d \in S
    PROVE  /\ Append(s, d) \in Seq(S) /\ Len(Append(s, d)) = Len(s) + 1 /\ Len(s) \in Nat
           /\ Append(s, d)[Len(s) + 1] = d
           /\ \A j \in 1 .. Len(s) : Append(s, d)[j] = s[j]
OBVIOUS

\* Whether the backslashes behind the first k characters run into a quote, or into
\* the closing one.
ToQuote(word, k) ==
    \E j \in k + 1 .. Len(word) + 1 :
        /\ j = Len(word) + 1 \/ word[j] = Quote
        /\ \A i \in k + 1 .. j - 1 : word[i] = Backslash

\* Whether the backslashes from here run into a quote, by the next character.
LEMMA ToQuoteFacts ==
    ASSUME NEW S, NEW word \in Seq(S), NEW k \in 0 .. Len(word) - 1
    PROVE  /\ word[k + 1] = Quote => ToQuote(word, k)
           /\ word[k + 1] = Backslash =>
                  /\ ToQuote(word, k) <=> ToQuote(word, k + 1)
                  /\ RunsIntoQuote(word, k + 1) <=> ToQuote(word, k + 1)
           /\ word[k + 1] \notin {Quote, Backslash} => ~ToQuote(word, k)
<1> DEFINE n == Len(word)
           Hits(j) == j = n + 1 \/ word[j] = Quote
<1>1. n \in Nat /\ k \in Nat /\ k < n
  OBVIOUS
<1>2. ASSUME word[k + 1] = Quote PROVE ToQuote(word, k)
  <2>1. k + 1 \in k + 1 .. n + 1 /\ \A i \in k + 1 .. (k + 1) - 1 : FALSE
    BY <1>1
  <2> QED BY <1>2, <2>1 DEF ToQuote
<1>3. ASSUME word[k + 1] = Backslash
      PROVE  /\ ToQuote(word, k) <=> ToQuote(word, k + 1)
             /\ RunsIntoQuote(word, k + 1) <=> ToQuote(word, k + 1)
  <2>1. ASSUME ToQuote(word, k) PROVE ToQuote(word, k + 1)
    <3>1. PICK j \in k + 1 .. n + 1 :
              Hits(j) /\ \A i \in k + 1 .. j - 1 : word[i] = Backslash
      BY <2>1 DEF ToQuote
    <3>2. j # k + 1
      BY <1>1, <1>3, <3>1, CharsAssumption
    <3>3. j \in (k + 1) + 1 .. n + 1 /\ \A i \in (k + 1) + 1 .. j - 1 : i \in k + 1 .. j - 1
      BY <1>1, <3>1, <3>2
    <3> QED BY <3>1, <3>3 DEF ToQuote
  <2>2. ASSUME ToQuote(word, k + 1) PROVE ToQuote(word, k) /\ RunsIntoQuote(word, k + 1)
    <3>1. PICK j \in (k + 1) + 1 .. n + 1 :
              Hits(j) /\ \A i \in (k + 1) + 1 .. j - 1 : word[i] = Backslash
      BY <2>2 DEF ToQuote
    <3>2. j \in k + 1 .. n + 1 /\ \A i \in k + 1 .. j - 1 : word[i] = Backslash
      BY <1>1, <1>3, <3>1
    <3> QED BY <3>1, <3>2 DEF ToQuote, RunsIntoQuote
  <2>3. ASSUME RunsIntoQuote(word, k + 1) PROVE ToQuote(word, k + 1)
    <3>1. PICK j \in (k + 1) + 1 .. n + 1 :
              Hits(j) /\ \A i \in k + 1 .. j - 1 : word[i] = Backslash
      BY <2>3 DEF RunsIntoQuote
    <3>2. \A i \in (k + 1) + 1 .. j - 1 : i \in k + 1 .. j - 1
      BY <1>1, <3>1
    <3> QED BY <3>1, <3>2 DEF ToQuote
  <2> QED BY <2>1, <2>2, <2>3
<1>4. ASSUME word[k + 1] \notin {Quote, Backslash}, ToQuote(word, k) PROVE FALSE
  <2>1. PICK j \in k + 1 .. n + 1 :
            Hits(j) /\ \A i \in k + 1 .. j - 1 : word[i] = Backslash
    BY <1>4 DEF ToQuote
  <2>2. j # k + 1
    BY <1>1, <1>4, <2>1
  <2>3. k + 1 \in k + 1 .. j - 1
    BY <1>1, <2>1, <2>2
  <2> QED BY <1>4, <2>1, <2>3
<1> QED BY <1>2, <1>3, <1>4

\* Windows has read the opening quote and the first k characters of a word, quoted.
\* It has their backslashes as they are written, and will drop half of them if a
\* quote follows.
Within(S, word, k, args, st) ==
    /\ st \in ArgvStates(S)
    /\ st.args = args /\ st.open = TRUE /\ st.quotes = 1
    /\ \E r \in Nat : \E x \in Nat :
           /\ x = IF ToQuote(word, k) THEN r ELSE 0
           /\ st.backslashes = r + x
           /\ st.inRun => r = 0
           /\ Len(st.out) = k + x
           /\ \A j \in 1 .. k : st.out[j] = word[j]
           /\ \A j \in k + 1 .. k + x : st.out[j] = Backslash

\* One more character of the word is read, quoted.
LEMMA WithinStep ==
    ASSUME NEW S, Quote \in S, Backslash \in S, NEW word \in Seq(S),
           NEW k \in 0 .. Len(word) - 1, NEW args, NEW st, Within(S, word, k, args, st)
    PROVE  /\ Escaped(word, k + 1) \in Seq(S)
           /\ Len(Escaped(word, k + 1)) = 1 =>
                  Within(S, word, k + 1, args, ArgvStep(st, Escaped(word, k + 1)[1]))
           /\ Len(Escaped(word, k + 1)) = 2 =>
                  /\ Escaped(word, k + 1)[2] # Blank
                  /\ Within(S, word, k + 1, args,
                            ArgvStep(ArgvStep(st, Escaped(word, k + 1)[1]),
                                     Escaped(word, k + 1)[2]))
           /\ Len(Escaped(word, k + 1)) \in {1, 2}
<1> DEFINE n == Len(word)
           e == Escaped(word, k + 1)
           c == word[k + 1]
<1>1. n \in Nat /\ k \in Nat /\ k < n /\ k + 1 \in 1 .. n /\ c \in S
  OBVIOUS
<1>2. /\ st \in ArgvStates(S) /\ st.args = args /\ st.open = TRUE /\ st.quotes = 1
      /\ st.out \in Seq(S) /\ st.backslashes \in Nat /\ Settled(1) = 1
  BY DEF Within, ArgvStates, Settled
<1>3. PICK r \in Nat : \E x \in Nat :
           /\ x = IF ToQuote(word, k) THEN r ELSE 0
           /\ st.backslashes = r + x
           /\ st.inRun => r = 0
           /\ Len(st.out) = k + x
           /\ \A j \in 1 .. k : st.out[j] = word[j]
           /\ \A j \in k + 1 .. k + x : st.out[j] = Backslash
  BY DEF Within
<1>4. PICK x \in Nat :
           /\ x = IF ToQuote(word, k) THEN r ELSE 0
           /\ st.backslashes = r + x
           /\ st.inRun => r = 0
           /\ Len(st.out) = k + x
           /\ \A j \in 1 .. k : st.out[j] = word[j]
           /\ \A j \in k + 1 .. k + x : st.out[j] = Backslash
  BY <1>3
<1>5. ASSUME NEW d \in S, d # Quote
      PROVE  ArgvStep(st, d) =
                 [args |-> args, open |-> TRUE, out |-> Append(st.out, d), quotes |-> 1,
                  backslashes |-> IF d = Backslash THEN st.backslashes + 1 ELSE 0,
                  inRun |-> FALSE]
  BY <1>2, <1>5, ArgvOtherFacts
<1> DEFINE st1 == ArgvStep(st, Backslash)
<1>6. /\ st1 \in ArgvStates(S) /\ st1.args = args /\ st1.open = TRUE /\ st1.quotes = 1
      /\ st1.out = Append(st.out, Backslash) /\ st1.backslashes = st.backslashes + 1
      /\ st1.inRun = FALSE
      /\ st1.out \in Seq(S) /\ Len(st1.out) = (k + x) + 1
      /\ \A j \in 1 .. k : st1.out[j] = word[j]
      /\ \A j \in k + 1 .. (k + x) + 1 : st1.out[j] = Backslash
  <2>1. st1 = [args |-> args, open |-> TRUE, out |-> Append(st.out, Backslash), quotes |-> 1,
               backslashes |-> st.backslashes + 1, inRun |-> FALSE]
    BY <1>5, CharsAssumption
  <2>2. st1 \in ArgvStates(S)
    BY <1>2, ArgvStepFacts
  <2> DEFINE o == Append(st.out, Backslash)
  <2>3. /\ o \in Seq(S) /\ Len(o) = Len(st.out) + 1 /\ o[Len(st.out) + 1] = Backslash
        /\ \A j \in 1 .. Len(st.out) : o[j] = st.out[j]
    BY <1>2, AppendFacts
  <2> HIDE DEF st1, o
  <2>4. /\ Len(o) = (k + x) + 1
        /\ \A j \in 1 .. k : o[j] = word[j]
        /\ \A j \in k + 1 .. (k + x) + 1 : o[j] = Backslash
    <3>1. Len(st.out) = k + x /\ \A j \in 1 .. k : st.out[j] = word[j]
      BY <1>4
    <3>2. \A j \in k + 1 .. k + x : st.out[j] = Backslash
      BY <1>4
    <3>3. Len(o) = (k + x) + 1 /\ o[(k + x) + 1] = Backslash
      BY <2>3, <3>1
    <3>4. \A j \in 1 .. k + x : o[j] = st.out[j]
      BY <2>3, <3>1
    <3>5. \A j \in 1 .. k : o[j] = word[j]
      <4>1. \A j \in 1 .. k : j \in 1 .. k + x
        BY <1>1
      <4> QED BY <3>1, <3>4, <4>1
    <3>6. ASSUME NEW j \in k + 1 .. (k + x) + 1 PROVE o[j] = Backslash
      <4>1. CASE j = (k + x) + 1
        BY <3>3, <4>1
      <4>2. CASE j # (k + x) + 1
        <5>1. j \in k + 1 .. k + x /\ j \in 1 .. k + x
          BY <1>1, <4>2
        <5> QED BY <3>2, <3>4, <5>1
      <4> QED BY <4>1, <4>2
    <3> QED BY <3>3, <3>5, <3>6
  <2> QED BY <2>1, <2>2, <2>3, <2>4 DEF o
<1>7. CASE c = Quote
  <2>1. e = <<Backslash, Quote>>
    BY <1>7 DEF Escaped
  <2>2. x = r /\ st1.backslashes = (r + r) + 1
    BY <1>1, <1>4, <1>6, <1>7, ToQuoteFacts
  <2>3. /\ st1.backslashes % 2 # 0 /\ st1.backslashes \div 2 = r
    BY <2>2
  <2> DEFINE st2 == ArgvStep(st1, Quote)
             left == Dropped(st1.out, r + 1)
  <2>4. /\ st2 \in ArgvStates(S) /\ st2.args = args /\ st2.open = TRUE
        /\ st2.backslashes = 0 /\ st2.inRun = TRUE /\ st2.quotes = 1
        /\ st2.out = Append(left, Quote)
    <3>1. st1 \in ArgvStates(S) /\ st1.args = args /\ st1.quotes = 1 /\ st1.inRun = FALSE
      BY <1>6
    <3> HIDE DEF st1
    <3>2. /\ st2 \in ArgvStates(S) /\ st2.args = st1.args /\ st2.open = TRUE
          /\ st2.backslashes = 0 /\ st2.inRun = TRUE
      BY <3>1, ArgvQuoteFacts
    <3>3. ~st1.inRun /\ st1.backslashes % 2 # 0 =>
              /\ st2.quotes = Settled(st1.quotes)
              /\ st2.out = Append(Dropped(st1.out, st1.backslashes \div 2 + 1), Quote)
      BY <3>1, ArgvQuoteFacts
    <3> HIDE DEF st2
    <3>4. st2.quotes = Settled(1) /\ st2.out = Append(left, Quote)
      BY <2>3, <3>1, <3>3
    <3> QED BY <1>2, <3>1, <3>2, <3>4
  <2>5. left \in Seq(S) /\ Len(left) = k /\ \A j \in 1 .. k : left[j] = word[j]
    <3>1. /\ left \in Seq(S)
          /\ r + 1 <= Len(st1.out) => /\ Len(left) = Len(st1.out) - (r + 1)
                                      /\ \A j \in 1 .. Len(st1.out) - (r + 1) : left[j] = st1.out[j]
      <4>1. r + 1 \in Nat /\ st1.out \in Seq(S)
        BY <1>6
      <4> DEFINE m == r + 1
                 o == st1.out
      <4>2. /\ Dropped(o, m) \in Seq(S)
            /\ m <= Len(o) => /\ Len(Dropped(o, m)) = Len(o) - m
                              /\ \A j \in 1 .. Len(o) - m : Dropped(o, m)[j] = o[j]
        <5> HIDE DEF m, o
        <5> QED BY <4>1, DroppedFacts DEF m, o
      <4> QED BY <4>2
    <3>2. r + 1 <= Len(st1.out) /\ Len(st1.out) - (r + 1) = k
      BY <1>1, <1>6, <2>2
    <3> HIDE DEF left, st1
    <3> QED BY <1>6, <3>1, <3>2
  <2> HIDE DEF st2, left
  <2>6. /\ Len(st2.out) = k + 1
        /\ \A j \in 1 .. k + 1 : st2.out[j] = word[j]
    BY <1>1, <1>7, <2>4, <2>5
  <2>7. Within(S, word, k + 1, args, st2)
    <3>1. 0 = IF ToQuote(word, k + 1) THEN 0 ELSE 0
      OBVIOUS
    <3>2. \A j \in (k + 1) + 1 .. (k + 1) + 0 : FALSE
      BY <1>1
    <3>3. Len(st2.out) = (k + 1) + 0 /\ st2.backslashes = 0 + 0
      BY <1>1, <2>4, <2>6
    <3> QED BY <2>4, <2>6, <3>1, <3>2, <3>3 DEF Within
  <2>8. Len(e) = 2 /\ e[1] = Backslash /\ e[2] = Quote /\ e \in Seq(S) /\ Quote # Blank
    <3>1. <<Backslash, Quote>> \in Seq(S)
      OBVIOUS
    <3> HIDE DEF e
    <3> QED BY <2>1, <3>1, CharsAssumption
  <2> HIDE DEF e, st1
  <2> QED BY <2>7, <2>8 DEF e, st1, st2
<1>8. CASE c = Backslash /\ ToQuote(word, k + 1)
  <2>1. ToQuote(word, k) /\ RunsIntoQuote(word, k + 1)
    BY <1>1, <1>8, ToQuoteFacts
  <2>2. e = <<Backslash, Backslash>>
    BY <1>8, <2>1, CharsAssumption DEF Escaped
  <2>3. x = r
    BY <1>4, <2>1
  <2> DEFINE st2 == ArgvStep(st1, Backslash)
  <2>4. /\ st2 = [args |-> args, open |-> TRUE, out |-> Append(st1.out, Backslash), quotes |-> 1,
                  backslashes |-> st1.backslashes + 1, inRun |-> FALSE]
    <3> HIDE DEF st1
    <3>1. ArgvStep(st1, Backslash) =
               [args |-> st1.args, open |-> TRUE, out |-> Append(st1.out, Backslash),
                quotes |-> Settled(st1.quotes),
                backslashes |-> IF Backslash = Backslash THEN st1.backslashes + 1 ELSE 0,
                inRun |-> FALSE]
      BY <1>6, CharsAssumption, ArgvOtherFacts
    <3> QED BY <1>2, <1>6, <3>1
  <2>5. st2 \in ArgvStates(S)
    <3> HIDE DEF st1
    <3> QED BY <1>6, ArgvStepFacts
  <2> HIDE DEF st1, st2
  <2> DEFINE o == Append(st1.out, Backslash)
  <2>6. /\ o \in Seq(S) /\ Len(o) = ((k + r) + 1) + 1 /\ o[((k + r) + 1) + 1] = Backslash
        /\ \A j \in 1 .. (k + r) + 1 : o[j] = st1.out[j]
    BY <1>6, <2>3, AppendFacts
  <2>7. st2.out = o
    BY <2>4
  <2> HIDE DEF o
  <2>8. /\ st2.args = args /\ st2.open = TRUE /\ st2.quotes = 1 /\ st2.inRun = FALSE
        /\ st2.backslashes = (r + 1) + (r + 1)
        /\ Len(st2.out) = (k + 1) + (r + 1)
        /\ \A j \in 1 .. k + 1 : st2.out[j] = word[j]
        /\ \A j \in (k + 1) + 1 .. (k + 1) + (r + 1) : st2.out[j] = Backslash
    <3>1. \A j \in k + 1 .. (k + r) + 2 : st2.out[j] = Backslash
      <4> TAKE j \in k + 1 .. (k + r) + 2
      <4>1. CASE j = ((k + r) + 1) + 1
        BY <2>6, <2>7, <4>1
      <4>2. CASE j # ((k + r) + 1) + 1
        <5>1. j \in 1 .. (k + r) + 1 /\ j \in k + 1 .. (k + r) + 1
          BY <1>1, <2>3, <4>2
        <5>2. o[j] = st1.out[j]
          BY <2>6, <5>1
        <5>3. st1.out[j] = Backslash
          BY <1>1, <1>6, <2>3, <5>1
        <5> QED BY <2>7, <5>2, <5>3
      <4> QED BY <4>1, <4>2
    <3>2. \A j \in 1 .. k : st2.out[j] = word[j]
      BY <1>1, <1>6, <2>3, <2>6, <2>7
    <3>3. /\ st2.args = args /\ st2.open = TRUE /\ st2.quotes = 1 /\ st2.inRun = FALSE
          /\ st2.backslashes = (r + 1) + (r + 1)
      BY <1>4, <1>6, <2>3, <2>4
    <3>4. Len(st2.out) = (k + 1) + (r + 1)
      BY <1>1, <1>6, <2>3, <2>6, <2>7
    <3>5. \A j \in 1 .. k + 1 : st2.out[j] = word[j]
      BY <1>1, <1>8, <3>1, <3>2
    <3>6. \A j \in (k + 1) + 1 .. (k + 1) + (r + 1) : st2.out[j] = Backslash
      BY <1>1, <3>1
    <3> QED BY <3>3, <3>4, <3>5, <3>6
  <2>9. Within(S, word, k + 1, args, st2)
    <3>1. r + 1 = IF ToQuote(word, k + 1) THEN r + 1 ELSE 0
      BY <1>8
    <3>2. r + 1 \in Nat /\ (st2.inRun => r + 1 = 0)
      BY <2>8
    <3> HIDE DEF c, e
    <3> DEFINE r1 == r + 1
    <3> HIDE DEF r1
    <3>3. /\ r1 \in Nat /\ r1 = IF ToQuote(word, k + 1) THEN r1 ELSE 0
          /\ st2.backslashes = r1 + r1 /\ (st2.inRun => r1 = 0)
          /\ Len(st2.out) = (k + 1) + r1
          /\ \A j \in (k + 1) + 1 .. (k + 1) + r1 : st2.out[j] = Backslash
      BY <2>8, <3>1, <3>2 DEF r1
    <3> QED BY <2>5, <2>8, <3>3 DEF Within
  <2>10. Len(e) = 2 /\ e[1] = Backslash /\ e[2] = Backslash /\ e \in Seq(S) /\ Backslash # Blank
    <3>1. <<Backslash, Backslash>> \in Seq(S)
      OBVIOUS
    <3> HIDE DEF e
    <3> QED BY <2>2, <3>1, CharsAssumption
  <2> HIDE DEF e
  <2> QED BY <2>9, <2>10 DEF e, st1, st2
<1>9. CASE c = Backslash /\ ~ToQuote(word, k + 1)
  <2>1. ~ToQuote(word, k) /\ ~RunsIntoQuote(word, k + 1)
    BY <1>1, <1>9, ToQuoteFacts
  <2>2. e = <<Backslash>>
    BY <1>9, <2>1, CharsAssumption DEF Escaped
  <2>3. x = 0
    BY <1>4, <2>1
  <2> HIDE DEF st1
  <2>4. /\ st1.backslashes = (r + 1) + 0
        /\ Len(st1.out) = (k + 1) + 0
        /\ \A j \in 1 .. k + 1 : st1.out[j] = word[j]
        /\ \A j \in (k + 1) + 1 .. (k + 1) + 0 : FALSE
    BY <1>1, <1>4, <1>6, <1>9, <2>3
  <2>5. Within(S, word, k + 1, args, st1)
    <3> DEFINE r1 == r + 1
    <3>1. r1 \in Nat /\ 0 = IF ToQuote(word, k + 1) THEN r1 ELSE 0
      BY <1>9
    <3>2. st1.backslashes = r1 + 0
      BY <2>4
    <3> HIDE DEF r1, c, e
    <3> QED BY <1>6, <2>4, <3>1, <3>2 DEF Within
  <2>6. Len(e) = 1 /\ e[1] = Backslash /\ e \in Seq(S)
    <3>1. <<Backslash>> \in Seq(S)
      OBVIOUS
    <3> HIDE DEF e
    <3> QED BY <2>2, <3>1
  <2> HIDE DEF e
  <2> QED BY <2>5, <2>6 DEF e, st1
<1>10. CASE c \notin {Quote, Backslash}
  <2>1. ~ToQuote(word, k)
    BY <1>1, <1>10, ToQuoteFacts
  <2>2. e = <<c>>
    BY <1>10 DEF Escaped
  <2>3. x = 0
    BY <1>4, <2>1
  <2> DEFINE st2 == ArgvStep(st, c)
  <2>4. st2 = [args |-> args, open |-> TRUE, out |-> Append(st.out, c), quotes |-> 1,
               backslashes |-> 0, inRun |-> FALSE]
    <3> HIDE DEF c
    <3> QED BY <1>1, <1>5, <1>10
  <2>5. st2 \in ArgvStates(S)
    BY <1>1, <1>2, ArgvStepFacts
  <2> HIDE DEF st2
  <2>6. /\ Len(st2.out) = (k + 1) + 0
        /\ \A j \in 1 .. k + 1 : st2.out[j] = word[j]
        /\ \A j \in (k + 1) + 1 .. (k + 1) + 0 : FALSE
        /\ st2.backslashes = 0 + 0 /\ st2.args = args /\ st2.open = TRUE /\ st2.quotes = 1
    BY <1>1, <1>2, <1>4, <2>3, <2>4
  <2>7. Within(S, word, k + 1, args, st2)
    <3>1. 0 = IF ToQuote(word, k + 1) THEN 0 ELSE 0
      OBVIOUS
    <3> HIDE DEF c, e
    <3> QED BY <2>5, <2>6, <3>1 DEF Within
  <2>8. Len(e) = 1 /\ e[1] = c /\ e \in Seq(S)
    <3> HIDE DEF e, c
    <3>1. <<c>> \in Seq(S)
      BY <1>1
    <3> QED BY <2>2, <3>1
  <2> HIDE DEF e, c
  <2> QED BY <2>7, <2>8 DEF e, st2
<1> QED BY <1>7, <1>8, <1>9, <1>10

\* A character is escaped by quotes and backslashes.
LEMMA EscapedType ==
    ASSUME NEW S, Quote \in S, Backslash \in S, NEW word \in Seq(S), NEW k \in 1 .. Len(word)
    PROVE  Escaped(word, k) \in Seq(S)
<1>1. /\ <<Backslash, Quote>> \in Seq(S) /\ <<Backslash, Backslash>> \in Seq(S)
      /\ <<word[k]>> \in Seq(S)
  OBVIOUS
<1> DEFINE c == word[k]
<1>2. CASE c = Quote
  BY <1>1, <1>2 DEF Escaped
<1>3. CASE c = Backslash /\ RunsIntoQuote(word, k)
  BY <1>1, <1>3, CharsAssumption DEF Escaped
<1>4. CASE c # Quote /\ ~(c = Backslash /\ RunsIntoQuote(word, k))
  BY <1>1, <1>4 DEF Escaped
<1> QED BY <1>2, <1>3, <1>4

\* A quoted word: the opening quote, each character as it is escaped, the closing
\* quote.
QuotedBy(word, off) ==
    /\ off[0] = 0 /\ Len(QuoteWord(word)) = off[Len(word)] + 2
    /\ QuoteWord(word)[off[Len(word)] + 2] = Quote
    /\ \A k \in 1 .. Len(word) :
           /\ off[k] = off[k - 1] + Len(Escaped(word, k))
           /\ \A j \in 1 .. Len(Escaped(word, k)) :
                  QuoteWord(word)[1 + (off[k - 1] + j)] = Escaped(word, k)[j]

\* A word that needs quotes stands in them, each character with its escapes.
LEMMA QuotedForm ==
    ASSUME NEW S, Quote \in S, Backslash \in S, NEW word \in Seq(S), NeedsQuotes(word)
    PROVE  /\ QuoteWord(word) \in Seq(S) /\ QuoteWord(word)[1] = Quote
           /\ \E off \in [0 .. Len(word) -> Nat] : QuotedBy(word, off)
<1> DEFINE n == Len(word)
           pieces == [i \in DOMAIN word |-> Escaped(word, i)]
           F == FlattenSeq(pieces)
           t == (<<Quote>> \o F) \o <<Quote>>
<1>1. n \in Nat /\ DOMAIN word = 1 .. n
  OBVIOUS
<1>2. pieces \in Seq(Seq(S)) /\ Len(pieces) = n /\ \A k \in 1 .. n : pieces[k] = Escaped(word, k)
  <2>1. \A k \in 1 .. n : Escaped(word, k) \in Seq(S)
    BY EscapedType
  <2> QED BY <1>1, <2>1
<1>3. QuoteWord(word) = t
  BY DEF QuoteWord
<1> HIDE DEF pieces
<1>4. PICK off \in [0 .. n -> Nat] :
          /\ F \in Seq(S) /\ off[0] = 0 /\ off[n] = Len(F)
          /\ \A k \in 1 .. n : /\ off[k] = off[k - 1] + Len(pieces[k])
                               /\ \A j \in 1 .. Len(pieces[k]) :
                                      F[off[k - 1] + j] = pieces[k][j]
  <2>1. pieces \in Seq(Seq(S))
    BY <1>2
  <2>2. /\ FlattenSeq(pieces) \in Seq(S)
        /\ \E off \in [0 .. Len(pieces) -> Nat] :
               /\ off[0] = 0 /\ off[Len(pieces)] = Len(FlattenSeq(pieces))
               /\ \A k \in 1 .. Len(pieces) :
                      /\ off[k] = off[k - 1] + Len(pieces[k])
                      /\ \A j \in 1 .. Len(pieces[k]) :
                             FlattenSeq(pieces)[off[k - 1] + j] = pieces[k][j]
    BY ONLY <2>1, FlattenFacts
  <2>3. Len(pieces) = n
    BY <1>2
  <2> HIDE DEF n
  <2> QED BY <2>2, <2>3
<1>5. F \in Seq(S) /\ Len(F) \in Nat /\ <<Quote>> \in Seq(S)
  <2>1. <<Quote>> \in Seq(S)
    OBVIOUS
  <2> QED BY <1>4, <2>1
<1> HIDE DEF F
<1>6. /\ t \in Seq(S) /\ Len(t) = Len(F) + 2 /\ t[1] = Quote /\ t[Len(F) + 2] = Quote
      /\ \A j \in 1 .. Len(F) : t[1 + j] = F[j]
  BY <1>5
<1> HIDE DEF t
<1>7. \A k \in 1 .. n : Len(Escaped(word, k)) \in Nat
  BY EscapedType
<1>8. \A k \in 0 .. n : off[k] \in 0 .. Len(F)
  <2> DEFINE T == {k \in 0 .. n : off[k] <= Len(F)}
  <2>1. n \in T /\ 0 \in Nat /\ n \in Nat
    BY <1>1, <1>4, <1>5
  <2>2. ASSUME NEW k \in 0 .. n - 1, k + 1 \in T PROVE k \in T
    <3>1. k + 1 \in 1 .. n /\ (k + 1) - 1 = k /\ k \in 0 .. n
      BY <1>1
    <3>2. off[k + 1] = off[k] + Len(Escaped(word, k + 1)) /\ Len(Escaped(word, k + 1)) \in Nat
      BY <1>2, <1>4, <1>7, <3>1
    <3>3. off[k] \in Nat /\ off[k + 1] \in Nat /\ off[k + 1] <= Len(F)
      BY <1>4, <2>2, <3>1
    <3>4. off[k] <= Len(F)
      BY <1>5, <3>2, <3>3
    <3> QED BY <3>1, <3>4
  <2> HIDE DEF T
  <2>3. \A k \in 0 .. n : k \in T
    BY <2>1, <2>2, Downwards
  <2>4. ASSUME NEW k \in 0 .. n PROVE off[k] \in 0 .. Len(F)
    <3>1. off[k] \in Nat /\ Len(F) \in Nat
      BY <1>4, <1>5
    <3>2. off[k] <= Len(F)
      BY <2>3 DEF T
    <3> QED BY <3>1, <3>2
  <2> QED BY <2>4
<1>9. ASSUME NEW k \in 1 .. n
      PROVE  /\ off[k] = off[k - 1] + Len(Escaped(word, k))
             /\ \A j \in 1 .. Len(Escaped(word, k)) : t[1 + (off[k - 1] + j)] = Escaped(word, k)[j]
  <2> DEFINE e == Escaped(word, k)
             o == off[k - 1]
  <2>1. pieces[k] = e /\ Len(e) \in Nat
    BY <1>2, <1>7
  <2>2. k - 1 \in 0 .. n /\ k \in 0 .. n
    BY <1>1
  <2>3. off[k] = o + Len(e) /\ o \in Nat /\ off[k] <= Len(F)
        /\ \A j \in 1 .. Len(e) : F[o + j] = e[j]
    <3>1. off[k] <= Len(F)
      BY <1>8, <2>2
    <3>2. o \in Nat
      BY <1>4, <2>2
    <3>3. /\ off[k] = o + Len(pieces[k])
          /\ \A j \in 1 .. Len(pieces[k]) : F[o + j] = pieces[k][j]
      BY <1>4
    <3> HIDE DEF e, o
    <3> QED BY <2>1, <3>1, <3>2, <3>3
  <2> HIDE DEF e, o
  <2>4. ASSUME NEW j \in 1 .. Len(e) PROVE t[1 + (o + j)] = e[j]
    <3>1. o + j \in 1 .. Len(F)
      BY <1>5, <2>1, <2>3
    <3> QED BY <1>6, <2>3, <3>1
  <2> QED BY <2>3, <2>4 DEF e, o
<1>10. Len(t) = off[n] + 2 /\ t[off[n] + 2] = Quote
  BY <1>4, <1>6
<1>11. QuotedBy(word, off)
  BY <1>3, <1>4, <1>9, <1>10 DEF QuotedBy
<1> QED BY <1>3, <1>4, <1>6, <1>11

\* Where Windows is when it has read args and the blanks behind them.
Starting(args) == [args |-> args, open |-> FALSE, out |-> <<>>,
                   quotes |-> 0, backslashes |-> 0, inRun |-> FALSE]

\* What Windows reads of a text that is quoted by QuoteWord: one argument, the word,
\* and no blank that would end it.
ReadAs(text, word, args, read) ==
    /\ read[Len(text)].args = args /\ read[Len(text)].open = TRUE
    /\ read[Len(text)].out = word /\ read[Len(text)].quotes # 1
    /\ \A j \in 1 .. Len(text) : text[j] = Blank => read[j - 1].quotes = 1

\* A word that needs no quotes is read as it stands.
LEMMA PlainReads ==
    ASSUME NEW S, {Blank, Quote, Backslash} \subseteq S, NEW word \in Seq(S),
           NEW args \in Seq(Seq(S)), NEW read, read[0] = Starting(args),
           ~NeedsQuotes(word),
           \A j \in 1 .. Len(word) : read[j] = ArgvStep(read[j - 1], word[j])
    PROVE  word # <<>> /\ ReadAs(word, word, args, read)
<1> DEFINE n == Len(word)
<1>1. /\ n \in Nat /\ n >= 1 /\ word # <<>>
      /\ \A j \in 1 .. n : word[j] \in S /\ word[j] # Blank /\ word[j] # Quote
  BY DEF NeedsQuotes
<1> DEFINE Read(k) == /\ read[k] \in ArgvStates(S) /\ read[k].args = args
                      /\ read[k].quotes = 0 /\ (k > 0 => read[k].open = TRUE)
                      /\ Len(read[k].out) = k
                      /\ \A j \in 1 .. k : read[k].out[j] = word[j]
           T == {k \in 0 .. n : Read(k)}
<1>2. 0 \in T /\ 0 \in Nat
  <2>1. Starting(args) \in ArgvStates(S) /\ Len(<<>>) = 0
    BY DEF Starting, ArgvStates
  <2> QED BY <1>1, <2>1 DEF Starting
<1>3. ASSUME NEW k \in 0 .. n - 1, k \in T PROVE k + 1 \in T
  <2>1. k + 1 \in 1 .. n /\ (k + 1) - 1 = k /\ k \in Nat
    BY <1>1
  <2> DEFINE c == word[k + 1]
             st == read[k]
  <2>2. c \in S /\ c # Blank /\ c # Quote /\ Read(k)
    BY <1>1, <1>3, <2>1
  <2>3. read[k + 1] = ArgvStep(st, c)
    BY <2>1
  <2>4. /\ st \in ArgvStates(S) /\ st.args = args /\ st.quotes = 0 /\ st.out \in Seq(S)
        /\ Len(st.out) = k /\ \A j \in 1 .. k : st.out[j] = word[j]
    BY <2>2 DEF ArgvStates
  <2> HIDE DEF c, st
  <2>5. /\ ArgvStep(st, c).args = args /\ ArgvStep(st, c).open = TRUE
        /\ ArgvStep(st, c).out = Append(st.out, c) /\ ArgvStep(st, c).quotes = 0
    BY <2>2, <2>4, ArgvOtherFacts DEF Settled
  <2>6. ArgvStep(st, c) \in ArgvStates(S)
    BY <2>2, <2>4, ArgvStepFacts
  <2> DEFINE o == Append(st.out, c)
  <2>7. Len(o) = k + 1 /\ o[k + 1] = c /\ \A j \in 1 .. k : o[j] = st.out[j]
    BY <2>2, <2>4, AppendFacts
  <2> HIDE DEF o
  <2>8. \A j \in 1 .. k + 1 : o[j] = word[j]
    BY <2>1, <2>4, <2>7 DEF c
  <2>9. ArgvStep(st, c).out = o
    BY <2>5 DEF o
  <2>10. k + 1 \in 0 .. n
    BY <1>1
  <2>11. Read(k + 1)
    BY <2>3, <2>5, <2>6, <2>7, <2>8, <2>9
  <2> HIDE DEF Read
  <2> QED BY <2>10, <2>11
<1> HIDE DEF T
<1>4. n \in T
  <2>1. \A k \in 0 .. n : k \in T
    BY <1>1, <1>2, <1>3, Upwards
  <2> QED BY <1>1, <2>1
<1>5. Read(n)
  BY <1>4 DEF T
<1>6. read[n].out = word
  <2>1. read[n].out \in Seq(S)
    BY <1>5 DEF ArgvStates
  <2> QED BY <1>5, <2>1, SeqEqual
<1> QED BY <1>1, <1>5, <1>6 DEF ReadAs

\* A word in QuoteWord's quotes is read as the word.
LEMMA QuotedReads ==
    ASSUME NEW S, {Blank, Quote, Backslash} \subseteq S, NEW word \in Seq(S),
           NEW args \in Seq(Seq(S)), NEW read, read[0] = Starting(args),
           NeedsQuotes(word),
           \A j \in 1 .. Len(QuoteWord(word)) :
               read[j] = ArgvStep(read[j - 1], QuoteWord(word)[j])
    PROVE  ReadAs(QuoteWord(word), word, args, read)
<1> DEFINE n == Len(word)
           t == QuoteWord(word)
           Until(k) == Len(Escaped(word, k))
<1>1. n \in Nat /\ Quote \in S /\ Backslash \in S /\ Blank # Quote
  BY CharsAssumption
<1>2. PICK off \in [0 .. n -> Nat] :
          /\ off[0] = 0 /\ Len(t) = off[n] + 2 /\ t[off[n] + 2] = Quote
          /\ \A k \in 1 .. n :
                 /\ off[k] = off[k - 1] + Len(Escaped(word, k))
                 /\ \A j \in 1 .. Len(Escaped(word, k)) :
                        t[1 + (off[k - 1] + j)] = Escaped(word, k)[j]
  <2>1. PICK off \in [0 .. Len(word) -> Nat] : QuotedBy(word, off)
    BY <1>1, QuotedForm
  <2> QED BY <2>1 DEF QuotedBy
<1>2a. \A k \in 0 .. n : off[k] \in Nat
  OBVIOUS
<1>3. t \in Seq(S) /\ t[1] = Quote
  BY QuotedForm
<1>4. \A j \in 1 .. Len(t) : read[j] = ArgvStep(read[j - 1], t[j])
  OBVIOUS
<1> HIDE DEF t
<1>5. Within(S, word, 0, args, read[1])
  <2> DEFINE st == Starting(args)
  <2>1. /\ st \in ArgvStates(S) /\ st.args = args /\ st.inRun = FALSE /\ st.backslashes = 0
        /\ st.quotes = 0 /\ st.out = <<>>
    BY DEF Starting, ArgvStates
  <2>2. read[1] = ArgvStep(st, Quote)
    <3>1. 1 \in 1 .. Len(t) /\ 1 - 1 = 0
      <4>1. off[n] \in Nat
        BY <1>1, <1>2a
      <4> QED BY <1>2, <4>1
    <3> QED BY <1>3, <1>4, <3>1
  <2> DEFINE next == ArgvStep(st, Quote)
  <2> HIDE DEF st
  <2>3. /\ next \in ArgvStates(S) /\ next.args = args /\ next.open = TRUE
        /\ next.backslashes = 0 /\ next.inRun = TRUE /\ next.quotes = 1
        /\ next.out = Dropped(<<>>, 0)
    <3>1. st.backslashes % 2 = 0 /\ st.backslashes \div 2 = 0 /\ Settled(st.quotes) + 1 = 1
      BY <2>1 DEF Settled
    <3> QED BY <1>1, <2>1, <3>1, ArgvQuoteFacts
  <2> HIDE DEF next
  <2>4. Dropped(<<>>, 0) \in Seq(S) /\ Len(Dropped(<<>>, 0)) = 0
    <3>1. <<>> \in Seq(S) /\ Len(<<>>) = 0 /\ 0 \in Nat /\ 0 <= 0 /\ 0 - 0 = 0
      OBVIOUS
    <3> QED BY <3>1, DroppedFacts
  <2>5. /\ 0 = IF ToQuote(word, 0) THEN 0 ELSE 0
        /\ next.backslashes = 0 + 0 /\ Len(next.out) = 0 + 0
        /\ \A j \in 1 .. 0 : FALSE
        /\ \A j \in 0 + 1 .. 0 + 0 : FALSE
    BY <2>3, <2>4
  <2>6. read[1] = next
    BY <2>2 DEF next
  <2>7. Within(S, word, 0, args, next)
    BY <2>3, <2>5 DEF Within
  <2> QED BY <2>6, <2>7
<1> DEFINE Kept(j) == t[j] = Blank => read[j - 1].quotes = 1
           T == {k \in 0 .. n : /\ Within(S, word, k, args, read[1 + off[k]])
                                /\ 1 + off[k] <= Len(t)
                                /\ \A j \in 1 .. 1 + off[k] : Kept(j)}
<1>6. 0 \in T /\ 0 \in Nat
  <2>1. Kept(1)
    BY <1>1, <1>3
  <2>2. 1 + off[0] = 1 /\ off[n] \in Nat /\ Len(t) >= 1
    <3>1. off[n] \in Nat
      BY <1>1, <1>2a
    <3> HIDE DEF n
    <3> QED BY <1>2, <3>1
  <2>3. \A j \in 1 .. 1 : j = 1
    OBVIOUS
  <2> HIDE DEF Kept
  <2> QED BY <1>1, <1>5, <2>1, <2>2, <2>3
<1>7. ASSUME NEW k \in 0 .. n - 1, k \in T PROVE k + 1 \in T
  <2>1. k + 1 \in 1 .. n /\ (k + 1) - 1 = k /\ k \in 0 .. n /\ k + 1 \in 0 .. n
    BY <1>1
  <2> DEFINE e == Escaped(word, k + 1)
             o == off[k]
             st == read[1 + o]
  <2>2. /\ e \in Seq(S)
        /\ Len(e) = 1 => Within(S, word, k + 1, args, ArgvStep(st, e[1]))
        /\ Len(e) = 2 => /\ e[2] # Blank
                         /\ Within(S, word, k + 1, args, ArgvStep(ArgvStep(st, e[1]), e[2]))
        /\ Len(e) \in {1, 2}
    BY <1>1, <1>7, WithinStep
  <2>3. st.quotes = 1 /\ o \in Nat /\ 1 + o <= Len(t) /\ \A j \in 1 .. 1 + o : Kept(j)
    BY <1>7, <2>1 DEF Within
  <2>4. off[k + 1] = o + Len(e) /\ \A j \in 1 .. Len(e) : t[1 + (o + j)] = e[j]
    BY <1>2, <2>1
  <2>5. 1 + (o + Len(e)) <= Len(t)
    <3> DEFINE V == {i \in 0 .. n : off[i] <= off[n]}
    <3>1. n \in V /\ 0 \in Nat /\ n \in Nat
      <4>1. off[n] \in Nat
        BY <1>1, <1>2a
      <4> QED BY <1>1, <4>1
    <3>2. ASSUME NEW i \in 0 .. n - 1, i + 1 \in V PROVE i \in V
      <4>1. i + 1 \in 1 .. n /\ (i + 1) - 1 = i /\ i \in 0 .. n /\ i + 1 \in 0 .. n
        BY <1>1
      <4> DEFINE x == Len(Escaped(word, i + 1))
      <4>2. x \in Nat /\ off[i + 1] = off[i] + x
        <5>1. Escaped(word, i + 1) \in Seq(S)
          BY <1>1, <4>1, EscapedType
        <5> QED BY <1>2, <4>1, <5>1
      <4> HIDE DEF x
      <4>3. off[i] \in Nat /\ off[i + 1] \in Nat /\ off[n] \in Nat /\ off[i + 1] <= off[n]
        BY <1>1, <1>2a, <3>2, <4>1
      <4>4. off[i] <= off[n]
        BY <4>2, <4>3
      <4> QED BY <4>1, <4>4
    <3> HIDE DEF V
    <3>3. k + 1 \in V
      BY <2>1, <3>1, <3>2, Downwards
    <3>4. off[k + 1] \in Nat /\ off[n] \in Nat /\ off[k + 1] <= off[n]
      <4>1. off[k + 1] \in Nat /\ off[n] \in Nat
        BY <1>1, <1>2a, <2>1
      <4> QED BY <3>3, <4>1 DEF V
    <3> HIDE DEF o, e
    <3> QED BY <1>2, <2>4, <3>4
  <2>6. CASE Len(e) = 1
    <3>1. /\ 1 + (o + 1) \in 1 .. Len(t) /\ (1 + (o + 1)) - 1 = 1 + o
          /\ \A j \in 1 .. 1 + (o + 1) : j \in 1 .. 1 + o \/ j = 1 + (o + 1)
      <4> HIDE DEF o, e
      <4> QED BY <2>3, <2>5, <2>6
    <3>2. t[1 + (o + 1)] = e[1]
      BY <2>4, <2>6
    <3>3. read[1 + (o + 1)] = ArgvStep(st, e[1])
      <4> HIDE DEF o, e
      <4> QED BY <1>4, <3>1, <3>2
    <3>4. Kept(1 + (o + 1))
      <4> HIDE DEF o
      <4> QED BY <2>3, <3>1
    <3>5. /\ off[k + 1] = o + 1 /\ Within(S, word, k + 1, args, read[1 + (o + 1)])
          /\ 1 + (o + 1) <= Len(t)
      <4> HIDE DEF o, e, st
      <4> QED BY <2>2, <2>4, <2>5, <2>6, <3>3
    <3> HIDE DEF o, e, st, Kept
    <3> QED BY <2>1, <2>3, <3>1, <3>4, <3>5
  <2>7. CASE Len(e) = 2
    <3>1. /\ 1 + (o + 1) \in 1 .. Len(t) /\ (1 + (o + 1)) - 1 = 1 + o
          /\ 1 + (o + 2) \in 1 .. Len(t) /\ (1 + (o + 2)) - 1 = 1 + (o + 1)
          /\ \A j \in 1 .. 1 + (o + 2) : j \in 1 .. 1 + o \/ j = 1 + (o + 1) \/ j = 1 + (o + 2)
      <4> DEFINE l == Len(t)
      <4>1. o \in Nat /\ l \in Nat /\ 1 + (o + 2) <= l
        <5> HIDE DEF o, e
        <5> QED BY <2>3, <2>5, <2>7, <1>3
      <4> HIDE DEF o, l
      <4>2. /\ 1 + (o + 1) \in 1 .. l /\ (1 + (o + 1)) - 1 = 1 + o
            /\ 1 + (o + 2) \in 1 .. l /\ (1 + (o + 2)) - 1 = 1 + (o + 1)
        BY <4>1
      <4>3. \A j \in 1 .. 1 + (o + 2) : j \in 1 .. 1 + o \/ j = 1 + (o + 1) \/ j = 1 + (o + 2)
        BY <4>1
      <4> QED BY <4>2, <4>3 DEF l
    <3>2. t[1 + (o + 1)] = e[1] /\ t[1 + (o + 2)] = e[2]
      <4> HIDE DEF o, e
      <4> QED BY <2>4, <2>7
    <3>3. /\ read[1 + (o + 1)] = ArgvStep(st, e[1])
          /\ read[1 + (o + 2)] = ArgvStep(ArgvStep(st, e[1]), e[2])
      <4>1. read[1 + (o + 1)] = ArgvStep(st, e[1])
        <5> HIDE DEF o, e
        <5> QED BY <1>4, <3>1, <3>2
      <4>2. read[1 + (o + 2)] = ArgvStep(read[1 + (o + 1)], e[2])
        <5> HIDE DEF o, e
        <5> QED BY <1>4, <3>1, <3>2
      <4> QED BY <4>1, <4>2
    <3>4. Kept(1 + (o + 1)) /\ Kept(1 + (o + 2))
      <4>1. Kept(1 + (o + 1))
        <5> HIDE DEF o
        <5> QED BY <2>3, <3>1
      <4>2. t[1 + (o + 2)] # Blank
        BY <2>2, <2>7, <3>2
      <4> QED BY <4>1, <4>2
    <3>5. /\ off[k + 1] = o + 2 /\ Within(S, word, k + 1, args, read[1 + (o + 2)])
          /\ 1 + (o + 2) <= Len(t)
      <4> HIDE DEF o, e, st
      <4> QED BY <2>2, <2>4, <2>5, <2>7, <3>3
    <3> HIDE DEF o, e, st, Kept
    <3> QED BY <2>1, <2>3, <3>1, <3>4, <3>5
  <2> QED BY <2>2, <2>6, <2>7
<1> HIDE DEF T
<1>8. n \in T
  <2>1. \A k \in 0 .. n : k \in T
    BY <1>1, <1>6, <1>7, Upwards
  <2> QED BY <1>1, <2>1
<1> DEFINE st == read[1 + off[n]]
<1>9. /\ Within(S, word, n, args, st) /\ off[n] \in Nat
      /\ \A j \in 1 .. 1 + off[n] : Kept(j)
  BY <1>1, <1>8 DEF T
<1>10. read[Len(t)] = ArgvStep(st, Quote)
  <2>1. off[n] + 2 \in 1 .. Len(t) /\ (off[n] + 2) - 1 = 1 + off[n]
    BY <1>2, <1>9
  <2> QED BY <1>2, <1>4, <2>1
<1>11. PICK r \in Nat :
           /\ st.backslashes = r + r /\ (st.inRun => r = 0)
           /\ Len(st.out) = n + r
           /\ \A j \in 1 .. n : st.out[j] = word[j]
  <2>1. ToQuote(word, n)
    <3>1. n + 1 \in n + 1 .. n + 1 /\ \A i \in n + 1 .. (n + 1) - 1 : FALSE
      BY <1>1
    <3> QED BY <3>1 DEF ToQuote
  <2> HIDE DEF st, n
  <2> QED BY <1>9, <2>1 DEF Within
<1>12. /\ st \in ArgvStates(S) /\ st.args = args /\ st.quotes = 1 /\ st.out \in Seq(S)
       /\ st.inRun \in BOOLEAN
  BY <1>9 DEF Within, ArgvStates
<1> DEFINE next == ArgvStep(st, Quote)
<1> HIDE DEF st
<1>13. /\ next.args = args /\ next.open = TRUE /\ next.quotes = 2
       /\ next.out = IF st.inRun THEN st.out ELSE Dropped(st.out, r)
  <2>1. st.backslashes % 2 = 0 /\ st.backslashes \div 2 = r /\ Settled(st.quotes) + 1 = 2
        /\ (st.quotes + 1) % 3 = 2 /\ st.quotes # 2
    BY <1>11, <1>12 DEF Settled
  <2>2. next.args = st.args /\ next.open = TRUE
    BY <1>12, ArgvQuoteFacts
  <2>3. CASE st.inRun
    <3>1. next.quotes = (st.quotes + 1) % 3 /\ next.out = st.out
      BY <1>12, <2>1, <2>3, ArgvQuoteFacts
    <3> QED BY <1>12, <2>1, <2>2, <2>3, <3>1
  <2>4. CASE ~st.inRun
    <3>1. /\ next.quotes = Settled(st.quotes) + 1
          /\ next.out = Dropped(st.out, st.backslashes \div 2)
      BY <1>12, <2>1, <2>4, ArgvQuoteFacts
    <3> HIDE DEF next
    <3> QED BY <1>12, <2>1, <2>2, <2>4, <3>1
  <2> QED BY <2>3, <2>4
<1>14. next.out = word
  <2>1. CASE st.inRun
    <3>1. next.out = st.out /\ Len(st.out) = n
      BY <1>1, <1>11, <1>13, <2>1
    <3> QED BY <1>11, <1>12, <3>1, SeqEqual
  <2>2. CASE ~st.inRun
    <3> DEFINE d == Dropped(st.out, r)
    <3>1. r <= Len(st.out) /\ Len(st.out) - r = n
      BY <1>1, <1>11
    <3>2. d \in Seq(S) /\ Len(d) = n /\ \A j \in 1 .. n : d[j] = st.out[j]
      <4> DEFINE o == st.out
      <4>1. o \in Seq(S) /\ r \in Nat /\ r <= Len(o) /\ Len(o) - r = n
        BY <1>11, <1>12, <3>1
      <4> HIDE DEF n, o
      <4>2. /\ Dropped(o, r) \in Seq(S)
            /\ r <= Len(o) => /\ Len(Dropped(o, r)) = Len(o) - r
                              /\ \A j \in 1 .. Len(o) - r : Dropped(o, r)[j] = o[j]
        BY <4>1, DroppedFacts
      <4>3. d = Dropped(o, r)
        BY DEF o
      <4> HIDE DEF d
      <4>4. d \in Seq(S) /\ Len(d) = n /\ \A j \in 1 .. n : d[j] = o[j]
        BY <4>1, <4>2, <4>3
      <4> QED BY <4>4 DEF o
    <3> HIDE DEF d
    <3>3. d = word
      BY <1>11, <3>2, SeqEqual
    <3> QED BY <1>13, <2>2, <3>3 DEF d
  <2> QED BY <1>12, <2>1, <2>2
<1>15. \A j \in 1 .. Len(t) : t[j] = Blank => read[j - 1].quotes = 1
  <2>1. \A j \in 1 .. Len(t) : j \in 1 .. 1 + off[n] \/ j = off[n] + 2
    BY <1>2, <1>9
  <2>2. t[off[n] + 2] # Blank
    BY <1>1, <1>2
  <2> QED BY <1>9, <2>1, <2>2
<1> HIDE DEF next
<1>16. read[Len(t)] = next
  BY <1>10 DEF next
<1> QED BY <1>13, <1>14, <1>15, <1>16 DEF ReadAs, t

\* A text that QuoteWord makes is not empty, does not begin with a blank, and is read
\* as the word.
LEMMA QuoteWordReads ==
    ASSUME NEW S, {Blank, Quote, Backslash} \subseteq S, NEW word \in Seq(S),
           NEW args \in Seq(Seq(S)), NEW read, read[0] = Starting(args),
           \A j \in 1 .. Len(QuoteWord(word)) :
               read[j] = ArgvStep(read[j - 1], QuoteWord(word)[j])
    PROVE  ReadAs(QuoteWord(word), word, args, read)
<1>1. CASE NeedsQuotes(word)
  BY <1>1, QuotedReads
<1>2. CASE ~NeedsQuotes(word)
  <2>1. QuoteWord(word) = word
    BY <1>2 DEF QuoteWord
  <2> QED BY <1>2, <2>1, PlainReads
<1> QED BY <1>1, <1>2

\* What QuoteWord returns is not empty and begins with no blank.
LEMMA QuoteWordBegins ==
    ASSUME NEW S, {Blank, Quote, Backslash} \subseteq S, NEW word \in Seq(S)
    PROVE  QuoteWord(word) \in Seq(S) /\ QuoteWord(word) # <<>> /\ QuoteWord(word)[1] # Blank
<1>1. CASE NeedsQuotes(word)
  <2>1. /\ QuoteWord(word) \in Seq(S) /\ QuoteWord(word)[1] = Quote
        /\ \E off \in [0 .. Len(word) -> Nat] : QuotedBy(word, off)
    BY <1>1, QuotedForm
  <2>2. Len(QuoteWord(word)) # 0
    <3>1. PICK off \in [0 .. Len(word) -> Nat] : QuotedBy(word, off)
      BY <2>1
    <3>2. off[Len(word)] \in Nat
      OBVIOUS
    <3> QED BY <3>1, <3>2 DEF QuotedBy
  <2> QED BY <2>1, <2>2, CharsAssumption
<1>2. CASE ~NeedsQuotes(word)
  <2>1. QuoteWord(word) = word
    BY <1>2 DEF QuoteWord
  <2> QED BY <1>2, <2>1 DEF NeedsQuotes
<1> QED BY <1>1, <1>2

\* How Windows reads the arguments of a line: the breaks are the blanks outside
\* quotes; there it puts away the argument it was reading, and everywhere else it is
\* reading one.
Reading(S, l, a, breaks, at) ==
    /\ a \in 0 .. Len(l) /\ breaks \in SUBSET (a .. Len(l) - 1)
    /\ at[a] = Starting(<<>>)
    /\ \A i \in a .. Len(l) : at[i] \in ArgvStates(S)
    /\ \A i \in a .. Len(l) - 1 :
           /\ at[i + 1] = ArgvStep(at[i], l[i + 1])
           /\ i \in breaks <=> l[i + 1] = Blank /\ at[i].quotes # 1
           /\ i \in breaks =>
                  at[i + 1] = Starting(IF at[i].open THEN Append(at[i].args, at[i].out)
                                                     ELSE at[i].args)
           /\ i \notin breaks => at[i + 1].args = at[i].args /\ at[i + 1].open = TRUE

\* The arguments of any line are read in this way.
LEMMA ArgumentsReading ==
    ASSUME NEW S, {Blank, Quote, Backslash} \subseteq S, NEW l \in Seq(S)
    PROVE  Reading(S, l, ArgumentsBegin(l), Breaks(l, ArgumentsBegin(l)), ArgvAt(l))
<1> DEFINE n == Len(l)
           a == ArgumentsBegin(l)
           breaks == Breaks(l, a)
           at == ArgvAt(l)
           scan == Scan(l, a)
<1>1. n \in Nat /\ a \in 0 .. n /\ \A i \in 1 .. n : l[i] \in S
  BY ExecutableEndFacts, ArgumentsBeginFacts
<1>2. /\ at[a] = ArgvBegin
      /\ \A i \in a .. n : at[i] \in ArgvStates(S) /\ scan[i] = Scanning(at[i])
      /\ \A i \in a + 1 .. n : at[i] = ArgvStep(at[i - 1], l[i])
  BY ScannersAgree
<1>3. breaks = {i \in a .. n - 1 : l[i + 1] = Blank /\ Settled(scan[i].quotes) = 0}
  BY DEF Breaks, IsBlankAt
<1> HIDE DEF n, a, breaks, at, scan
<1>4. ASSUME NEW i \in a .. n - 1
      PROVE  /\ at[i + 1] = ArgvStep(at[i], l[i + 1])
             /\ i \in breaks <=> l[i + 1] = Blank /\ at[i].quotes # 1
             /\ i \in breaks =>
                    at[i + 1] = Starting(IF at[i].open THEN Append(at[i].args, at[i].out)
                                                       ELSE at[i].args)
             /\ i \notin breaks => at[i + 1].args = at[i].args /\ at[i + 1].open = TRUE
  <2>1. i + 1 \in a + 1 .. n /\ (i + 1) - 1 = i /\ i \in a .. n /\ i + 1 \in 1 .. n
    BY <1>1
  <2> DEFINE st == at[i]
             c == l[i + 1]
  <2>2. at[i + 1] = ArgvStep(st, c)
    BY <1>2, <2>1
  <2>3. st \in ArgvStates(S) /\ c \in S /\ scan[i] = Scanning(st)
    BY <1>1, <1>2, <2>1
  <2>4. i \in breaks <=> c = Blank /\ Settled(scan[i].quotes) = 0
    BY <1>3
  <2> HIDE DEF st, c
  <2>5. st.quotes \in 0 .. 2 /\ scan[i].quotes = st.quotes
    BY <2>3 DEF ArgvStates, Scanning
  <2>6. i \in breaks <=> c = Blank /\ st.quotes # 1
    BY <2>4, <2>5 DEF Settled
  <2>7. i \in breaks =>
            ArgvStep(st, c) = Starting(IF st.open THEN Append(st.args, st.out) ELSE st.args)
    BY <2>3, <2>6, ArgvBlankFacts DEF Starting
  <2>8. i \notin breaks => ArgvStep(st, c).args = st.args /\ ArgvStep(st, c).open = TRUE
    <3>1. CASE c = Quote
      BY <2>3, <3>1, ArgvQuoteFacts
    <3>2. CASE c # Quote /\ i \notin breaks
      <4>1. ArgvStep(st, c) =
                [args |-> st.args, open |-> TRUE, out |-> Append(st.out, c),
                 quotes |-> Settled(st.quotes),
                 backslashes |-> IF c = Backslash THEN st.backslashes + 1 ELSE 0,
                 inRun |-> FALSE]
        BY <2>3, <2>6, <3>2, ArgvOtherFacts
      <4> QED BY <4>1
    <3> QED BY <3>1, <3>2
  <2> QED BY <2>2, <2>6, <2>7, <2>8 DEF st, c
<1>5. at[a] = Starting(<<>>) /\ breaks \in SUBSET (a .. n - 1)
  BY <1>2, <1>3 DEF ArgvBegin, Starting
<1>6. \A i \in a .. n : at[i] \in ArgvStates(S)
  BY <1>2
<1>7. Reading(S, l, a, breaks, at)
  BY <1>1, <1>4, <1>5, <1>6 DEF Reading, n
<1> QED BY <1>7 DEF a, breaks, at

\* A text stands in a line from b to e, up to a blank or the end of the line.
StandsAt(l, b, e, text) ==
    /\ e = b + Len(text) /\ e <= Len(l)
    /\ e = Len(l) \/ l[e + 1] = Blank
    /\ \A j \in 1 .. Len(text) : l[b + j] = text[j]

\* What Windows reads from b to e is one argument, the word; a blank would end it.
ReadThere(at, b, e, word) ==
    /\ at[e].args = at[b].args /\ at[e].open = TRUE
    /\ at[e].out = word /\ at[e].quotes # 1

\* Where a quoted word stands at the beginning of an argument, up to a blank or the
\* end of the line, it is one argument, and Windows reads it as the word.
LEMMA QuotedArgument ==
    ASSUME NEW S, {Blank, Quote, Backslash} \subseteq S, NEW l \in Seq(S),
           NEW word \in Seq(S), NEW a, NEW breaks, NEW at, Reading(S, l, a, breaks, at),
           NEW b \in a .. Len(l), b = a \/ b - 1 \in breaks,
           NEW e, StandsAt(l, b, e, QuoteWord(word))
    PROVE  /\ Word(b, e) \in Separated(l, a, breaks)
           /\ \A i \in b .. e - 1 : i \notin breaks
           /\ ReadThere(at, b, e, word)
<1> DEFINE n == Len(l)
           t == QuoteWord(word)
           m == Len(t)
           read == [j \in 0 .. m |-> at[b + j]]
<1>1. /\ n \in Nat /\ a \in 0 .. n /\ breaks \in SUBSET (a .. n - 1)
      /\ at[a] = Starting(<<>>)
      /\ \A i \in a .. n : at[i] \in ArgvStates(S)
      /\ \A i \in a .. n - 1 :
             /\ at[i + 1] = ArgvStep(at[i], l[i + 1])
             /\ i \in breaks <=> l[i + 1] = Blank /\ at[i].quotes # 1
             /\ i \in breaks =>
                    at[i + 1] = Starting(IF at[i].open THEN Append(at[i].args, at[i].out)
                                                       ELSE at[i].args)
  <2>1. n \in Nat
    OBVIOUS
  <2> QED BY <2>1 DEF Reading
<1>2. t \in Seq(S) /\ m \in Nat /\ m > 0
  <2>1. t \in Seq(S) /\ t # <<>>
    BY QuoteWordBegins
  <2> HIDE DEF t
  <2> QED BY <2>1
<1>3. /\ b \in Nat /\ e \in Nat /\ e = b + m /\ b < e /\ e <= n /\ a <= b
      /\ e = n \/ l[e + 1] = Blank
      /\ \A j \in 1 .. m : l[b + j] = t[j]
  <2>1. /\ e = b + m /\ e <= n
        /\ e = n \/ l[e + 1] = Blank
        /\ \A j \in 1 .. m : l[b + j] = t[j]
    BY DEF StandsAt
  <2>2. b \in a .. n
    OBVIOUS
  <2> HIDE DEF n, m, t
  <2>3. b \in Nat /\ a <= b
    BY <1>1, <2>2
  <2>4. e \in Nat /\ b < e
    BY <1>2, <2>1, <2>3
  <2> QED BY <2>1, <2>3, <2>4
<1>4. at[b].args \in Seq(Seq(S)) /\ at[b] = Starting(at[b].args)
  <2>1. \E args : at[b] = Starting(args)
    <3>1. CASE b = a
      BY <1>1, <3>1
    <3>2. CASE b - 1 \in breaks
      <4>1. b - 1 \in a .. n - 1 /\ (b - 1) + 1 = b
        BY <1>1, <1>3, <3>2
      <4> QED BY <1>1, <3>2, <4>1
    <3> QED BY <3>1, <3>2
  <2>2. at[b] \in ArgvStates(S)
    BY <1>1, <1>3
  <2> QED BY <2>1, <2>2 DEF Starting, ArgvStates
<1>5. ReadAs(t, word, at[b].args, read)
  <2>1. read[0] = Starting(at[b].args)
    <3>1. b + 0 = b /\ 0 \in 0 .. m
      BY <1>2, <1>3
    <3> QED BY <1>4, <3>1
  <2>2. ASSUME NEW j \in 1 .. m PROVE read[j] = ArgvStep(read[j - 1], t[j])
    <3>1. /\ j \in 0 .. m /\ j - 1 \in 0 .. m /\ b + (j - 1) \in a .. n - 1
          /\ (b + (j - 1)) + 1 = b + j
      BY <1>1, <1>2, <1>3
    <3> HIDE DEF m
    <3> QED BY <1>1, <1>3, <3>1
  <2> HIDE DEF read
  <2> QED BY <1>4, <2>1, <2>2, QuoteWordReads
<1> HIDE DEF t, read
<1>6. /\ read[m] = at[e] /\ \A j \in 1 .. m : read[j - 1] = at[b + (j - 1)]
      /\ read[m].args = at[b].args /\ read[m].open = TRUE
      /\ read[m].out = word /\ read[m].quotes # 1
      /\ \A j \in 1 .. m : t[j] = Blank => read[j - 1].quotes = 1
  <2>1. /\ read[m] = at[e] /\ \A j \in 1 .. m : read[j - 1] = at[b + (j - 1)]
    BY <1>2, <1>3 DEF read
  <2> QED BY <1>5, <2>1 DEF ReadAs
<1> HIDE DEF m, n
<1>7. /\ at[e].args = at[b].args /\ at[e].open = TRUE /\ at[e].out = word /\ at[e].quotes # 1
      /\ \A j \in 1 .. m : t[j] = Blank => at[b + (j - 1)].quotes = 1
  <2>1. read[m] = at[e]
    BY <1>6
  <2>2. /\ read[m].args = at[b].args /\ read[m].open = TRUE
        /\ read[m].out = word /\ read[m].quotes # 1
    BY <1>6
  <2>3. ASSUME NEW j \in 1 .. m, t[j] = Blank PROVE at[b + (j - 1)].quotes = 1
    BY <1>6, <2>3
  <2> QED BY <2>1, <2>2, <2>3
<1>8. ASSUME NEW i \in b .. e - 1 PROVE i \notin breaks
  <2> DEFINE j == (i - b) + 1
  <2>1. j \in 1 .. m /\ b + (j - 1) = i /\ b + j = i + 1 /\ i \in a .. n - 1
    BY <1>1, <1>2, <1>3
  <2> HIDE DEF j
  <2>2. l[i + 1] = t[j] /\ (t[j] = Blank => at[i].quotes = 1)
    BY <1>3, <1>7, <2>1
  <2> QED BY <1>1, <2>1, <2>2
<1>9. e = n \/ e \in breaks
  <2>1. CASE e # n
    <3>1. e \in a .. n - 1 /\ l[e + 1] = Blank
      BY <1>1, <1>3, <2>1 DEF n
    <3> QED BY <1>1, <1>7, <3>1
  <2> QED BY <2>1
<1> DEFINE Until(c) == FirstFrom(l, c, LAMBDA i : i \in breaks)
           starts == {c \in a .. n - 1 : c \notin breaks /\ (c = a \/ c - 1 \in breaks)}
           w == Word(b, Until(b))
<1>10. w \in Separated(l, a, breaks)
  <2>1. Separated(l, a, breaks) = {Word(c, Until(c)) : c \in starts}
    BY DEF Separated, n
  <2>2. b \in starts
    <3>1. b \in a .. n - 1 /\ b \in b .. e - 1
      BY <1>1, <1>3
    <3> QED BY <1>8, <3>1
  <2> HIDE DEF starts, Until
  <2> QED BY <2>1, <2>2
<1> HIDE DEF Until, starts
<1>11. w.begin = b
  BY DEF Word
<1> HIDE DEF w
<1>12. /\ w = Word(w.begin, w.end) /\ w.end \in w.begin + 1 .. n
       /\ w.end = n \/ w.end \in breaks
       /\ \A i \in w.begin .. w.end - 1 : i \notin breaks
  BY <1>1, <1>10, SeparatedFacts DEF n
<1>13. w.end = e
  <2>1. CASE w.end < e
    <3>1. w.end \in b .. e - 1 /\ w.end # n
      BY <1>3, <1>11, <1>12, <2>1, <1>1
    <3> QED BY <1>8, <1>12, <3>1
  <2>2. CASE w.end > e
    <3>1. e \in w.begin .. w.end - 1 /\ e # n
      BY <1>3, <1>11, <1>12, <2>2, <1>1
    <3> QED BY <1>9, <1>12, <3>1
  <2> QED BY <1>1, <1>3, <1>11, <1>12, <2>1, <2>2
<1> QED BY <1>7, <1>8, <1>10, <1>11, <1>12, <1>13 DEF ReadThere

\* A word of a line that reaches up to a blank or to the end of the line, and that no
\* other touches or begins in, is the word for the cursor at its end.
LEMMA StandingWord ==
    ASSUME NEW S, {Blank, Quote, Backslash} \subseteq S, NEW l \in Seq(S),
           NEW b \in 0 .. Len(l), NEW e \in b + 1 .. Len(l), Word(b, e) \in ParsedWords(l),
           e = Len(l) \/ l[e + 1] = Blank,
           \A u \in ParsedWords(l) : ~(u.begin < b /\ u.end = b),
           \A u \in ParsedWords(l) : u.begin <= e => u.begin <= b
    PROVE  Word(b, e) \in Words(l) /\ WordAt(l, e) = Word(b, e)
<1> DEFINE ws == ParsedWords(l)
           w == Word(b, e)
           Merged(x) == \E u \in ws : Attached(l, u, x)
           Whole(x) == IF \E v \in ws : Attached(l, x, v)
                       THEN Word(x.begin, (CHOOSE v \in ws : Attached(l, x, v)).end)
                       ELSE x
           whole == {Whole(x) : x \in {v \in ws : ~Merged(v)}}
<1>1. Words(l) = whole \cup TrailingWord(l, ws)
  BY DEF Words, Joined
<1>2. w.begin = b /\ w.end = e /\ Len(l) \in Nat /\ b \in Nat /\ e \in Nat /\ b < e /\ e <= Len(l)
  BY DEF Word
<1>3. /\ \A u \in ws : IsPartOf(l, u)
      /\ \A u \in ws : ~(u.begin < b /\ u.end = b)
      /\ \A u \in ws : u.begin <= e => u.begin <= b
  BY ParsedWordsFacts DEF Divides
<1>4. w \in ws
  OBVIOUS
<1> HIDE DEF ws, w
<1>5. ~Merged(w) /\ ~ \E v \in ws : Attached(l, w, v)
  <2>1. ASSUME NEW v \in ws, Attached(l, w, v) PROVE FALSE
    <3>1. v.begin = e /\ v.begin < v.end /\ l[v.begin + 1] = Backslash
      BY <1>2, <2>1 DEF Attached
    <3>2. v.end <= Len(l) /\ v.end \in Nat /\ v.begin \in Nat
      BY <1>2, <1>3 DEF IsPartOf
    <3>3. e < Len(l)
      BY <1>2, <3>1, <3>2
    <3> QED BY <3>1, <3>3, CharsAssumption
  <2>2. ASSUME NEW u \in ws, Attached(l, u, w) PROVE FALSE
    BY <1>2, <1>3, <2>2 DEF Attached
  <2> QED BY <2>1, <2>2
<1>6. w \in Words(l)
  <2>1. w \in {v \in ws : ~Merged(v)}
    BY <1>4, <1>5
  <2>2. Whole(w) = w
    BY <1>5
  <2>3. w \in whole
    <3> HIDE DEF Merged, Whole
    <3> QED BY <2>1, <2>2
  <2> QED BY <1>1, <2>3
<1>7. ASSUME NEW v \in Words(l), v.begin <= e PROVE v.begin <= b
  <2>1. CASE v \in whole
    <3>1. PICK x \in ws : v = Whole(x)
      BY <2>1
    <3>2. v.begin = x.begin
      BY <3>1 DEF Word
    <3> HIDE DEF Whole
    <3> QED BY <1>3, <1>7, <3>2
  <2>2. CASE v \in TrailingWord(l, ws)
    <3>1. v = Word(Len(l), Len(l)) /\ \A x \in ws : x.end < Len(l)
      BY <2>2 DEF TrailingWord
    <3>2. v.begin = Len(l) /\ e < Len(l)
      BY <1>2, <1>4, <3>1 DEF Word
    <3> QED BY <1>2, <1>7, <3>2
  <2> QED BY <1>1, <2>1, <2>2
<1>8. /\ e \in 0 .. Len(l) /\ WordAt(l, e) \in Words(l) /\ WordAt(l, e).begin <= e
      /\ \A v \in Words(l) : v.begin <= e => v.begin <= WordAt(l, e).begin
  <2>1. e \in 0 .. Len(l)
    BY <1>2
  <2> QED BY <2>1, WordAtFacts
<1>9. /\ \A u, v \in Words(l) : u.begin = v.begin => u = v
      /\ \A u \in Words(l) : u.begin \in Nat
  BY WordsFacts DEF Divides, IsPartOf
<1> DEFINE x == WordAt(l, e)
<1> HIDE DEF x
<1>10. x.begin = b
  <2>1. x \in Words(l) /\ x.begin <= e /\ x.begin \in Nat
    BY <1>8, <1>9 DEF x
  <2>2. x.begin <= b
    BY <1>7, <2>1
  <2>3. w.begin <= x.begin
    BY <1>2, <1>6, <1>8 DEF x
  <2> QED BY <1>2, <2>1, <2>2, <2>3
<1>11. x = w
  BY <1>2, <1>6, <1>8, <1>9, <1>10 DEF x
<1> QED BY <1>6, <1>11 DEF x, w

\* Where the executable's name ends.
LEMMA NameEnds ==
    ASSUME NEW S, NEW l \in Seq(S), l # <<>>, NEW x \in 0 .. Len(l),
           IF l[1] = Quote
           THEN /\ x >= 2 /\ l[x] = Quote
                /\ \A i \in 2 .. x - 1 : l[i] # Quote
           ELSE /\ x = Len(l) \/ l[x + 1] = Blank
                /\ \A i \in 1 .. x : l[i] # Blank
    PROVE  ExecutableEnd(l) = x
<1> DEFINE n == Len(l)
<1>1. n \in Nat /\ n >= 1 /\ x \in Int
  OBVIOUS
<1>2. CASE l[1] = Quote
  <2> DEFINE Stop(e) == /\ e = n \/ (e > 1 /\ l[e] = Quote)
                        /\ \A i \in 1 .. e - 1 : ~(i > 1 /\ l[i] = Quote)
  <2>1. ExecutableEnd(l) = CHOOSE e \in 1 .. n : Stop(e)
    BY <1>2 DEF ExecutableEnd, FirstFrom
  <2>2. x \in 1 .. n /\ Stop(x)
    BY <1>1, <1>2
  <2>3. ASSUME NEW e \in 1 .. n, Stop(e) PROVE e = x
    <3>1. CASE e < x
      BY <1>1, <1>2, <2>3, <3>1
    <3>2. CASE e > x
      BY <1>1, <1>2, <2>3, <3>2
    <3> QED BY <1>1, <3>1, <3>2
  <2> HIDE DEF Stop
  <2> QED BY <2>1, <2>2, <2>3
<1>3. CASE l[1] # Quote
  <2> DEFINE Stop(e) == /\ e = n \/ IsBlankAt(l, e)
                        /\ \A i \in 0 .. e - 1 : ~IsBlankAt(l, i)
  <2>1. ExecutableEnd(l) = CHOOSE e \in 0 .. n : Stop(e)
    BY <1>3 DEF ExecutableEnd, FirstFrom
  <2>2. Stop(x)
    <3>1. \A i \in 0 .. x - 1 : i + 1 \in 1 .. x
      BY <1>1
    <3> QED BY <1>3, <3>1 DEF IsBlankAt
  <2>3. ASSUME NEW e \in 0 .. n, Stop(e) PROVE e = x
    <3>1. CASE e < x
      <4>1. e \in 0 .. x - 1 /\ e # n
        BY <1>1, <3>1
      <4> QED BY <2>2, <2>3, <4>1
    <3>2. CASE e > x
      <4>1. x \in 0 .. e - 1 /\ x # n
        BY <1>1, <3>2
      <4> QED BY <2>2, <2>3, <4>1
    <3> QED BY <1>1, <3>1, <3>2
  <2> HIDE DEF Stop
  <2> QED BY <2>1, <2>2, <2>3
<1> QED BY <1>2, <1>3

\* Where the arguments begin.
LEMMA ArgumentsBeginAt ==
    ASSUME NEW S, NEW l \in Seq(S), NEW a \in ExecutableEnd(l) .. Len(l),
           \A i \in ExecutableEnd(l) .. a - 1 : l[i + 1] = Blank,
           a = Len(l) \/ l[a + 1] # Blank
    PROVE  ArgumentsBegin(l) = a
<1> DEFINE c == ArgumentsBegin(l)
           x == ExecutableEnd(l)
<1>1. /\ x \in 0 .. Len(l) /\ c \in x .. Len(l) /\ Len(l) \in Nat
      /\ c < Len(l) => l[c + 1] # Blank
      /\ \A i \in x .. c - 1 : l[i + 1] = Blank
  BY ExecutableEndFacts, ArgumentsBeginFacts DEF IsBlankAt
<1> HIDE DEF c, x
<1>2. a \in x .. Len(l) /\ \A i \in x .. a - 1 : l[i + 1] = Blank
  BY DEF x
<1>3. CASE c < a
  <2>1. c \in x .. a - 1 /\ c < Len(l)
    BY <1>1, <1>2, <1>3
  <2> QED BY <1>1, <1>2, <2>1
<1>4. CASE c > a
  <2>1. a \in x .. c - 1 /\ a # Len(l)
    BY <1>1, <1>2, <1>4
  <2> QED BY <1>1, <2>1
<1>5. c = a
  BY <1>1, <1>2, <1>3, <1>4
<1> QED BY <1>5 DEF c

\* What a line is that begins with another's characters up to a blank behind its name:
\* its name and the blanks behind it are the same.
LEMMA SameBeginning ==
    ASSUME NEW S, {Blank, Quote, Backslash} \subseteq S, NEW l \in Seq(S),
           NEW k \in Seq(S), NEW b \in 1 .. Len(l), b < Len(k), l[b] = Blank,
           \A i \in 1 .. b : k[i] = l[i],
           ExecutableEnd(l) < Len(l), ArgumentsBegin(l) <= b,
           b = ArgumentsBegin(l) => k[b + 1] # Blank
    PROVE  /\ ExecutableEnd(k) = ExecutableEnd(l) /\ ExecutableEnd(l) < b
           /\ ArgumentsBegin(k) = ArgumentsBegin(l)
<1> DEFINE x == ExecutableEnd(l)
           a == ArgumentsBegin(l)
<1>1. /\ x \in 0 .. Len(l) /\ a \in x .. Len(l) /\ Len(l) \in Nat /\ Len(k) \in Nat
      /\ a < Len(l) => l[a + 1] # Blank
      /\ \A i \in x .. a - 1 : l[i + 1] = Blank
      /\ l # <<>> /\ k # <<>> /\ k[1] = l[1] /\ x < Len(l) /\ a <= b
  BY ExecutableEndFacts, ArgumentsBeginFacts DEF IsBlankAt
<1>2. /\ x < b
      /\ IF l[1] = Quote
         THEN /\ x >= 2 /\ l[x] = Quote
              /\ \A i \in 2 .. x - 1 : l[i] # Quote
         ELSE /\ l[x + 1] = Blank
              /\ \A i \in 1 .. x : l[i] # Blank
  <2>1. CASE l[1] = Quote
    <3> DEFINE Stop(e) == /\ e = Len(l) \/ (e > 1 /\ l[e] = Quote)
                          /\ \A i \in 1 .. e - 1 : ~(i > 1 /\ l[i] = Quote)
    <3>1. x = CHOOSE e \in 1 .. Len(l) : Stop(e)
      BY <1>1, <2>1 DEF ExecutableEnd, FirstFrom
    <3>2. \E e \in 1 .. Len(l) : Stop(e)
      <4> DEFINE stops == {i \in Nat : i > 1 /\ l[i] = Quote}
      <4>1. \E e \in 1 .. Len(l) : /\ e = Len(l) \/ e \in stops
                                   /\ \A i \in 1 .. e - 1 : i \notin stops
        <5>1. Len(l) \in Nat /\ 1 \in Int /\ 1 <= Len(l) /\ 1 >= -1
          BY <1>1
        <5> HIDE DEF stops
        <5> QED BY ONLY <5>1, FirstStop, ZenonT(30)
      <4> QED BY <4>1
    <3>3. x \in 1 .. Len(l) /\ Stop(x)
      <4> HIDE DEF Stop, x
      <4> QED BY <3>1, <3>2
    <3>4. x > 1 /\ l[x] = Quote /\ \A i \in 2 .. x - 1 : l[i] # Quote
      <4> HIDE DEF x
      <4> QED BY <1>1, <3>3
    <3>5. x # b
      BY <3>4, CharsAssumption
    <3> HIDE DEF x, a
    <3> QED BY <1>1, <2>1, <3>4, <3>5
  <2>2. CASE l[1] # Quote
    <3> DEFINE Stop(e) == /\ e = Len(l) \/ IsBlankAt(l, e)
                          /\ \A i \in 0 .. e - 1 : ~IsBlankAt(l, i)
    <3>1. x = CHOOSE e \in 0 .. Len(l) : Stop(e)
      BY <2>2 DEF ExecutableEnd, FirstFrom
    <3>2. \E e \in 0 .. Len(l) : Stop(e)
      <4> DEFINE stops == {i \in Nat : IsBlankAt(l, i)}
      <4>1. \E e \in 0 .. Len(l) : /\ e = Len(l) \/ e \in stops
                                   /\ \A i \in 0 .. e - 1 : i \notin stops
        <5>1. Len(l) \in Nat /\ 0 \in Int /\ 0 <= Len(l) /\ 0 >= -1
          BY <1>1
        <5> HIDE DEF stops
        <5> QED BY ONLY <5>1, FirstStop, ZenonT(30)
      <4> QED BY <4>1
    <3>3. x \in 0 .. Len(l) /\ Stop(x)
      <4> HIDE DEF Stop, x
      <4> QED BY <3>1, <3>2
    <3> HIDE DEF x, a
    <3>4. l[x + 1] = Blank /\ \A i \in 0 .. x - 1 : l[i + 1] # Blank
      BY <1>1, <3>3 DEF IsBlankAt
    <3>5. \A i \in 1 .. x : l[i] # Blank
      <4> SUFFICES ASSUME NEW i \in 1 .. x PROVE l[i] # Blank
        OBVIOUS
      <4>1. i - 1 \in 0 .. x - 1 /\ (i - 1) + 1 = i
        BY <1>1
      <4> QED BY <3>4, <4>1
    <3>6. x < b
      <4>1. b \notin 1 .. x
        BY <3>5
      <4> QED BY <1>1, <4>1
    <3> QED BY <2>2, <3>4, <3>5, <3>6
  <2> QED BY <2>1, <2>2
<1>3. ExecutableEnd(k) = x
  <2> HIDE DEF x, a
  <2>1. x \in 0 .. Len(k)
    BY <1>1, <1>2
  <2>2. IF k[1] = Quote
        THEN /\ x >= 2 /\ k[x] = Quote
             /\ \A i \in 2 .. x - 1 : k[i] # Quote
        ELSE /\ x = Len(k) \/ k[x + 1] = Blank
             /\ \A i \in 1 .. x : k[i] # Blank
    <3>1. x + 1 \in 1 .. b /\ \A i \in 1 .. x : i \in 1 .. b
      BY <1>1, <1>2
    <3>2. CASE l[1] = Quote
      <4>1. \A i \in 2 .. x - 1 : i \in 1 .. x
        BY <1>1
      <4>2. x \in 1 .. x
        BY <1>1, <1>2, <3>2
      <4> QED BY <1>1, <1>2, <3>1, <3>2, <4>1, <4>2
    <3>3. CASE l[1] # Quote
      BY <1>1, <1>2, <3>1, <3>3
    <3> QED BY <3>2, <3>3
  <2> QED BY <1>1, <2>1, <2>2, NameEnds
<1>4. ArgumentsBegin(k) = a
  <2> HIDE DEF x, a
  <2>1. a \in x .. Len(k) /\ \A i \in x .. a - 1 : i + 1 \in 1 .. b
    BY <1>1, <1>2
  <2>2. \A i \in x .. a - 1 : k[i + 1] = Blank
    BY <1>1, <2>1
  <2>3. k[a + 1] # Blank
    <3>1. CASE a = b
      BY <3>1 DEF a
    <3>2. CASE a # b
      <4>1. a < Len(l) /\ a + 1 \in 1 .. b
        BY <1>1, <3>2
      <4> QED BY <1>1, <4>1
    <3> QED BY <3>1, <3>2
  <2> QED BY <1>3, <2>1, <2>2, <2>3, ArgumentsBeginAt
<1> QED BY <1>2, <1>3, <1>4

\* And where an argument is over before that, it is over in both.
LEMMA SameBreaks ==
    ASSUME NEW S, {Blank, Quote, Backslash} \subseteq S, NEW l \in Seq(S),
           NEW k \in Seq(S), NEW a \in Nat, NEW b \in a .. Len(l), b <= Len(k),
           \A i \in 1 .. b : k[i] = l[i],
           NEW i \in a .. b - 1, i \in Breaks(l, a)
    PROVE  i \in Breaks(k, a)
<1> DEFINE f == Scan(l, a)
           g == Scan(k, a)
<1>1. Len(l) \in Nat /\ Len(k) \in Nat /\ a \in 0 .. Len(l) /\ a \in 0 .. Len(k) /\ b \in Nat
  OBVIOUS
<1>2. /\ f[a] = ScanBegin
      /\ \A j \in a + 1 .. Len(l) : f[j] = Scanned(f[j - 1], l[j])
  BY <1>1, ScanFacts
<1>3. /\ g[a] = ScanBegin
      /\ \A j \in a + 1 .. Len(k) : g[j] = Scanned(g[j - 1], k[j])
  BY <1>1, ScanFacts
<1>4. /\ Breaks(l, a) = {j \in a .. Len(l) - 1 : l[j + 1] = Blank /\ Settled(f[j].quotes) = 0}
      /\ Breaks(k, a) = {j \in a .. Len(k) - 1 : k[j + 1] = Blank /\ Settled(g[j].quotes) = 0}
  BY DEF Breaks, IsBlankAt
<1> HIDE DEF f, g
<1>5. f[i] = g[i]
  <2> DEFINE T == {j \in a .. b : f[j] = g[j]}
  <2>1. a \in T
    BY <1>1, <1>2, <1>3
  <2>2. ASSUME NEW j \in a .. b - 1, j \in T PROVE j + 1 \in T
    <3>1. /\ j + 1 \in a .. b /\ (j + 1) - 1 = j /\ j + 1 \in a + 1 .. Len(l)
          /\ j + 1 \in a + 1 .. Len(k) /\ j + 1 \in 1 .. b
      BY <1>1
    <3>2. f[j + 1] = Scanned(f[j], l[j + 1]) /\ g[j + 1] = Scanned(g[j], k[j + 1])
      BY <1>2, <1>3, <3>1
    <3>3. f[j + 1] = g[j + 1]
      BY <2>2, <3>1, <3>2
    <3> QED BY <3>1, <3>3
  <2> HIDE DEF T
  <2>3. \A j \in a .. b : j \in T
    BY <1>1, <2>1, <2>2, Upwards
  <2>4. i \in a .. b
    BY <1>1
  <2> QED BY <2>3, <2>4 DEF T
<1>6. i \in a .. Len(k) - 1 /\ i + 1 \in 1 .. b
  BY <1>1
<1> QED BY <1>4, <1>5, <1>6

\* QuoteWord and CommandLineToArgvW undo each other.
LEMMA EveryQuotedWord ==
    ASSUME line \in Seq(Chars)
    PROVE  QuotedWordComesBack
<1> DEFINE q == QuoteWord(line)
           m == Len(q)
           l == <<Backslash, Blank>> \o q
           n == Len(l)
           breaks == Breaks(l, 2)
           at == ArgvAt(l)
<1>1. /\ {Blank, Quote, Backslash} \subseteq Chars
      /\ Blank # Quote /\ Blank # Backslash /\ Quote # Backslash
  BY CharsAssumption
<1>2. q \in Seq(Chars) /\ m \in Nat /\ m >= 1 /\ q[1] # Blank
  <2>1. q \in Seq(Chars) /\ q # <<>> /\ q[1] # Blank
    BY <1>1, QuoteWordBegins
  <2> HIDE DEF q
  <2> QED BY <2>1
<1> HIDE DEF q
<1>3. /\ l \in Seq(Chars) /\ n = m + 2 /\ l # <<>> /\ l[1] = Backslash /\ l[2] = Blank
      /\ \A j \in 1 .. m : l[2 + j] = q[j]
  <2>1. <<Backslash, Blank>> \in Seq(Chars) /\ Len(<<Backslash, Blank>>) = 2
    BY <1>1
  <2> QED BY <1>2, <2>1
<1> HIDE DEF l, m
<1>4. ExecutableEnd(l) = 1
  <2>1. 1 \in 0 .. Len(l) /\ \A i \in 1 .. 1 : l[i] # Blank
    BY <1>1, <1>2, <1>3
  <2> QED BY <1>1, <1>3, <2>1, NameEnds
<1>5. ArgumentsBegin(l) = 2
  <2>1. /\ 2 \in 1 .. Len(l) /\ \A i \in 1 .. 2 - 1 : l[i + 1] = Blank
        /\ l[2 + 1] # Blank
    <3>1. l[2 + 1] = q[1]
      BY <1>2, <1>3
    <3>2. \A i \in 1 .. 2 - 1 : i = 1
      OBVIOUS
    <3> QED BY <1>2, <1>3, <3>1, <3>2
  <2> QED BY <1>3, <1>4, <2>1, ArgumentsBeginAt
<1>6. Reading(Chars, l, 2, breaks, at)
  BY <1>1, <1>3, <1>5, ArgumentsReading
<1> HIDE DEF breaks, at, n
<1>7. at[2] = Starting(<<>>) /\ breaks \in SUBSET (2 .. n - 1) /\ 2 \in 0 .. n
  BY <1>6 DEF Reading, n
<1>8. /\ Word(2, n) \in Separated(l, 2, breaks)
      /\ \A i \in 2 .. n - 1 : i \notin breaks
      /\ at[n].args = at[2].args /\ at[n].open = TRUE /\ at[n].out = line
  <2>1. /\ 2 \in 2 .. Len(l) /\ n = 2 + Len(QuoteWord(line)) /\ n <= Len(l) /\ n = Len(l)
        /\ \A j \in 1 .. Len(QuoteWord(line)) : l[2 + j] = QuoteWord(line)[j]
    BY <1>2, <1>3 DEF n, m, q
  <2> DEFINE b == 2
  <2>2. /\ b \in b .. Len(l) /\ StandsAt(l, b, n, QuoteWord(line))
        /\ Reading(Chars, l, b, breaks, at)
    BY <1>6, <2>1 DEF StandsAt
  <2> HIDE DEF b
  <2>3. /\ Word(b, n) \in Separated(l, b, breaks)
        /\ \A i \in b .. n - 1 : i \notin breaks
        /\ ReadThere(at, b, n, line)
    BY <1>1, <1>3, <2>2, QuotedArgument
  <2> QED BY <2>3 DEF b, ReadThere
<1>9. CommandLineToArgvW(l) = <<line>>
  <2>1. CommandLineToArgvW(l) = IF at[n].open THEN Append(at[n].args, at[n].out) ELSE at[n].args
    BY <1>3, ArgvFacts DEF at, n
  <2>2. at[n].args = <<>>
    BY <1>7, <1>8 DEF Starting
  <2> QED BY <1>8, <2>1, <2>2
<1>10. breaks = {}
  BY <1>7, <1>8
<1>11. Separated(l, 2, breaks) = {Word(2, n)}
  <2>1. ASSUME NEW w \in Separated(l, 2, breaks) PROVE w = Word(2, n)
    <3>1. /\ Len(l) \in Nat /\ 2 \in 0 .. Len(l)
          /\ breaks \in SUBSET (2 .. Len(l) - 1)
      BY <1>3, <1>7 DEF n
    <3>2. /\ w = Word(w.begin, w.end)
          /\ w.begin = 2 \/ w.begin - 1 \in breaks
          /\ w.end = Len(l) \/ w.end \in breaks
      BY <3>1, SeparatedFacts
    <3> QED BY <1>10, <3>2 DEF n
  <2> QED BY <1>8, <2>1
<1>12. ParsedWords(l) = {Word(0, 1), Word(2, n)}
  BY <1>4, <1>5, <1>11 DEF ParsedWords, ArgumentsFrom, breaks
<1>13. \A u, v \in ParsedWords(l) : ~Attached(l, u, v)
  <2>1. /\ Word(0, 1).begin = 0 /\ Word(0, 1).end = 1 /\ Word(2, n).begin = 2
        /\ Word(2, n).end = n
    BY DEF Word
  <2>2. n \in Nat /\ n > 2
    BY <1>2, <1>3
  <2> QED BY <1>12, <2>1, <2>2 DEF Attached
<1>14. Words(l) = ParsedWords(l)
  <2>1. TrailingWord(l, ParsedWords(l)) = {}
    <3>1. Word(2, n).end = n /\ ~(n < n)
      BY <1>2, <1>3 DEF Word
    <3> QED BY <1>12, <3>1 DEF TrailingWord, n
  <2> QED BY <1>13, <2>1 DEF Words, Joined
<1> QED BY <1>9, <1>12, <1>14 DEF QuotedWordComesBack, l, n, q

-----------------------------------------------------------------------------
(* Counting *)

\* The arguments that begin before an offset, and how many Windows has read there.
ArgumentsUpto(l, k) == {w \in ArgumentsFrom(l, ArgumentsBegin(l)) : w.begin < k}
CountRead(st) == Len(st.args) + (IF st.open = TRUE THEN 1 ELSE 0)

\* Windows and completion find as many arguments, wherever they are in the line.
LEMMA ArgumentsCounted ==
    ASSUME NEW S, {Blank, Quote, Backslash} \subseteq S, NEW l \in Seq(S)
    PROVE  \A p \in ArgumentsBegin(l) .. Len(l) :
               /\ IsFiniteSet(ArgumentsUpto(l, p))
               /\ Cardinality(ArgumentsUpto(l, p)) = CountRead(ArgvAt(l)[p])
<1> DEFINE n == Len(l)
           a == ArgumentsBegin(l)
           breaks == Breaks(l, a)
           at == ArgvAt(l)
           arguments == Separated(l, a, breaks)
           Upto(k) == {w \in arguments : w.begin < k}
           Read(k) == Len(at[k].args) + (IF at[k].open = TRUE THEN 1 ELSE 0)
<1>1. n \in Nat
  OBVIOUS
<1>2. Reading(S, l, a, breaks, at)
  BY <1>1, ArgumentsReading
<1> HIDE DEF n, a, breaks, at
<1>5. /\ a \in 0 .. n /\ breaks \in SUBSET (a .. n - 1)
      /\ at[a] = Starting(<<>>)
      /\ \A i \in a .. n : at[i] \in ArgvStates(S)
      /\ \A i \in a .. n - 1 :
             /\ i \in breaks =>
                    at[i + 1] = Starting(IF at[i].open THEN Append(at[i].args, at[i].out)
                                                       ELSE at[i].args)
             /\ i \notin breaks => at[i + 1].args = at[i].args /\ at[i + 1].open = TRUE
  BY <1>2 DEF Reading, n
<1>6. ASSUME NEW w \in arguments
      PROVE  /\ w = Word(w.begin, w.end)
             /\ w.begin \in a .. n - 1 /\ w.end \in w.begin + 1 .. n
             /\ w.begin = a \/ w.begin - 1 \in breaks
             /\ w.end = n \/ w.end \in breaks
             /\ \A i \in w.begin .. w.end - 1 : i \notin breaks
  BY <1>1, <1>5, SeparatedFacts DEF n
<1>7. \A u, v \in arguments : u.begin = v.begin => u = v
  <2> SUFFICES ASSUME NEW u \in arguments, NEW v \in arguments, u.begin = v.begin
               PROVE  u = v
    OBVIOUS
  <2>1. u \in ParsedWords(l) /\ v \in ParsedWords(l)
    BY DEF ParsedWords, ArgumentsFrom, a, breaks
  <2> HIDE DEF arguments
  <2> QED BY <2>1, ParsedWordsFacts DEF Divides
<1>8. ASSUME NEW k \in a .. n - 1, k \notin breaks, k = a \/ k - 1 \in breaks
      PROVE  \E w \in arguments : w.begin = k
  <2>1. PICK w \in arguments : w.begin <= k /\ k < w.end
    BY <1>1, <1>5, <1>8, SeparatedCovers DEF n
  <2>2. ~(w.begin <= k - 1)
    <3>1. ASSUME w.begin <= k - 1 PROVE FALSE
      <4>1. k - 1 \in w.begin .. w.end - 1 /\ k # a
        BY <1>1, <1>5, <1>6, <2>1, <3>1
      <4> QED BY <1>6, <1>8, <4>1
    <3> QED BY <3>1
  <2>3. w.begin = k
    BY <1>1, <1>5, <1>6, <2>1, <2>2
  <2> QED BY <2>3
<1> HIDE DEF arguments
<1>4. \A args : Starting(args).args = args /\ Starting(args).open = FALSE
  BY DEF Starting
<1>9. ASSUME NEW k \in a .. n PROVE at[k].open \in BOOLEAN /\ Len(at[k].args) \in Nat
  BY <1>5 DEF ArgvStates
<1>10. ASSUME NEW k \in a .. n - 1 PROVE at[k].open = FALSE <=> k = a \/ k - 1 \in breaks
  <2>1. CASE k = a
    BY <1>5, <1>4, <2>1
  <2>2. CASE k # a
    <3>1. k - 1 \in a .. n - 1 /\ (k - 1) + 1 = k
      BY <1>1, <1>5, <2>2
    <3>2. k - 1 \in breaks => at[k].open = FALSE
      BY <1>5, <1>4, <3>1
    <3>3. k - 1 \notin breaks => at[k].open = TRUE
      BY <1>5, <3>1
    <3> QED BY <2>2, <3>2, <3>3
  <2> QED BY <2>1, <2>2
<1> DEFINE T == {k \in a .. n : IsFiniteSet(Upto(k)) /\ Cardinality(Upto(k)) = Read(k)}
<1>11. a \in T
  <2>1. Upto(a) = {}
    BY <1>1, <1>5, <1>6
  <2>2. Read(a) = 0
    BY <1>5 DEF Starting
  <2>3. a \in a .. n
    BY <1>1, <1>5
  <2>4. IsFiniteSet(Upto(a)) /\ Cardinality(Upto(a)) = Read(a)
    <3> HIDE DEF Upto, Read
    <3> QED BY <2>1, <2>2, FS_EmptySet
  <2> HIDE DEF Upto, Read
  <2> QED BY <2>3, <2>4
<1>12. ASSUME NEW k \in a .. n - 1, k \in T PROVE k + 1 \in T
  <2>1. k \in a .. n /\ k + 1 \in a .. n /\ IsFiniteSet(Upto(k)) /\ Cardinality(Upto(k)) = Read(k)
    BY <1>1, <1>5, <1>12
  <2>2. \A w \in arguments : w.begin < k + 1 <=> w.begin < k \/ w.begin = k
    BY <1>1, <1>5, <1>6
  <2>3. CASE k \in breaks
    <3>1. ASSUME NEW w \in arguments PROVE w.begin # k
      <4>1. w.begin \in w.begin .. w.end - 1
        BY <1>1, <1>5, <1>6
      <4> QED BY <1>6, <2>3, <4>1
    <3>2. Upto(k + 1) = Upto(k)
      BY <2>2, <3>1
    <3>3. Read(k + 1) = Read(k)
      <4>1. at[k] \in ArgvStates(S)
        BY <1>5, <2>1
      <4>2. at[k + 1].open = FALSE
            /\ at[k + 1].args = IF at[k].open THEN Append(at[k].args, at[k].out) ELSE at[k].args
        BY <1>5, <1>4, <2>3
      <4>3. CASE at[k].open = TRUE
        <5>1. /\ at[k].args \in Seq(Seq(S)) /\ at[k].out \in Seq(S)
          BY <4>1 DEF ArgvStates
        <5>2. Len(Append(at[k].args, at[k].out)) = Len(at[k].args) + 1
          BY <5>1, AppendFacts
        <5>3. at[k + 1].args = Append(at[k].args, at[k].out)
          BY <4>2, <4>3
        <5>4. Read(k + 1) = Len(at[k + 1].args) + 0 /\ Read(k) = Len(at[k].args) + 1
          BY <4>2, <4>3
        <5>5. Len(at[k].args) \in Nat
          BY <1>9, <2>1
        <5> HIDE DEF Read
        <5> QED BY <5>2, <5>3, <5>4, <5>5
      <4>4. CASE at[k].open # TRUE
        BY <1>9, <2>1, <4>2, <4>4
      <4> QED BY <4>3, <4>4
    <3> HIDE DEF Upto, Read
    <3> QED BY <2>1, <3>2, <3>3
  <2>4. CASE k \notin breaks /\ (k = a \/ k - 1 \in breaks)
    <3>1. PICK w \in arguments : w.begin = k
      BY <1>8, <2>4
    <3>2. Upto(k + 1) = Upto(k) \cup {w} /\ w \notin Upto(k)
      <4>1. \A v \in arguments : v.begin = k => v = w
        BY <1>7, <3>1
      <4>2. ~(w.begin < k)
        BY <1>1, <1>5, <3>1
      <4> QED BY <2>2, <3>1, <4>1, <4>2
    <3>3. Read(k + 1) = Read(k) + 1
      <4>1. at[k].open = FALSE /\ at[k + 1].open = TRUE /\ at[k + 1].args = at[k].args
        BY <1>5, <1>10, <2>4
      <4>2. Len(at[k].args) \in Nat
        BY <1>9, <2>1
      <4>3. Read(k) = Len(at[k].args) + 0 /\ Read(k + 1) = Len(at[k].args) + 1
        BY <4>1
      <4> HIDE DEF Read
      <4> QED BY <4>2, <4>3
    <3>4. IsFiniteSet(Upto(k) \cup {w}) /\ Cardinality(Upto(k) \cup {w}) = Cardinality(Upto(k)) + 1
      <4> HIDE DEF Upto
      <4> QED BY <2>1, <3>2, FS_AddElement
    <3> HIDE DEF Upto, Read
    <3> QED BY <2>1, <3>2, <3>3, <3>4
  <2>5. CASE k \notin breaks /\ ~(k = a \/ k - 1 \in breaks)
    <3>1. \A w \in arguments : w.begin # k
      BY <1>6, <2>5
    <3>2. Upto(k + 1) = Upto(k)
      BY <2>2, <3>1
    <3>3. Read(k + 1) = Read(k)
      <4>1. at[k].open = TRUE /\ at[k + 1].open = TRUE /\ at[k + 1].args = at[k].args
        BY <1>5, <1>9, <1>10, <2>1, <2>5
      <4> QED BY <4>1
    <3> HIDE DEF Upto, Read
    <3> QED BY <2>1, <3>2, <3>3
  <2> QED BY <2>3, <2>4, <2>5
<1>13. \A k \in a .. n : k \in T
  <2>1. a \in Nat /\ n \in Nat
    BY <1>1, <1>5
  <2> HIDE DEF T
  <2>2. \A k \in a .. n - 1 : k \in T => k + 1 \in T
    BY <1>12
  <2> QED BY <1>11, <2>1, <2>2, Upwards
<1> QED BY <1>13 DEF ArgumentsUpto, ArgumentsFrom, CountRead, n, a, arguments, breaks, at

\* The name of the executable is none of them.
LEMMA NameIsNoArgument ==
    ASSUME NEW S, NEW l \in Seq(S), l # <<>>
    PROVE  Word(0, ExecutableEnd(l)) \notin ArgumentsFrom(l, ArgumentsBegin(l))
<1> DEFINE n == Len(l)
           x == ExecutableEnd(l)
           a == ArgumentsBegin(l)
           breaks == Breaks(l, a)
           name == Word(0, x)
<1>1. /\ n \in Nat /\ x \in 0 .. n /\ a \in x .. n
      /\ x = 0 => l[1] = Blank
      /\ a < n => l[a + 1] # Blank
  BY ExecutableEndFacts, ArgumentsBeginFacts DEF IsBlankAt
<1>2. breaks \in SUBSET (a .. n - 1) /\ a \in 0 .. n
  BY <1>1 DEF Breaks
<1> SUFFICES ASSUME name \in Separated(l, a, breaks) PROVE FALSE
  BY DEF ArgumentsFrom
<1>3. name.begin = 0 /\ name.end = x
  BY DEF Word
<1> HIDE DEF name, x, a, breaks
<1>4. name.begin \in a .. n - 1 /\ name.end \in name.begin + 1 .. n
  BY <1>1, <1>2, SeparatedFacts
<1> HIDE DEF n
<1>5. a = 0 /\ x > 0
  BY <1>1, <1>2, <1>3, <1>4
<1> QED BY <1>1, <1>5

\* In every line Windows counts the words that the reimplementation finds.
LEMMA EveryWordCounts ==
    ASSUME line \in Seq(Chars)
    PROVE  WordCountAgrees
<1> SUFFICES ASSUME line # <<>>
             PROVE  Cardinality(ParsedWords(line)) = Len(CommandLineToArgvW(line)) + 1
  BY DEF WordCountAgrees
<1> DEFINE n == Len(line)
           x == ExecutableEnd(line)
           a == ArgumentsBegin(line)
           at == ArgvAt(line)
           arguments == ArgumentsFrom(line, a)
<1>1. {Blank, Quote, Backslash} \subseteq Chars /\ n \in Nat
  BY CharsAssumption
<1>2. n \in a .. n /\ a \in 0 .. n
  BY <1>1, ExecutableEndFacts, ArgumentsBeginFacts
<1>3. IsFiniteSet(ArgumentsUpto(line, n)) /\ Cardinality(ArgumentsUpto(line, n)) = CountRead(at[n])
  BY <1>1, <1>2, ArgumentsCounted
<1>4. ArgumentsUpto(line, n) = arguments
  <2>1. ASSUME NEW w \in arguments PROVE w.begin < n
    <3>1. Breaks(line, a) \in SUBSET (a .. n - 1)
      BY DEF Breaks
    <3>2. w \in Separated(line, a, Breaks(line, a))
      BY DEF ArgumentsFrom
    <3> HIDE DEF a, arguments
    <3>3. w.begin \in a .. n - 1
      BY <1>1, <1>2, <3>1, <3>2, SeparatedFacts
    <3> QED BY <1>1, <1>2, <3>3
  <2> QED BY <2>1 DEF ArgumentsUpto
<1>5. at[n] \in ArgvStates(Chars)
  BY <1>1, <1>2, ScannersAgree
<1>6. Len(CommandLineToArgvW(line)) = CountRead(at[n])
  <2>1. CommandLineToArgvW(line) =
            IF at[n].open THEN Append(at[n].args, at[n].out) ELSE at[n].args
    BY ArgvFacts
  <2> HIDE DEF at, n
  <2>2. at[n].args \in Seq(Seq(Chars)) /\ at[n].out \in Seq(Chars) /\ at[n].open \in BOOLEAN
    BY <1>5 DEF ArgvStates
  <2>3. Len(Append(at[n].args, at[n].out)) = Len(at[n].args) + 1 /\ Len(at[n].args) \in Nat
    BY <2>2, AppendFacts
  <2>4. CASE at[n].open = TRUE
    BY <2>1, <2>3, <2>4 DEF CountRead
  <2>5. CASE at[n].open = FALSE
    <3>1. CommandLineToArgvW(line) = at[n].args
      BY <2>1, <2>5
    <3>2. CountRead(at[n]) = Len(at[n].args) + 0
      BY <2>5 DEF CountRead
    <3> QED BY <2>3, <3>1, <3>2
  <2> QED BY <2>2, <2>4, <2>5
<1>7. ParsedWords(line) = arguments \cup {Word(0, x)} /\ Word(0, x) \notin arguments
  BY NameIsNoArgument DEF ParsedWords
<1> HIDE DEF x, arguments, at
<1>8. Cardinality(arguments \cup {Word(0, x)}) = Cardinality(arguments) + 1
  BY <1>3, <1>4, <1>7, FS_AddElement
<1> QED BY <1>3, <1>4, <1>6, <1>7, <1>8

-----------------------------------------------------------------------------
(* A completion in the place of a word *)

\* A word behind a blank is an argument, or the empty one past the last.
LEMMA WordBehindBlank ==
    ASSUME NEW S, NEW l \in Seq(S), NEW w \in Words(l), w.begin > 0
    PROVE  /\ ExecutableEnd(l) < Len(l)
           /\ w.begin \in ArgumentsBegin(l) .. Len(l)
           /\ \/ w.begin = ArgumentsBegin(l)
              \/ w.begin - 1 \in Breaks(l, ArgumentsBegin(l))
<1> DEFINE x == ExecutableEnd(l)
           a == ArgumentsBegin(l)
           breaks == Breaks(l, a)
           ws == ParsedWords(l)
           Merged(v) == \E u \in ws : Attached(l, u, v)
           Whole(v) == IF \E u \in ws : Attached(l, v, u)
                       THEN Word(v.begin, (CHOOSE u \in ws : Attached(l, v, u)).end)
                       ELSE v
           whole == {Whole(v) : v \in {u \in ws : ~Merged(u)}}
<1>1. Words(l) = whole \cup TrailingWord(l, ws)
  BY DEF Words, Joined
<1>2. Len(l) \in Nat /\ x \in 0 .. Len(l) /\ a \in x .. Len(l)
  BY ExecutableEndFacts, ArgumentsBeginFacts
<1>3. breaks \in SUBSET (a .. Len(l) - 1)
  BY DEF Breaks
<1>4. ws = {Word(0, x)} \cup Separated(l, a, breaks)
  BY DEF ParsedWords, ArgumentsFrom
<1>5. Word(0, x).begin = 0 /\ Word(0, x).end = x
  BY DEF Word
<1> HIDE DEF x, a, breaks, ws
<1>6. CASE w \in whole
  <2>1. PICK u \in ws : w = Whole(u)
    BY <1>6
  <2>2. w.begin = u.begin
    BY <2>1 DEF Word
  <2> HIDE DEF Whole
  <2>3. u \in Separated(l, a, breaks)
    BY <1>4, <1>5, <2>2
  <2>4. u.begin \in a .. Len(l) - 1 /\ (u.begin = a \/ u.begin - 1 \in breaks)
    BY <1>2, <1>3, <2>3, SeparatedFacts
  <2> QED BY <1>2, <2>2, <2>4 DEF x, a, breaks
<1>7. CASE w \in TrailingWord(l, ws)
  <2>1. w = Word(Len(l), Len(l)) /\ \A v \in ws : v.end < Len(l)
    BY <1>7 DEF TrailingWord
  <2>2. w.begin = Len(l)
    BY <2>1 DEF Word
  <2>3. x < Len(l)
    BY <1>4, <1>5, <2>1
  <2>4. Len(l) = a \/ Len(l) - 1 \in breaks
    <3> SUFFICES ASSUME Len(l) # a, Len(l) - 1 \notin breaks PROVE FALSE
      OBVIOUS
    <3>1. Len(l) - 1 \in a .. Len(l) - 1 /\ a \in 0 .. Len(l)
      BY <1>2
    <3>2. PICK v \in Separated(l, a, breaks) : v.begin <= Len(l) - 1 /\ Len(l) - 1 < v.end
      BY <1>2, <1>3, <3>1, SeparatedCovers
    <3>3. v.begin \in a .. Len(l) - 1 /\ v.end \in v.begin + 1 .. Len(l)
      BY <1>2, <1>3, <3>1, SeparatedFacts
    <3>4. v.end = Len(l)
      BY <1>2, <3>2, <3>3
    <3> QED BY <1>2, <1>4, <2>1, <3>4
  <2> QED BY <1>2, <2>2, <2>3, <2>4 DEF x, a, breaks
<1> QED BY <1>1, <1>6, <1>7

\* The line with a text in the place of a word.
LEMMA ReplacedFacts ==
    ASSUME NEW S, line \in Seq(S), NEW w, IsPartOf(line, w), StandsBetweenBlanks(w),
           NEW q \in Seq(S)
    PROVE  /\ Replaced(w, q) \in Seq(S)
           /\ w.begin + Len(q) <= Len(Replaced(w, q))
           /\ \A i \in 1 .. w.begin : Replaced(w, q)[i] = line[i]
           /\ StandsAt(Replaced(w, q), w.begin, w.begin + Len(q), q)
           /\ Len(Replaced(w, q)) = (w.begin + Len(q)) + (Len(line) - w.end)
           /\ \A j \in 1 .. Len(line) - w.end :
                  Replaced(w, q)[(w.begin + Len(q)) + j] = line[w.end + j]
<1> DEFINE b == w.begin
           d == w.end
           n == Len(line)
           m == Len(q)
           s == SubSeq(line, 1, b)
           r == SubSeq(line, d + 1, n)
           l == (s \o q) \o r
<1>1. n \in Nat /\ m \in Nat /\ b \in 0 .. n /\ d \in b .. n
  BY DEF IsPartOf
<1>2. d = n \/ line[d + 1] = Blank
  BY DEF StandsBetweenBlanks
<1>3. Replaced(w, q) = l
  BY DEF Replaced
<1> HIDE DEF b, d, n, m
<1>4. \A i \in 1 .. n : line[i] \in S
  BY DEF n
<1>5. s \in Seq(S) /\ Len(s) = b /\ \A i \in 1 .. b : s[i] = line[i]
  <2>1. 1 \in Int /\ b \in Int /\ \A i \in 1 .. b : line[i] \in S
    BY <1>1, <1>4
  <2>2. /\ s \in Seq(S) /\ Len(s) = IF 1 <= b THEN b - 1 + 1 ELSE 0
        /\ \A i \in 1 .. b - 1 + 1 : s[i] = line[1 + i - 1]
    BY <2>1, SubSeqProperties
  <2> HIDE DEF s
  <2>3. Len(s) = b /\ \A i \in 1 .. b : i \in 1 .. b - 1 + 1 /\ 1 + i - 1 = i
    BY <1>1, <2>2
  <2> QED BY <2>2, <2>3
<1>6. r \in Seq(S) /\ Len(r) = n - d /\ \A j \in 1 .. n - d : r[j] = line[d + j]
  <2>1. d + 1 \in Int /\ n \in Int /\ \A i \in d + 1 .. n : line[i] \in S
    BY <1>1, <1>4
  <2>2. /\ r \in Seq(S) /\ Len(r) = IF d + 1 <= n THEN n - (d + 1) + 1 ELSE 0
        /\ \A i \in 1 .. n - (d + 1) + 1 : r[i] = line[(d + 1) + i - 1]
    <3> DEFINE f == d + 1
    <3>1. /\ SubSeq(line, f, n) \in Seq(S)
          /\ Len(SubSeq(line, f, n)) = IF f <= n THEN n - f + 1 ELSE 0
          /\ \A i \in 1 .. n - f + 1 : SubSeq(line, f, n)[i] = line[f + i - 1]
      <4> HIDE DEF f
      <4> QED BY <2>1, SubSeqProperties DEF f
    <3> QED BY <3>1
  <2> HIDE DEF r
  <2>3. Len(r) = n - d
    BY <1>1, <2>2
  <2>4. ASSUME NEW j \in 1 .. n - d PROVE r[j] = line[d + j]
    <3>1. j \in 1 .. n - (d + 1) + 1 /\ (d + 1) + j - 1 = d + j
      BY <1>1
    <3> QED BY <2>2, <3>1
  <2> QED BY <2>2, <2>3, <2>4
<1> HIDE DEF s, r
<1> DEFINE u == s \o q
<1>7. /\ u \in Seq(S) /\ Len(u) = b + m
      /\ \A i \in 1 .. b : u[i] = s[i]
      /\ \A j \in 1 .. m : u[b + j] = q[j]
  <2>1. /\ s \o q \in Seq(S) /\ Len(s \o q) = Len(s) + Len(q)
        /\ \A i \in 1 .. Len(s) + Len(q) : (s \o q)[i] = IF i <= Len(s) THEN s[i] ELSE q[i - Len(s)]
    BY <1>5, ConcatProperties
  <2>2. /\ u \in Seq(S) /\ Len(u) = b + m
        /\ \A i \in 1 .. b + m : u[i] = IF i <= b THEN s[i] ELSE q[i - b]
    BY <1>5, <2>1 DEF m
  <2> HIDE DEF u
  <2>3. ASSUME NEW i \in 1 .. b PROVE u[i] = s[i]
    BY <1>1, <2>2
  <2>4. ASSUME NEW j \in 1 .. m PROVE u[b + j] = q[j]
    <3>1. b + j \in 1 .. b + m /\ ~(b + j <= b) /\ (b + j) - b = j
      BY <1>1
    <3> QED BY <2>2, <3>1
  <2> QED BY <2>2, <2>3, <2>4
<1> HIDE DEF u
<1>8. /\ l \in Seq(S) /\ Len(l) = (b + m) + (n - d)
      /\ \A i \in 1 .. b + m : l[i] = u[i]
      /\ \A j \in 1 .. n - d : l[(b + m) + j] = r[j]
  <2>1. /\ u \o r \in Seq(S) /\ Len(u \o r) = Len(u) + Len(r)
        /\ \A i \in 1 .. Len(u) + Len(r) : (u \o r)[i] = IF i <= Len(u) THEN u[i] ELSE r[i - Len(u)]
    BY <1>6, <1>7, ConcatProperties
  <2> DEFINE k == u \o r
             e == b + m
             f == n - d
  <2>2. e \in Nat /\ f \in Nat /\ Len(u) = e /\ Len(r) = f
    BY <1>1, <1>6, <1>7
  <2>3. l = k
    BY DEF u
  <2> HIDE DEF k, e, f, l
  <2>4. Len(k) = e + f /\ \A i \in 1 .. e + f : k[i] = IF i <= e THEN u[i] ELSE r[i - e]
    BY <2>1, <2>2 DEF k
  <2>5. \A i \in 1 .. e : k[i] = u[i]
    BY <2>2, <2>4
  <2>6. ASSUME NEW j \in 1 .. f PROVE k[e + j] = r[j]
    <3>1. e + j \in 1 .. e + f /\ ~(e + j <= e) /\ (e + j) - e = j
      BY <2>2
    <3> QED BY <2>4, <3>1
  <2>7. k \in Seq(S)
    BY <2>1 DEF k
  <2> QED BY <2>2, <2>3, <2>4, <2>5, <2>6, <2>7 DEF e, f
<1> HIDE DEF l
<1>9. \A i \in 1 .. b : l[i] = line[i]
  <2>1. \A i \in 1 .. b : i \in 1 .. b + m
    BY <1>1
  <2> QED BY <1>5, <1>7, <1>8, <2>1
<1>10. \A j \in 1 .. m : l[b + j] = q[j]
  <2>1. \A j \in 1 .. m : b + j \in 1 .. b + m
    BY <1>1
  <2> QED BY <1>7, <1>8, <2>1
<1>11. b + m = Len(l) \/ l[(b + m) + 1] = Blank
  <2>1. CASE d = n
    <3>1. n - d = 0
      BY <1>1, <2>1
    <3> QED BY <1>1, <1>8, <3>1
  <2>2. CASE d # n
    <3>1. 1 \in 1 .. n - d
      BY <1>1, <2>2
    <3>2. l[(b + m) + 1] = line[d + 1]
      BY <1>6, <1>8, <3>1
    <3> QED BY <1>2, <2>2, <3>2
  <2> QED BY <2>1, <2>2
<1>12. b + m <= Len(l)
  BY <1>1, <1>8
<1>13. StandsAt(l, b, b + m, q)
  BY <1>10, <1>11, <1>12 DEF StandsAt, m
<1>14. \A j \in 1 .. n - d : l[(b + m) + j] = line[d + j]
  BY <1>6, <1>8
<1> QED BY <1>3, <1>8, <1>9, <1>12, <1>13, <1>14 DEF b, d, m, n

\* As an executable's name a quoted word without quotes ends where the text does.
LEMMA QuotedName ==
    ASSUME NEW S, {Blank, Quote, Backslash} \subseteq S, NEW word \in Seq(S),
           \A i \in 1 .. Len(word) : word[i] # Quote,
           NEW l \in Seq(S), NEW e, StandsAt(l, 0, e, QuoteWord(word))
    PROVE  ExecutableEnd(l) = e
<1> DEFINE q == QuoteWord(word)
           n == Len(word)
<1>1. /\ q \in Seq(S) /\ q # <<>> /\ Quote \in S /\ Backslash \in S /\ n \in Nat
      /\ Backslash # Quote
  BY QuoteWordBegins, CharsAssumption
<1>2. /\ e \in Nat /\ e >= 1 /\ e = Len(q) /\ e <= Len(l) /\ Len(l) \in Nat
      /\ e = Len(l) \/ l[e + 1] = Blank
      /\ \A j \in 1 .. e : l[j] = q[j]
  <2>1. Len(q) \in Nat /\ Len(q) >= 1
    <3> HIDE DEF q
    <3> QED BY <1>1
  <2>2. /\ e = 0 + Len(q) /\ e <= Len(l)
        /\ e = Len(l) \/ l[e + 1] = Blank
        /\ \A j \in 1 .. Len(q) : l[0 + j] = q[j]
    BY DEF StandsAt
  <2> HIDE DEF q
  <2>3. e = Len(q) /\ \A j \in 1 .. Len(q) : 0 + j = j
    BY <2>1, <2>2
  <2> QED BY <2>1, <2>2, <2>3
<1> HIDE DEF q
<1>3. e \in 0 .. Len(l) /\ l # <<>>
  BY <1>2
<1>4. CASE NeedsQuotes(word)
  <2>1. PICK off \in [0 .. n -> Nat] :
            /\ off[0] = 0 /\ Len(q) = off[n] + 2 /\ q[off[n] + 2] = Quote
            /\ \A k \in 1 .. n :
                   /\ off[k] = off[k - 1] + Len(Escaped(word, k))
                   /\ \A j \in 1 .. Len(Escaped(word, k)) :
                          q[1 + (off[k - 1] + j)] = Escaped(word, k)[j]
    <3>1. PICK off \in [0 .. n -> Nat] : QuotedBy(word, off)
      BY <1>1, <1>4, QuotedForm
    <3> QED BY <3>1 DEF QuotedBy, q
  <2>2. q[1] = Quote
    BY <1>1, <1>4, QuotedForm DEF q
  <2>3. \A k \in 0 .. n : off[k] \in Nat
    BY <2>1
  <2> DEFINE T == {k \in 0 .. n : \A i \in 1 .. off[k] : q[1 + i] # Quote}
  <2>4. 0 \in T
    BY <1>1, <2>1
  <2>5. ASSUME NEW k \in 0 .. n - 1, k \in T PROVE k + 1 \in T
    <3> DEFINE x == Escaped(word, k + 1)
               c == word[k + 1]
    <3>1. k + 1 \in 0 .. n /\ k + 1 \in 1 .. n /\ (k + 1) - 1 = k /\ k \in 0 .. n
      BY <1>1
    <3>2. c # Quote
      BY <3>1
    <3>3. Len(x) \in Nat /\ \A j \in 1 .. Len(x) : x[j] # Quote
      <4>1. CASE c = Backslash /\ RunsIntoQuote(word, k + 1)
        <5>1. x = <<Backslash, Backslash>>
          BY <3>2, <4>1 DEF Escaped
        <5> HIDE DEF x
        <5> QED BY <1>1, <5>1
      <4>2. CASE ~(c = Backslash /\ RunsIntoQuote(word, k + 1))
        <5>1. x = <<c>>
          BY <3>2, <4>2 DEF Escaped
        <5> HIDE DEF x, c
        <5> QED BY <3>2, <5>1
      <4> QED BY <4>1, <4>2
    <3> HIDE DEF x, c
    <3>4. /\ off[k + 1] = off[k] + Len(x)
          /\ \A j \in 1 .. Len(x) : q[1 + (off[k] + j)] = x[j]
      BY <2>1, <3>1 DEF x
    <3>5. off[k] \in Nat /\ \A i \in 1 .. off[k] : q[1 + i] # Quote
      BY <2>3, <2>5, <3>1
    <3> DEFINE o == off[k]
    <3> HIDE DEF o
    <3>6. ASSUME NEW i \in 1 .. o + Len(x) PROVE q[1 + i] # Quote
      <4>1. CASE i <= o
        BY <3>3, <3>5, <4>1 DEF o
      <4>2. CASE i > o
        <5> DEFINE j == i - o
        <5>1. j \in 1 .. Len(x) /\ o + j = i
          BY <3>3, <3>5, <4>2 DEF o
        <5> HIDE DEF j
        <5> QED BY <3>3, <3>4, <5>1 DEF o
      <4> QED BY <3>3, <3>5, <4>1, <4>2 DEF o
    <3> QED BY <3>1, <3>4, <3>6 DEF o
  <2> HIDE DEF T
  <2>6. n \in T
    <3>1. \A k \in 0 .. n : k \in T
      BY <1>1, <2>4, <2>5, Upwards
    <3> QED BY <1>1, <3>1
  <2>7. off[n] \in Nat /\ e = off[n] + 2
    BY <1>1, <1>2, <2>1, <2>3
  <2>8. ASSUME NEW i \in 2 .. e - 1 PROVE l[i] # Quote
    <3> DEFINE j == i - 1
    <3>1. j \in 1 .. off[n] /\ 1 + j = i /\ i \in 1 .. e
      BY <2>7
    <3>2. q[1 + j] # Quote
      <4> HIDE DEF j
      <4> QED BY <2>6, <3>1 DEF T
    <3> QED BY <1>2, <3>1, <3>2
  <2>9. l[1] = Quote /\ l[e] = Quote /\ e >= 2
    <3>1. 1 \in 1 .. e /\ e \in 1 .. e /\ e >= 2
      BY <1>2, <2>7
    <3> QED BY <1>2, <2>1, <2>2, <2>7, <3>1
  <2> QED BY <1>3, <2>8, <2>9, NameEnds
<1>5. CASE ~NeedsQuotes(word)
  <2>1. q = word
    BY <1>5 DEF q, QuoteWord
  <2>2. \A j \in 1 .. e : l[j] # Blank /\ l[j] # Quote
    BY <1>2, <1>5, <2>1 DEF NeedsQuotes
  <2>3. l[1] # Quote
    BY <1>2, <2>2
  <2> QED BY <1>2, <1>3, <2>2, <2>3, NameEnds
<1> QED BY <1>4, <1>5

\* With a completion in the place of an argument the arguments begin where they did,
\* and the completion begins one.
LEMMA BeginsAlike ==
    ASSUME NEW S, {Blank, Quote, Backslash} \subseteq S, line \in Seq(S),
           NEW w \in Words(line), StandsBetweenBlanks(w), w.begin > 0, NEW c \in Seq(S)
    PROVE  LET b == w.begin
               l == Replaced(w, QuoteWord(c))
               e == b + Len(QuoteWord(c))
               a == ArgumentsBegin(line)
           IN  /\ ExecutableEnd(l) < b /\ ArgumentsBegin(l) = a
               /\ a \in Nat /\ b \in a .. Len(line) /\ b < e /\ e \in Nat /\ e <= Len(l)
               /\ b = a \/ b - 1 \in Breaks(line, a)
               /\ b = a \/ b - 1 \in Breaks(l, a)
<1> DEFINE b == w.begin
           q == QuoteWord(c)
           l == Replaced(w, q)
           e == b + Len(q)
           a == ArgumentsBegin(line)
           breaks == Breaks(line, a)
<1>0. q \in Seq(S) /\ Len(q) \in Nat /\ Len(q) >= 1 /\ q[1] # Blank
  <2>1. q \in Seq(S) /\ q # <<>> /\ q[1] # Blank
    BY QuoteWordBegins
  <2> HIDE DEF q
  <2> QED BY <2>1
<1>1. /\ b \in 0 .. Len(line) /\ Len(line) \in Nat /\ b > 0
      /\ l \in Seq(S) /\ Len(l) \in Nat /\ StandsAt(l, b, e, q)
      /\ \A i \in 1 .. b : l[i] = line[i]
  <2> HIDE DEF q
  <2>1. IsPartOf(line, w)
    BY WordsFacts DEF Divides
  <2>2. l \in Seq(S) /\ StandsAt(l, b, e, q) /\ \A i \in 1 .. b : l[i] = line[i]
    BY <1>0, <2>1, ReplacedFacts
  <2> QED BY <2>1, <2>2 DEF IsPartOf
<1>2. line[b] = Blank
  BY <1>1 DEF StandsBetweenBlanks
<1> HIDE DEF q, l, e
<1>3. /\ ExecutableEnd(line) < Len(line) /\ b \in a .. Len(line)
      /\ b = a \/ b - 1 \in breaks
  BY <1>1, WordBehindBlank
<1>4. a \in Nat /\ a <= b
  <2>1. a \in Nat
    BY ExecutableEndFacts, ArgumentsBeginFacts
  <2> HIDE DEF a
  <2> QED BY <1>1, <1>3, <2>1
<1>6. e = b + Len(q) /\ e <= Len(l) /\ \A j \in 1 .. Len(q) : l[b + j] = q[j]
  BY <1>1 DEF StandsAt
<1>7. b \in 1 .. Len(line) /\ b < Len(l) /\ b < e /\ e \in Nat /\ l[b + 1] # Blank
  BY <1>0, <1>1, <1>6
<1>8. /\ ExecutableEnd(l) = ExecutableEnd(line) /\ ExecutableEnd(line) < b
      /\ ArgumentsBegin(l) = a
  <2> HIDE DEF b
  <2> QED BY <1>1, <1>2, <1>3, <1>4, <1>7, SameBeginning
<1>9. b = a \/ b - 1 \in Breaks(l, a)
  <2> SUFFICES ASSUME b # a PROVE b - 1 \in Breaks(l, a)
    OBVIOUS
  <2> DEFINE i == b - 1
  <2>1. i \in breaks /\ i \in a .. b - 1 /\ b <= Len(l) /\ b \in a .. Len(line)
    <3>1. b - 1 \in breaks
      BY <1>3
    <3> HIDE DEF a, breaks
    <3> QED BY <1>1, <1>3, <1>4, <1>7, <3>1
  <2> HIDE DEF i, a, b
  <2>2. i \in Breaks(l, a)
    BY <1>1, <1>4, <2>1, SameBreaks
  <2> QED BY <2>2 DEF i
<1> QED BY <1>3, <1>4, <1>6, <1>7, <1>8, <1>9 DEF q, l, e

\* A completion that is inserted stands as one word.
LEMMA InsertedStands ==
    ASSUME NEW S, {Blank, Quote, Backslash} \subseteq S, line \in Seq(S),
           NEW w \in Words(line), StandsBetweenBlanks(w),
           NEW c \in Seq(S), w.begin = 0 => \A i \in 1 .. Len(c) : c[i] # Quote,
           NEW e, e = w.begin + Len(QuoteWord(c))
    PROVE  WordAt(Replaced(w, QuoteWord(c)), e) = Word(w.begin, e)
<1> DEFINE q == QuoteWord(c)
           b == w.begin
           l == Replaced(w, q)
           x == ExecutableEnd(l)
           a == ArgumentsBegin(l)
           breaks == Breaks(l, a)
           at == ArgvAt(l)
           ws == ParsedWords(l)
<1>1. q \in Seq(S) /\ Len(q) \in Nat /\ Len(q) >= 1 /\ q[1] # Blank
  <2>1. q \in Seq(S) /\ q # <<>> /\ q[1] # Blank
    BY QuoteWordBegins
  <2> HIDE DEF q
  <2> QED BY <2>1
<1>2. IsPartOf(line, w)
  BY WordsFacts DEF Divides
<1>3. /\ l \in Seq(S) /\ e <= Len(l)
      /\ \A i \in 1 .. b : l[i] = line[i]
      /\ StandsAt(l, b, e, q)
  <2> HIDE DEF q
  <2>1. e = w.begin + Len(q)
    BY DEF q
  <2> QED BY <1>1, <1>2, <2>1, ReplacedFacts
<1>4. b \in 0 .. Len(line) /\ Len(line) \in Nat /\ Len(l) \in Nat
  BY <1>2, <1>3 DEF IsPartOf
<1>5. /\ x \in 0 .. Len(l) /\ a \in x .. Len(l)
      /\ a < Len(l) => l[a + 1] # Blank
  BY <1>3, ExecutableEndFacts, ArgumentsBeginFacts DEF IsBlankAt
<1>6. Reading(S, l, a, breaks, at) /\ breaks \in SUBSET (a .. Len(l) - 1)
  <2>1. Reading(S, l, a, breaks, at)
    BY <1>3, ArgumentsReading
  <2> HIDE DEF l, a, breaks, at
  <2> QED BY <2>1 DEF Reading
<1>7. ws = {Word(0, x)} \cup Separated(l, a, breaks) /\ Word(0, x).begin = 0 /\ Word(0, x).end = x
  BY DEF ParsedWords, ArgumentsFrom, Word
<1>8. StandsBetweenBlanks(w) /\ (b > 0 => line[b] = Blank)
  BY <1>4 DEF StandsBetweenBlanks
<1>9. e = b + Len(q)
  OBVIOUS
<1> HIDE DEF l, x, a, breaks, at, ws
<1>10. \A u \in Separated(l, a, breaks) :
           /\ u.begin \in a .. Len(l) - 1
           /\ u.begin = a \/ u.begin - 1 \in breaks
           /\ u.end = Len(l) \/ u.end \in breaks
  <2>1. a \in 0 .. Len(l)
    BY <1>4, <1>5
  <2> QED BY <1>4, <1>6, <2>1, SeparatedFacts
<1>11. e = Len(l) \/ l[e + 1] = Blank
  <2> HIDE DEF q, b
  <2> QED BY <1>3 DEF StandsAt
<1>12. CASE b = 0
  <2>1. StandsAt(l, 0, e, QuoteWord(c)) /\ \A i \in 1 .. Len(c) : c[i] # Quote
    BY <1>3, <1>12
  <2>2. x = e
    BY <1>3, <2>1, QuotedName DEF x
  <2>3. Word(0, e) \in ws
    BY <1>7, <2>2
  <2>4. \A u \in ws : ~(u.begin < 0 /\ u.end = 0)
    <3>1. \A u \in ws : u.begin \in Nat
      BY <1>3, ParsedWordsFacts DEF Divides, IsPartOf, ws
    <3> QED BY <3>1
  <2>5. ASSUME NEW u \in ws, u.begin <= e PROVE u.begin <= 0
    <3>1. CASE u \in Separated(l, a, breaks)
      <4>1. u.begin \in a .. Len(l) - 1
        BY <1>10, <3>1
      <4>2. a = e /\ a < Len(l)
        <5> HIDE DEF q, b
        <5> QED BY <1>4, <1>5, <2>2, <2>5, <4>1
      <4> QED BY <1>5, <1>11, <4>2
    <3>2. CASE u = Word(0, x)
      BY <1>7, <3>2
    <3> QED BY <1>7, <3>1, <3>2
  <2>6. 0 \in 0 .. Len(l) /\ e \in 0 + 1 .. Len(l)
    <3>1. e = Len(q)
      BY <1>1, <1>9, <1>12
    <3> HIDE DEF q, b
    <3> QED BY <1>1, <1>3, <1>4, <3>1
  <2>7. WordAt(l, e) = Word(0, e)
    <3> DEFINE z == 0
    <3>1. /\ z \in 0 .. Len(l) /\ e \in z + 1 .. Len(l) /\ Word(z, e) \in ParsedWords(l)
          /\ \A u \in ParsedWords(l) : ~(u.begin < z /\ u.end = z)
          /\ \A u \in ParsedWords(l) : u.begin <= e => u.begin <= z
      BY <2>3, <2>4, <2>5, <2>6 DEF ws
    <3> HIDE DEF z
    <3>2. WordAt(l, e) = Word(z, e)
      BY <1>3, <1>11, <3>1, StandingWord
    <3> QED BY <3>2 DEF z
  <2> QED BY <1>12, <2>7 DEF l, q
<1>13. CASE b > 0
  <2>1. /\ x < b /\ a \in Nat /\ b \in a .. Len(line) /\ b < e /\ e \in Nat
        /\ b = a \/ b - 1 \in breaks
    <3> DEFINE z == b + Len(q)
    <3>1. z = e
      BY <1>9
    <3>2. /\ ExecutableEnd(l) < b /\ ArgumentsBegin(l) = ArgumentsBegin(line)
          /\ ArgumentsBegin(line) \in Nat /\ b \in ArgumentsBegin(line) .. Len(line)
          /\ b < z /\ z \in Nat
          /\ b = ArgumentsBegin(line) \/ b - 1 \in Breaks(l, ArgumentsBegin(line))
      BY <1>8, <1>13, BeginsAlike DEF l
    <3> HIDE DEF z, b
    <3> QED BY <3>1, <3>2 DEF x, a, breaks
  <2>2. a \in Nat /\ a <= b
    <3> HIDE DEF b
    <3> QED BY <1>4, <2>1
  <2>3. b < e /\ e \in Nat /\ b \in Nat /\ e <= Len(l)
    BY <1>3, <1>4, <2>1
  <2>4. /\ Word(b, e) \in Separated(l, a, breaks)
        /\ \A i \in b .. e - 1 : i \notin breaks
    <3>1. b \in a .. Len(l)
      <4> HIDE DEF b
      <4> QED BY <1>3, <1>4, <2>2, <2>3
    <3>2. StandsAt(l, b, e, QuoteWord(c))
      BY <1>3
    <3> HIDE DEF b
    <3> QED BY <1>3, <1>6, <2>1, <3>1, <3>2, QuotedArgument
  <2> HIDE DEF b, q
  <2>5. Word(b, e) \in ws
    BY <1>7, <2>4
  <2>6. ASSUME NEW u \in ws, u.begin < b, u.end = b PROVE FALSE
    <3>1. CASE u \in Separated(l, a, breaks)
      <4>1. b \in b .. e - 1
        BY <2>3
      <4> QED BY <1>4, <1>10, <2>3, <2>4, <2>6, <3>1, <4>1
    <3>2. CASE u = Word(0, x)
      BY <1>5, <1>7, <2>1, <2>3, <2>6, <3>2
    <3> QED BY <1>7, <3>1, <3>2
  <2>7. ASSUME NEW u \in ws, u.begin <= e PROVE u.begin <= b
    <3>1. CASE u \in Separated(l, a, breaks)
      <4>1. u.begin \in Int /\ (u.begin = a \/ u.begin - 1 \in breaks)
        BY <1>4, <1>5, <1>10, <3>1
      <4>2. ~(u.begin > b)
        <5> SUFFICES ASSUME u.begin > b PROVE FALSE
          OBVIOUS
        <5>1. u.begin - 1 \in b .. e - 1
          BY <2>3, <2>7, <4>1
        <5>2. u.begin # a
          BY <2>2, <2>3, <4>1
        <5> QED BY <2>4, <4>1, <5>1, <5>2
      <4> QED BY <2>3, <4>1, <4>2
    <3>2. CASE u = Word(0, x)
      BY <1>7, <2>3, <3>2
    <3> QED BY <1>7, <3>1, <3>2
  <2>8. b \in 0 .. Len(l) /\ e \in b + 1 .. Len(l)
    BY <1>3, <1>4, <2>3
  <2>9. WordAt(l, e) = Word(b, e)
    BY <1>3, <1>11, <2>5, <2>6, <2>7, <2>8, StandingWord DEF ws
  <2> QED BY <2>9 DEF l, q, b
<1> QED BY <1>4, <1>12, <1>13

\* What Windows has read when the line ends in a state.
ReadBy(st) == IF st.open THEN Append(st.args, st.out) ELSE st.args

\* The state when another word was read at a place; at place 0 there is none.
Instead(st, r, c) ==
    [args |-> ReplaceAt(st.args, r, c), open |-> st.open, out |-> st.out,
     quotes |-> st.quotes, backslashes |-> st.backslashes, inRun |-> st.inRun]

\* Replacing an entry of a list, or none, leaves a list, whatever follows it.
LEMMA ReplaceAtFacts ==
    ASSUME NEW S, NEW s \in Seq(S), NEW r \in 0 .. Len(s), NEW c \in S
    PROVE  /\ ReplaceAt(s, r, c) \in Seq(S)
           /\ \A d \in S : /\ r \in 0 .. Len(Append(s, d))
                           /\ ReplaceAt(Append(s, d), r, c) = Append(ReplaceAt(s, r, c), d)
<1> DEFINE n == Len(s)
           t == ReplaceAt(s, r, c)
<1>1. n \in Nat /\ s \in [1 .. n -> S]
  OBVIOUS
<1>2. t = [i \in 1 .. n |-> IF i = r THEN c ELSE s[i]]
  BY <1>1 DEF ReplaceAt
<1>3. t \in Seq(S) /\ Len(t) = n /\ \A i \in 1 .. n : t[i] = IF i = r THEN c ELSE s[i]
  <2> HIDE DEF n, t
  <2>1. t \in Seq(S)
    BY <1>1, <1>2
  <2> QED BY <1>1, <1>2, <2>1
<1>4. ASSUME NEW d \in S
      PROVE  /\ r \in 0 .. Len(Append(s, d))
             /\ ReplaceAt(Append(s, d), r, c) = Append(t, d)
  <2> DEFINE u == Append(s, d)
             v == ReplaceAt(u, r, c)
             w == Append(t, d)
  <2>1. /\ u \in Seq(S) /\ Len(u) = n + 1 /\ u[n + 1] = d /\ \A i \in 1 .. n : u[i] = s[i]
        /\ w \in Seq(S) /\ Len(w) = n + 1 /\ w[n + 1] = d /\ \A i \in 1 .. n : w[i] = t[i]
    <3> HIDE DEF t
    <3> QED BY <1>3, AppendFacts
  <2>2. u \in [1 .. n + 1 -> S] /\ w \in [1 .. n + 1 -> S]
    <3> HIDE DEF u, w, t, n
    <3> QED BY <1>1, <2>1
  <2>3. r \in 0 .. n
    OBVIOUS
  <2> HIDE DEF u, w, t, n
  <2>4. v = [i \in 1 .. n + 1 |-> IF i = r THEN c ELSE u[i]]
    BY <2>2 DEF ReplaceAt
  <2>5. ASSUME NEW i \in 1 .. n + 1 PROVE v[i] = w[i]
    <3>1. CASE i = n + 1
      BY <1>1, <2>1, <2>3, <2>4, <3>1
    <3>2. CASE i # n + 1
      <4>1. i \in 1 .. n
        BY <1>1, <3>2
      <4> QED BY <1>3, <2>1, <2>4, <4>1
    <3> QED BY <3>1, <3>2
  <2>6. v = w
    BY <2>2, <2>4, <2>5
  <2> QED BY <1>1, <2>1, <2>3, <2>6 DEF u, w
<1> QED BY <1>3, <1>4 DEF t

\* Which words have been read before makes no difference to how a line is read on.
LEMMA InsteadStep ==
    ASSUME NEW S, {Blank, Quote, Backslash} \subseteq S, NEW st \in ArgvStates(S),
           NEW ch \in S, NEW c \in Seq(S), NEW r \in 0 .. Len(st.args)
    PROVE  /\ ArgvStep(Instead(st, r, c), ch) = Instead(ArgvStep(st, ch), r, c)
           /\ r \in 0 .. Len(ArgvStep(st, ch).args)
<1> DEFINE args == ReplaceAt(st.args, r, c)
           o == Instead(st, r, c)
<1>1. /\ st.args \in Seq(Seq(S)) /\ st.open \in BOOLEAN /\ st.out \in Seq(S)
      /\ st.quotes \in 0 .. 2 /\ st.backslashes \in Nat /\ st.inRun \in BOOLEAN
      /\ st = [args |-> st.args, open |-> st.open, out |-> st.out, quotes |-> st.quotes,
               backslashes |-> st.backslashes, inRun |-> st.inRun]
  BY DEF ArgvStates
<1>2. /\ args \in Seq(Seq(S))
      /\ \A d \in Seq(S) : /\ r \in 0 .. Len(Append(st.args, d))
                           /\ ReplaceAt(Append(st.args, d), r, c) = Append(args, d)
  <2> DEFINE T == Seq(S)
             s == st.args
  <2>1. s \in Seq(T) /\ c \in T /\ r \in 0 .. Len(s)
    BY <1>1
  <2> HIDE DEF T, s, args
  <2>2. /\ ReplaceAt(s, r, c) \in Seq(T)
        /\ \A d \in T : /\ r \in 0 .. Len(Append(s, d))
                        /\ ReplaceAt(Append(s, d), r, c) = Append(ReplaceAt(s, r, c), d)
    BY ONLY <2>1, ReplaceAtFacts
  <2> QED BY <2>2 DEF T, s, args
<1>3. o = [args |-> args, open |-> st.open, out |-> st.out, quotes |-> st.quotes,
           backslashes |-> st.backslashes, inRun |-> st.inRun]
  BY DEF Instead
<1> SUFFICES /\ ArgvStep(o, ch) = Instead(ArgvStep(st, ch), r, c)
             /\ r \in 0 .. Len(ArgvStep(st, ch).args)
  OBVIOUS
<1>0. args = ReplaceAt(st.args, r, c) /\ r \in 0 .. Len(st.args)
  OBVIOUS
<1> HIDE DEF args, o
<1>4. /\ o \in ArgvStates(S) /\ o.args = args /\ o.open = st.open /\ o.out = st.out
      /\ o.quotes = st.quotes /\ o.backslashes = st.backslashes /\ o.inRun = st.inRun
  BY <1>1, <1>2, <1>3 DEF ArgvStates
<1>5. CASE ch = Blank /\ st.quotes # 1
  <2>1. ArgvStep(st, ch) =
            [args |-> IF st.open THEN Append(st.args, st.out) ELSE st.args, open |-> FALSE,
             out |-> <<>>, quotes |-> 0, backslashes |-> 0, inRun |-> FALSE]
    BY <1>5, ArgvBlankFacts
  <2>2. ArgvStep(o, ch) =
            [args |-> IF o.open THEN Append(o.args, o.out) ELSE o.args, open |-> FALSE,
             out |-> <<>>, quotes |-> 0, backslashes |-> 0, inRun |-> FALSE]
    BY <1>4, <1>5, ArgvBlankFacts
  <2> DEFINE read == IF st.open THEN Append(st.args, st.out) ELSE st.args
             changed == IF o.open THEN Append(o.args, o.out) ELSE o.args
             next == ArgvStep(st, ch)
  <2>3. r \in 0 .. Len(read) /\ ReplaceAt(read, r, c) = changed
    BY <1>0, <1>1, <1>2, <1>4
  <2> HIDE DEF read, changed
  <2>4. next = [args |-> read, open |-> FALSE, out |-> <<>>, quotes |-> 0,
                backslashes |-> 0, inRun |-> FALSE]
    BY <2>1 DEF read
  <2>5. ArgvStep(o, ch) = [args |-> changed, open |-> FALSE, out |-> <<>>, quotes |-> 0,
                           backslashes |-> 0, inRun |-> FALSE]
    BY <2>2 DEF changed
  <2> HIDE DEF next
  <2>6. Instead(next, r, c) = ArgvStep(o, ch) /\ r \in 0 .. Len(next.args)
    BY <2>3, <2>4, <2>5 DEF Instead
  <2> QED BY <2>6 DEF next
<1>6. CASE ch = Quote
  <2> DEFINE next == ArgvStep(st, ch)
  <2>1. Blank # Quote
    BY CharsAssumption
  <2>2. /\ next = [ArgvQuote(st) EXCEPT !.open = TRUE]
        /\ ArgvStep(o, ch) = [ArgvQuote(o) EXCEPT !.open = TRUE]
    BY <1>6, <2>1 DEF ArgvStep
  <2> DEFINE half == st.backslashes \div 2
             quotes == CASE st.inRun -> (st.quotes + 1) % 3
                         [] ~st.inRun /\ st.backslashes % 2 = 0 -> Settled(st.quotes) + 1
                         [] OTHER -> Settled(st.quotes)
             out == CASE st.inRun /\ st.quotes = 2 -> Append(st.out, Quote)
                      [] st.inRun /\ st.quotes # 2 -> st.out
                      [] ~st.inRun /\ st.backslashes % 2 = 0 -> Dropped(st.out, half)
                      [] OTHER -> Append(Dropped(st.out, half + 1), Quote)
  <2>3. ArgvQuote(st) = [st EXCEPT !.backslashes = 0, !.inRun = TRUE, !.quotes = quotes, !.out = out]
    BY DEF ArgvQuote
  <2>4. ArgvQuote(o) = [o EXCEPT !.backslashes = 0, !.inRun = TRUE, !.quotes = quotes, !.out = out]
    BY <1>4 DEF ArgvQuote
  <2> HIDE DEF quotes, out, next
  <2>5. next = [args |-> st.args, open |-> TRUE, out |-> out, quotes |-> quotes,
                backslashes |-> 0, inRun |-> TRUE]
    BY <1>1, <2>2, <2>3
  <2>6. ArgvStep(o, ch) = [args |-> args, open |-> TRUE, out |-> out, quotes |-> quotes,
                           backslashes |-> 0, inRun |-> TRUE]
    BY <1>3, <2>2, <2>4
  <2>7. Instead(next, r, c) = [args |-> args, open |-> TRUE, out |-> out, quotes |-> quotes,
                               backslashes |-> 0, inRun |-> TRUE]
    BY <1>0, <2>5 DEF Instead
  <2>8. r \in 0 .. Len(next.args)
    BY <1>0, <2>5
  <2> QED BY <2>6, <2>7, <2>8 DEF next
<1>7. CASE ch # Quote /\ (ch # Blank \/ st.quotes = 1)
  <2> DEFINE backslashes == IF ch = Backslash THEN st.backslashes + 1 ELSE 0
             next == ArgvStep(st, ch)
  <2>1. next = [args |-> st.args, open |-> TRUE, out |-> Append(st.out, ch),
                quotes |-> Settled(st.quotes), backslashes |-> backslashes, inRun |-> FALSE]
    BY <1>7, ArgvOtherFacts
  <2>2. ArgvStep(o, ch) = [args |-> args, open |-> TRUE, out |-> Append(st.out, ch),
                           quotes |-> Settled(st.quotes), backslashes |-> backslashes, inRun |-> FALSE]
    <3>1. ArgvStep(o, ch) = [args |-> o.args, open |-> TRUE, out |-> Append(o.out, ch),
                             quotes |-> Settled(o.quotes),
                             backslashes |-> IF ch = Backslash THEN o.backslashes + 1 ELSE 0,
                             inRun |-> FALSE]
      BY <1>4, <1>7, ArgvOtherFacts
    <3> QED BY <1>4, <3>1
  <2> HIDE DEF next, backslashes
  <2>3. Instead(next, r, c) = ArgvStep(o, ch) /\ r \in 0 .. Len(next.args)
    BY <1>0, <2>1, <2>2 DEF Instead
  <2> QED BY <2>3 DEF next
<1> QED BY <1>5, <1>6, <1>7

\* Replacing entry 0 replaces none; replacing the last is appending another.
LEMMA ReplaceEnds ==
    ASSUME NEW S, NEW s \in Seq(S), NEW c \in S
    PROVE  /\ ReplaceAt(s, 0, c) = s
           /\ \A d \in S : ReplaceAt(Append(s, d), Len(s) + 1, c) = Append(s, c)
<1> DEFINE n == Len(s)
<1>1. n \in Nat /\ s \in [1 .. n -> S]
  OBVIOUS
<1>2. ReplaceAt(s, 0, c) = s
  <2>1. ReplaceAt(s, 0, c) = [i \in 1 .. n |-> s[i]]
    <3>1. ReplaceAt(s, 0, c) = [i \in 1 .. n |-> IF i = 0 THEN c ELSE s[i]]
      BY <1>1 DEF ReplaceAt
    <3> QED BY <1>1, <3>1
  <2> QED BY <1>1, <2>1
<1>3. ASSUME NEW d \in S PROVE ReplaceAt(Append(s, d), n + 1, c) = Append(s, c)
  <2> DEFINE u == Append(s, d)
             v == ReplaceAt(u, n + 1, c)
             w == Append(s, c)
  <2>1. /\ u \in Seq(S) /\ Len(u) = n + 1 /\ u[n + 1] = d /\ \A i \in 1 .. n : u[i] = s[i]
        /\ w \in Seq(S) /\ Len(w) = n + 1 /\ w[n + 1] = c /\ \A i \in 1 .. n : w[i] = s[i]
    BY AppendFacts
  <2>2. u \in [1 .. n + 1 -> S] /\ w \in [1 .. n + 1 -> S]
    <3> HIDE DEF u, w, n
    <3> QED BY <1>1, <2>1
  <2> HIDE DEF u, w, n
  <2>3. v = [i \in 1 .. n + 1 |-> IF i = n + 1 THEN c ELSE u[i]]
    BY <2>2 DEF ReplaceAt
  <2>4. ASSUME NEW i \in 1 .. n + 1 PROVE v[i] = w[i]
    <3>1. i = n + 1 \/ i \in 1 .. n
      BY <1>1
    <3> QED BY <2>1, <2>3, <3>1
  <2>5. v = w
    BY <2>2, <2>3, <2>4
  <2> QED BY <2>5 DEF u, w
<1> QED BY <1>2, <1>3

\* From d and e on two lines f and l go on alike, and Windows, which reads them from
\* there on, has read the one as the other but for the word at the place r.
ReadAlike(S, f, d, from, l, e, at, r, c) ==
    /\ f \in Seq(S) /\ d \in 0 .. Len(f)
    /\ l \in Seq(S) /\ e \in 0 .. Len(l) /\ Len(l) - e = Len(f) - d
    /\ \A j \in 1 .. Len(f) - d : l[e + j] = f[d + j]
    /\ \A i \in d .. Len(f) - 1 : from[i + 1] = ArgvStep(from[i], f[i + 1])
    /\ \A i \in e .. Len(l) - 1 : at[i + 1] = ArgvStep(at[i], l[i + 1])
    /\ from[d] \in ArgvStates(S) /\ at[e] = Instead(from[d], r, c)
    /\ c \in Seq(S) /\ r \in 0 .. Len(from[d].args)

\* Then this is so at their ends.
LEMMA RestIsRead ==
    ASSUME NEW S, {Blank, Quote, Backslash} \subseteq S, NEW f, NEW d, NEW from,
           NEW l, NEW e, NEW at, NEW r, NEW c, ReadAlike(S, f, d, from, l, e, at, r, c)
    PROVE  /\ ReadBy(from[Len(f)]) \in Seq(Seq(S))
           /\ r \in 0 .. Len(ReadBy(from[Len(f)]))
           /\ ReadBy(at[Len(l)]) = ReplaceAt(ReadBy(from[Len(f)]), r, c)
<1> DEFINE m == Len(f) - d
           Alike(j) == /\ from[d + j] \in ArgvStates(S)
                       /\ r \in 0 .. Len(from[d + j].args)
                       /\ at[e + j] = Instead(from[d + j], r, c)
           T == {j \in 0 .. m : Alike(j)}
<1>0. /\ f \in Seq(S) /\ l \in Seq(S) /\ d \in Nat /\ e \in Nat /\ m \in Nat
      /\ Len(f) = d + m /\ Len(l) = e + m /\ \A j \in 1 .. m : l[e + j] = f[d + j]
      /\ \A i \in d .. Len(f) - 1 : from[i + 1] = ArgvStep(from[i], f[i + 1])
      /\ \A i \in e .. Len(l) - 1 : at[i + 1] = ArgvStep(at[i], l[i + 1])
      /\ from[d] \in ArgvStates(S) /\ at[e] = Instead(from[d], r, c)
      /\ c \in Seq(S) /\ r \in 0 .. Len(from[d].args)
  <2>1. /\ f \in Seq(S) /\ d \in 0 .. Len(f)
        /\ l \in Seq(S) /\ e \in 0 .. Len(l) /\ Len(l) - e = m
        /\ \A j \in 1 .. m : l[e + j] = f[d + j]
        /\ \A i \in d .. Len(f) - 1 : from[i + 1] = ArgvStep(from[i], f[i + 1])
        /\ \A i \in e .. Len(l) - 1 : at[i + 1] = ArgvStep(at[i], l[i + 1])
        /\ from[d] \in ArgvStates(S) /\ at[e] = Instead(from[d], r, c)
        /\ c \in Seq(S) /\ r \in 0 .. Len(from[d].args)
    BY DEF ReadAlike
  <2>2. d \in Nat /\ e \in Nat /\ m \in Nat /\ Len(f) = d + m /\ Len(l) = e + m
    BY <2>1
  <2> QED BY <2>1, <2>2
<1> HIDE DEF m
<1>1. 0 \in T
  <2>1. 0 \in 0 .. m /\ d + 0 = d /\ e + 0 = e /\ r \in 0 .. Len(from[d].args)
    BY <1>0
  <2>2. Alike(0)
    BY <1>0, <2>1
  <2> HIDE DEF Alike
  <2> QED BY <2>1, <2>2
<1>2. ASSUME NEW j \in 0 .. m - 1, j \in T PROVE j + 1 \in T
  <2> DEFINE st == from[d + j]
             ch == f[(d + j) + 1]
  <2>1. /\ d + j \in d .. Len(f) - 1 /\ d + (j + 1) = (d + j) + 1 /\ (d + j) + 1 \in 1 .. Len(f)
        /\ e + j \in e .. Len(l) - 1 /\ e + (j + 1) = (e + j) + 1
        /\ j + 1 \in 1 .. m /\ j + 1 \in 0 .. m
    <3>1. d \in Nat /\ e \in Nat /\ m \in Nat /\ Len(f) = d + m /\ Len(l) = e + m
      BY <1>0
    <3> QED BY <3>1
  <2>2. st \in ArgvStates(S) /\ r \in 0 .. Len(st.args) /\ at[e + j] = Instead(st, r, c)
    BY <1>2
  <2>3. ch \in S /\ l[(e + j) + 1] = ch
    <3>1. \A i \in 1 .. m : l[e + i] = f[d + i]
      BY <1>0
    <3>2. l[e + (j + 1)] = f[d + (j + 1)]
      BY <2>1, <3>1
    <3>3. l[(e + j) + 1] = ch
      BY <2>1, <3>2
    <3>4. f \in Seq(S) /\ (d + j) + 1 \in 1 .. Len(f)
      BY <1>0, <2>1
    <3>5. ch \in S
      BY <3>4
    <3> QED BY <3>3, <3>5
  <2>4. from[d + (j + 1)] = ArgvStep(st, ch)
    <3>1. \A i \in d .. Len(f) - 1 : from[i + 1] = ArgvStep(from[i], f[i + 1])
      BY <1>0
    <3>2. from[(d + j) + 1] = ArgvStep(st, ch)
      BY <2>1, <3>1
    <3> QED BY <2>1, <3>2
  <2>5. at[e + (j + 1)] = ArgvStep(Instead(st, r, c), ch)
    <3>1. \A i \in e .. Len(l) - 1 : at[i + 1] = ArgvStep(at[i], l[i + 1])
      BY <1>0
    <3>2. at[(e + j) + 1] = ArgvStep(at[e + j], l[(e + j) + 1])
      BY <2>1, <3>1
    <3> QED BY <2>1, <2>2, <2>3, <3>2
  <2> HIDE DEF st, ch
  <2>6. /\ ArgvStep(Instead(st, r, c), ch) = Instead(ArgvStep(st, ch), r, c)
        /\ r \in 0 .. Len(ArgvStep(st, ch).args)
    <3>1. {Blank, Quote, Backslash} \subseteq S /\ c \in Seq(S)
      BY <1>0
    <3> QED BY <2>2, <2>3, <3>1, InsteadStep
  <2>7. ArgvStep(st, ch) \in ArgvStates(S)
    BY <2>2, <2>3, ArgvStepFacts
  <2>8. Alike(j + 1)
    BY <2>4, <2>5, <2>6, <2>7
  <2> HIDE DEF Alike
  <2> QED BY <2>1, <2>8
<1> HIDE DEF T
<1>3. m \in T
  <2>1. \A j \in 0 .. m : j \in T
    BY <1>0, <1>1, <1>2, Upwards
  <2> QED BY <1>0, <2>1
<1> DEFINE st == from[Len(f)]
           U == Seq(S)
           s == st.args
<1>4. st \in ArgvStates(S) /\ r \in 0 .. Len(st.args) /\ at[Len(l)] = Instead(st, r, c)
  BY <1>0, <1>3 DEF T
<1> HIDE DEF st
<1>5. s \in Seq(U) /\ st.out \in U /\ c \in U /\ r \in 0 .. Len(s) /\ st.open \in BOOLEAN
  BY <1>0, <1>4 DEF ArgvStates
<1> HIDE DEF U, s
<1>6. /\ ReplaceAt(s, r, c) \in Seq(U)
      /\ \A d0 \in U : /\ r \in 0 .. Len(Append(s, d0))
                       /\ ReplaceAt(Append(s, d0), r, c) = Append(ReplaceAt(s, r, c), d0)
  BY ONLY <1>5, ReplaceAtFacts
<1>7. /\ r \in 0 .. Len(Append(s, st.out)) /\ Append(s, st.out) \in Seq(U)
      /\ ReplaceAt(Append(s, st.out), r, c) = Append(ReplaceAt(s, r, c), st.out)
  BY <1>5, <1>6, AppendFacts
<1>8. ReadBy(st) = IF st.open THEN Append(s, st.out) ELSE s
  BY DEF ReadBy, s
<1>9. ReadBy(at[Len(l)]) = IF st.open THEN Append(ReplaceAt(s, r, c), st.out) ELSE ReplaceAt(s, r, c)
  BY <1>4 DEF ReadBy, Instead, s
<1> QED BY <1>5, <1>7, <1>8, <1>9 DEF st, U

\* The place of an argument is one more than Windows has read before it.
LEMMA PlaceOfArgument ==
    ASSUME NEW S, {Blank, Quote, Backslash} \subseteq S, line \in Seq(S),
           NEW w, NEW b, b = w.begin, b > 0, b \in ArgumentsBegin(line) .. Len(line)
    PROVE  Place(w) = CountRead(ArgvAt(line)[b]) + 1
<1> DEFINE arguments == ArgumentsFrom(line, ArgumentsBegin(line))
           name == Word(0, ExecutableEnd(line))
           upto == ArgumentsUpto(line, b)
<1>1. IsFiniteSet(upto) /\ Cardinality(upto) = CountRead(ArgvAt(line)[b])
  <2> DEFINE a == ArgumentsBegin(line)
  <2>1. \A p \in a .. Len(line) :
            /\ IsFiniteSet(ArgumentsUpto(line, p))
            /\ Cardinality(ArgumentsUpto(line, p)) = CountRead(ArgvAt(line)[p])
    BY ArgumentsCounted
  <2>2. b \in a .. Len(line)
    OBVIOUS
  <2> HIDE DEF a
  <2> QED BY <2>1, <2>2
<1>2. line # <<>>
  <2>1. Len(line) \in Nat /\ ArgumentsBegin(line) \in Nat
    BY ExecutableEndFacts, ArgumentsBeginFacts
  <2> QED BY <2>1
<1>3. name \notin arguments /\ name.begin = 0
  BY <1>2, NameIsNoArgument DEF Word
<1>4. ParsedWords(line) = {name} \cup arguments
  BY DEF ParsedWords
<1> HIDE DEF name, arguments
<1>5. {u \in ParsedWords(line) : u.begin < w.begin} = upto \cup {name} /\ name \notin upto
  <2>1. upto = {u \in arguments : u.begin < b}
    BY DEF ArgumentsUpto, arguments
  <2> QED BY <1>3, <1>4, <2>1
<1>6. Cardinality(upto \cup {name}) = Cardinality(upto) + 1
  <2> HIDE DEF upto
  <2> QED BY <1>1, <1>5, FS_AddElement
<1> QED BY <1>1, <1>5, <1>6 DEF Place

\* In the place of the executable's name nothing changes what is read of the arguments.
LEMMA NameIsRead ==
    ASSUME NEW S, {Blank, Quote, Backslash} \subseteq S, line \in Seq(S),
           NEW w \in Words(line), StandsBetweenBlanks(w), w.begin = 0,
           w \in ParsedWords(line) \/ w.begin = Len(line),
           NEW c \in Seq(S), \A i \in 1 .. Len(c) : c[i] # Quote
    PROVE  CommandLineToArgvW(Replaced(w, QuoteWord(c))) = WithArgument(Place(w), c)
<1> DEFINE q == QuoteWord(c)
           l == Replaced(w, q)
           n == Len(line)
           x == ExecutableEnd(line)
           e == Len(q)
           from == ArgvAt(line)
           at == ArgvAt(l)
           m == n - x
<1>1. q \in Seq(S) /\ e \in Nat
  <2>1. q \in Seq(S)
    BY QuoteWordBegins
  <2> HIDE DEF q
  <2> QED BY <2>1
<1>2. IsPartOf(line, w) /\ n \in Nat /\ x \in 0 .. n
  BY WordsFacts, ExecutableEndFacts DEF Divides
<1>3. w.end = x
  <2>1. CASE w \in ParsedWords(line)
    <3>1. Word(0, x) \in ParsedWords(line) /\ Word(0, x).begin = 0 /\ Word(0, x).end = x
      BY DEF ParsedWords, Word
    <3>2. \A u, v \in ParsedWords(line) : u.begin = v.begin => u = v
      BY ParsedWordsFacts DEF Divides
    <3> QED BY <2>1, <3>1, <3>2
  <2>2. CASE w.begin = Len(line)
    BY <1>2, <2>2 DEF IsPartOf
  <2> QED BY <2>1, <2>2
<1>4. /\ l \in Seq(S) /\ StandsAt(l, 0, e, q) /\ Len(l) = e + m /\ m \in Nat /\ n = x + m
      /\ \A j \in 1 .. m : l[e + j] = line[x + j]
  <2> HIDE DEF q
  <2>1. /\ l \in Seq(S) /\ StandsAt(l, w.begin, w.begin + Len(q), q)
        /\ Len(l) = (w.begin + Len(q)) + (n - w.end)
        /\ \A j \in 1 .. n - w.end : l[(w.begin + Len(q)) + j] = line[w.end + j]
    BY <1>1, <1>2, ReplacedFacts
  <2>2. w.begin + Len(q) = e
    BY <1>1
  <2>3. m \in Nat /\ n = x + m
    BY <1>2
  <2> QED BY <1>3, <2>1, <2>2, <2>3
<1>5. ExecutableEnd(l) = e
  BY <1>4, QuotedName
<1>6. /\ from[x] = ArgvBegin
      /\ \A i \in x + 1 .. n : from[i] = ArgvStep(from[i - 1], line[i])
      /\ CommandLineToArgvW(line) = ReadBy(from[n])
  BY ArgvFacts DEF ReadBy
<1>7. /\ at[e] = ArgvBegin
      /\ \A i \in e + 1 .. Len(l) : at[i] = ArgvStep(at[i - 1], l[i])
      /\ CommandLineToArgvW(l) = ReadBy(at[Len(l)])
  <2> HIDE DEF l, e
  <2> QED BY <1>4, <1>5, ArgvFacts DEF ReadBy
<1> HIDE DEF q, l, e, x, from, at, m
<1>8. \A i \in x .. n - 1 : from[i + 1] = ArgvStep(from[i], line[i + 1])
  <2> SUFFICES ASSUME NEW i \in x .. n - 1 PROVE from[i + 1] = ArgvStep(from[i], line[i + 1])
    OBVIOUS
  <2>1. i + 1 \in x + 1 .. n /\ (i + 1) - 1 = i
    BY <1>2
  <2> QED BY <1>6, <2>1
<1>9. \A i \in e .. Len(l) - 1 : at[i + 1] = ArgvStep(at[i], l[i + 1])
  <2> SUFFICES ASSUME NEW i \in e .. Len(l) - 1 PROVE at[i + 1] = ArgvStep(at[i], l[i + 1])
    OBVIOUS
  <2>1. i + 1 \in e + 1 .. Len(l) /\ (i + 1) - 1 = i
    BY <1>1, <1>4
  <2> QED BY <1>7, <2>1
<1>10. /\ from[x] \in ArgvStates(S) /\ 0 \in 0 .. Len(from[x].args)
       /\ at[e] = Instead(from[x], 0, c)
  <2> DEFINE U == Seq(S)
  <2>1. <<>> \in Seq(U) /\ c \in U
    OBVIOUS
  <2> HIDE DEF U
  <2>2. ReplaceAt(<<>>, 0, c) = <<>>
    BY ONLY <2>1, ReplaceEnds
  <2>3. ArgvBegin \in ArgvStates(S) /\ ArgvBegin.args = <<>> /\ 0 \in 0 .. Len(<<>>)
    BY DEF ArgvBegin, ArgvStates
  <2>4. Instead(ArgvBegin, 0, c) = ArgvBegin
    BY <2>2 DEF Instead, ArgvBegin
  <2> QED BY <1>6, <1>7, <2>3, <2>4
<1> DEFINE r == 0
<1>11. /\ ReadBy(from[n]) \in Seq(Seq(S))
       /\ ReadBy(at[Len(l)]) = ReplaceAt(ReadBy(from[n]), r, c)
  <2>1. r \in 0 .. Len(from[x].args) /\ at[e] = Instead(from[x], r, c)
    BY <1>10
  <2> HIDE DEF r
  <2>2. /\ x \in 0 .. n /\ e \in 0 .. Len(l) /\ Len(l) - e = n - x
        /\ \A j \in 1 .. n - x : l[e + j] = line[x + j]
    BY <1>1, <1>2, <1>4 DEF m
  <2>3. ReadAlike(S, line, x, from, l, e, at, r, c)
    BY <1>4, <1>8, <1>9, <1>10, <2>1, <2>2 DEF ReadAlike
  <2> QED BY <2>3, RestIsRead
<1>12. ReplaceAt(ReadBy(from[n]), 0, c) = ReadBy(from[n])
  <2> DEFINE U == Seq(S)
             s == ReadBy(from[n])
  <2>1. s \in Seq(U) /\ c \in U
    BY <1>11
  <2> HIDE DEF U, s
  <2>2. ReplaceAt(s, 0, c) = s
    BY ONLY <2>1, ReplaceEnds
  <2> QED BY <2>2 DEF s
<1>13. Place(w) = 0
  <2>1. \A u \in ParsedWords(line) : u.begin \in Nat
    BY ParsedWordsFacts DEF Divides, IsPartOf
  <2>2. {u \in ParsedWords(line) : u.begin < w.begin} = {}
    BY <2>1
  <2> QED BY <2>2, FS_EmptySet DEF Place
<1>14. CommandLineToArgvW(l) = CommandLineToArgvW(line)
  BY <1>6, <1>7, <1>11, <1>12
<1> QED BY <1>13, <1>14 DEF WithArgument, l, q

\* In the place of an argument Windows reads the completion.
LEMMA ArgumentIsRead ==
    ASSUME NEW S, {Blank, Quote, Backslash} \subseteq S, line \in Seq(S),
           NEW w \in Words(line), StandsBetweenBlanks(w), w.begin > 0,
           w \in ParsedWords(line) \/ w.begin = Len(line),
           NEW c \in Seq(S)
    PROVE  CommandLineToArgvW(Replaced(w, QuoteWord(c))) = WithArgument(Place(w), c)
<1> DEFINE q == QuoteWord(c)
           l == Replaced(w, q)
           n == Len(line)
           b == w.begin
           d == w.end
           e == b + Len(q)
           a == ArgumentsBegin(line)
           breaks == Breaks(line, a)
           from == ArgvAt(line)
           at == ArgvAt(l)
           before == from[b].args
           place == Len(before) + 1
           U == Seq(S)
<1>1. q \in Seq(S) /\ q # <<>> /\ q[1] # Blank
  BY QuoteWordBegins
<1>2. n \in Nat /\ b \in 1 .. n /\ d \in b .. n
  <2>1. IsPartOf(line, w)
    BY WordsFacts DEF Divides
  <2>2. n \in Nat
    OBVIOUS
  <2> QED BY <2>1, <2>2 DEF IsPartOf
<1>3. /\ l \in Seq(S) /\ StandsAt(l, b, e, q) /\ Len(l) = e + (n - d)
      /\ \A i \in 1 .. b : l[i] = line[i]
      /\ \A j \in 1 .. n - d : l[e + j] = line[d + j]
  <2> HIDE DEF q
  <2>1. IsPartOf(line, w)
    BY WordsFacts DEF Divides
  <2> QED BY <1>1, <2>1, ReplacedFacts
<1>4. /\ ArgumentsBegin(l) = a /\ a \in Nat /\ b \in a .. n
      /\ b < e /\ e \in Nat /\ e <= Len(l) /\ Len(l) \in Nat
      /\ b = a \/ b - 1 \in breaks
      /\ b = a \/ b - 1 \in Breaks(l, a)
  <2>1. Len(l) \in Nat
    BY <1>3
  <2>2. /\ ArgumentsBegin(l) = a /\ a \in Nat /\ b \in a .. n
        /\ b < e /\ e \in Nat /\ e <= Len(l)
        /\ b = a \/ b - 1 \in breaks
        /\ b = a \/ b - 1 \in Breaks(l, a)
    BY BeginsAlike
  <2> QED BY <2>1, <2>2
<1>5. Reading(S, line, a, breaks, from)
  BY ArgumentsReading
<1>6. Reading(S, l, a, Breaks(l, a), at)
  <2> HIDE DEF l
  <2> QED BY <1>3, <1>4, ArgumentsReading
<1>7. /\ CommandLineToArgvW(line) = ReadBy(from[n])
      /\ CommandLineToArgvW(l) = ReadBy(at[Len(l)])
  <2> HIDE DEF l
  <2> QED BY <1>3, ArgvFacts DEF ReadBy
<1>8. Place(w) = CountRead(from[b]) + 1
  <2>1. b \in ArgumentsBegin(line) .. Len(line) /\ w.begin = b /\ b > 0
    BY <1>2, <1>4
  <2> HIDE DEF b
  <2> QED BY <2>1, PlaceOfArgument
<1>9. /\ Word(b, e) \in Separated(l, a, Breaks(l, a))
      /\ at[e].args = at[b].args /\ at[e].open = TRUE /\ at[e].out = c /\ at[e].quotes # 1
  <2>1. b \in a .. Len(l) /\ StandsAt(l, b, e, QuoteWord(c))
    <3>1. StandsAt(l, b, e, QuoteWord(c))
      BY <1>3
    <3> HIDE DEF l, b, e, a
    <3> QED BY <1>2, <1>4, <3>1
  <2> DEFINE ends == Breaks(l, a)
  <2>2. l \in Seq(S) /\ Reading(S, l, a, ends, at) /\ (b = a \/ b - 1 \in ends)
    BY <1>3, <1>4, <1>6
  <2> HIDE DEF l, b, e, a, at, ends
  <2>3. Word(b, e) \in Separated(l, a, ends) /\ ReadThere(at, b, e, c)
    BY <2>1, <2>2, QuotedArgument
  <2> QED BY <2>3 DEF ReadThere, ends
<1> HIDE DEF q, l, n, b, d, e, a, breaks, from, at
<1>10. /\ breaks \in SUBSET (a .. n - 1) /\ from[a] = Starting(<<>>)
       /\ \A i \in a .. n : from[i] \in ArgvStates(S)
       /\ \A i \in a .. n - 1 :
              /\ from[i + 1] = ArgvStep(from[i], line[i + 1])
              /\ i \in breaks => from[i + 1] = Starting(ReadBy(from[i]))
              /\ i \notin breaks => from[i + 1].args = from[i].args /\ from[i + 1].open = TRUE
  BY <1>5 DEF Reading, ReadBy, n
<1>11. /\ at[a] = Starting(<<>>)
       /\ \A i \in a .. Len(l) : at[i] \in ArgvStates(S)
       /\ \A i \in a .. Len(l) - 1 :
              /\ at[i + 1] = ArgvStep(at[i], l[i + 1])
              /\ i \in Breaks(l, a) <=> l[i + 1] = Blank /\ at[i].quotes # 1
              /\ i \in Breaks(l, a) => at[i + 1] = Starting(ReadBy(at[i]))
  BY <1>6 DEF Reading, ReadBy
<1>12. at[b] = from[b]
  <2> DEFINE T == {i \in a .. b : at[i] = from[i]}
  <2>1. a \in T /\ b \in Nat
    BY <1>2, <1>4, <1>10, <1>11
  <2>2. ASSUME NEW i \in a .. b - 1, i \in T PROVE i + 1 \in T
    <3>1. /\ i \in a .. n - 1 /\ i \in a .. Len(l) - 1 /\ i + 1 \in a .. b
          /\ i + 1 \in 1 .. b
      BY <1>2, <1>4
    <3>2. at[i + 1] = ArgvStep(at[i], l[i + 1]) /\ from[i + 1] = ArgvStep(from[i], line[i + 1])
      BY <1>10, <1>11, <3>1
    <3>3. l[i + 1] = line[i + 1] /\ at[i] = from[i]
      BY <1>3, <2>2, <3>1
    <3> QED BY <3>1, <3>2, <3>3
  <2> HIDE DEF T
  <2>3. \A i \in a .. b : i \in T
    BY <1>4, <2>1, <2>2, Upwards
  <2>4. b \in a .. b
    BY <1>4, <2>1
  <2> QED BY <2>3, <2>4 DEF T
<1>13. from[b] = Starting(before) /\ before \in Seq(U) /\ place \in Nat /\ place = Place(w)
  <2>1. \E args : from[b] = Starting(args)
    <3>1. CASE b = a
      BY <1>10, <3>1
    <3>2. CASE b - 1 \in breaks
      <4>1. b - 1 \in a .. n - 1 /\ (b - 1) + 1 = b
        BY <1>2, <1>10, <3>2
      <4> QED BY <1>10, <3>2, <4>1
    <3> QED BY <1>4, <3>1, <3>2
  <2>2. from[b] \in ArgvStates(S)
    BY <1>4, <1>10
  <2>3. from[b] = Starting(before) /\ before \in Seq(Seq(S)) /\ from[b].open = FALSE
    BY <2>1, <2>2 DEF Starting, ArgvStates
  <2>4. CountRead(from[b]) = Len(before) + 0 /\ Len(before) \in Nat
    <3>1. CountRead(from[b]) = Len(before) + (IF FALSE = TRUE THEN 1 ELSE 0)
      BY <2>3 DEF CountRead
    <3> HIDE DEF before
    <3> QED BY <2>3, <3>1
  <2> QED BY <1>8, <2>3, <2>4
<1> HIDE DEF before, U
<1>14. at[e].args = before /\ ReadBy(at[e]) = Append(before, c) /\ c \in U
  BY <1>9, <1>12 DEF ReadBy, before, U
<1> HIDE DEF place
<1>15. place = Len(before) + 1 /\ Len(before) \in Nat
  BY <1>13 DEF place
<1>16. CASE b = n
  <2>1. d = n /\ Len(l) = e
    BY <1>2, <1>3, <1>4, <1>16
  <2>2. CommandLineToArgvW(l) = Append(before, c)
    BY <1>7, <1>14, <2>1
  <2>3. CommandLineToArgvW(line) = before
    BY <1>7, <1>13, <1>16 DEF ReadBy, Starting
  <2>4. place # 0 /\ place \notin DOMAIN before
    BY <1>13, <1>15
  <2>5. CommandLineToArgvW(l) = WithArgument(place, c)
    BY <2>2, <2>3, <2>4 DEF WithArgument
  <2> QED BY <1>13, <2>5 DEF l, q
<1>17. CASE b # n
  <2>1. w \in Separated(line, a, breaks)
    <3>1. w \in {Word(0, ExecutableEnd(line))} \cup Separated(line, a, breaks)
      BY <1>17 DEF ParsedWords, ArgumentsFrom, a, breaks, b, n
    <3>2. w # Word(0, ExecutableEnd(line))
      BY <1>2 DEF Word, b
    <3> QED BY <3>1, <3>2
  <2>2. /\ d \in b + 1 .. n /\ (d = n \/ d \in breaks)
        /\ \A i \in b .. d - 1 : i \notin breaks
    <3>1. /\ Len(line) \in Nat /\ a \in 0 .. Len(line)
          /\ breaks \in SUBSET (a .. Len(line) - 1)
      BY <1>2, <1>4, <1>10 DEF n
    <3>2. /\ w.end \in w.begin + 1 .. Len(line)
          /\ w.end = Len(line) \/ w.end \in breaks
          /\ \A i \in w.begin .. w.end - 1 : i \notin breaks
      BY <2>1, <3>1, SeparatedFacts
    <3> QED BY <3>2 DEF b, d, n
  <2>3. from[d].args = before /\ from[d].open = TRUE
    <3> DEFINE f == b + 1
               T == {i \in f .. d : from[i].args = before /\ from[i].open = TRUE}
    <3>1. f \in Nat /\ d \in Nat /\ f \in f .. d
      BY <1>2, <2>2
    <3>2. f \in T
      <4>1. b \in b .. d - 1 /\ b \in a .. n - 1
        BY <1>2, <1>4, <2>2
      <4>2. from[b].args = before
        BY DEF before
      <4>3. from[b + 1].args = before /\ from[b + 1].open = TRUE
        BY <1>10, <2>2, <4>1, <4>2
      <4> QED BY <3>1, <4>3
    <3>3. ASSUME NEW i \in f .. d - 1, i \in T PROVE i + 1 \in T
      <4>1. i \in b .. d - 1 /\ i \in a .. n - 1 /\ i + 1 \in f .. d
        BY <1>2, <1>4, <2>2
      <4>2. from[i + 1].args = before /\ from[i + 1].open = TRUE
        BY <1>10, <2>2, <3>3, <4>1
      <4> QED BY <4>1, <4>2
    <3> HIDE DEF T, f
    <3>4. \A i \in f .. d : i \in T
      BY <3>1, <3>2, <3>3, Upwards
    <3>5. d \in f .. d
      BY <1>2, <2>2 DEF f
    <3> QED BY <3>4, <3>5 DEF T
  <2> DEFINE o == from[d].out
             old == Append(before, o)
  <2>4. o \in U /\ ReadBy(from[d]) = old
    <3>1. d \in a .. n
      BY <1>2, <1>4, <2>2
    <3> QED BY <1>10, <2>3, <3>1 DEF ArgvStates, ReadBy, U
  <2> HIDE DEF o
  <2>5. /\ old \in Seq(U) /\ Len(old) = place /\ place \in 0 .. Len(old)
        /\ ReplaceAt(old, place, c) = Append(before, c)
    <3>1. old \in Seq(U) /\ Len(old) = Len(before) + 1
      BY <1>13, <2>4, AppendFacts
    <3>2. ReplaceAt(Append(before, o), Len(before) + 1, c) = Append(before, c)
      BY <1>13, <1>14, <2>4, ReplaceEnds
    <3> HIDE DEF old
    <3>3. ReplaceAt(old, place, c) = Append(before, c)
      BY <1>15, <3>2 DEF old
    <3> QED BY <1>13, <1>15, <3>1, <3>3
  <2> HIDE DEF old
  <2>6. /\ ReadBy(from[n]) \in Seq(U) /\ place \in 0 .. Len(ReadBy(from[n]))
        /\ ReadBy(at[Len(l)]) = ReplaceAt(ReadBy(from[n]), place, c)
    <3>1. CASE d = n
      <4>1. Len(l) = e
        BY <1>2, <1>3, <1>4, <3>1
      <4> QED BY <1>14, <2>4, <2>5, <3>1, <4>1
    <3>2. CASE d # n
      <4> DEFINE f == d + 1
                 g == e + 1
      <4>1. /\ d \in breaks /\ d \in a .. n - 1 /\ d \in Nat /\ f \in 0 .. n
            /\ f \in a .. n /\ 1 \in 1 .. n - d
        BY <1>2, <1>4, <1>10, <2>2, <3>2
      <4>2. /\ e \in a .. Len(l) - 1 /\ g \in 0 .. Len(l) /\ Len(l) - g = n - f
        <5>1. /\ a \in Nat /\ e \in Nat /\ d \in Nat /\ n \in Nat /\ a <= e /\ d < n
          BY <1>2, <1>4, <4>1
        <5>2. Len(l) \in Nat /\ Len(l) = e + (n - d)
          BY <1>3, <1>4
        <5> DEFINE m == Len(l)
        <5> HIDE DEF m
        <5>3. m \in Nat /\ m = e + (n - d)
          BY <5>2 DEF m
        <5>4. /\ e \in a .. m - 1 /\ g \in 0 .. m /\ m - g = n - f
          BY <5>1, <5>3
        <5> QED BY <5>4 DEF m
      <4>3. from[f] = Starting(old)
        BY <1>10, <2>4, <4>1
      <4>4. l[e + 1] = Blank
        <5>1. line[d + 1] = Blank
          <6>1. d \in Breaks(line, a)
            BY <4>1 DEF breaks
          <6> QED BY <6>1 DEF Breaks, IsBlankAt
        <5> QED BY <1>3, <4>1, <5>1
      <4>5. at[g] = Starting(Append(before, c))
        BY <1>9, <1>11, <1>14, <4>2, <4>4
      <4>6. at[g] = Instead(from[f], place, c) /\ from[f].args = old
        <5> DEFINE st == from[f]
        <5>1. /\ st.args = old /\ st.open = FALSE /\ st.out = <<>>
              /\ st.quotes = 0 /\ st.backslashes = 0 /\ st.inRun = FALSE
          BY <4>3 DEF Starting
        <5>2. at[g] = Starting(ReplaceAt(old, place, c))
          BY <2>5, <4>5
        <5> HIDE DEF st, g
        <5>3. Starting(ReplaceAt(st.args, place, c)) = Instead(st, place, c)
          BY <5>1 DEF Instead, Starting
        <5> QED BY <5>1, <5>2, <5>3 DEF st
      <4>7. from[f] \in ArgvStates(S)
        BY <1>10, <4>1
      <4>8. ASSUME NEW j \in 1 .. n - f PROVE l[g + j] = line[f + j]
        <5>1. 1 + j \in 1 .. n - d /\ e + (1 + j) = g + j /\ d + (1 + j) = f + j
          BY <1>2, <1>4, <4>1
        <5>2. l[e + (1 + j)] = line[d + (1 + j)]
          BY <1>3, <5>1
        <5> QED BY <5>1, <5>2
      <4>9. ASSUME NEW i \in f .. n - 1 PROVE from[i + 1] = ArgvStep(from[i], line[i + 1])
        <5>1. i \in a .. n - 1
          BY <1>2, <1>4, <4>1
        <5> QED BY <1>10, <5>1
      <4>10. ASSUME NEW i \in g .. Len(l) - 1 PROVE at[i + 1] = ArgvStep(at[i], l[i + 1])
        <5>1. i \in a .. Len(l) - 1
          BY <1>2, <1>4, <4>2
        <5> QED BY <1>11, <5>1
      <4> HIDE DEF f, g
      <4>11. ReadAlike(S, line, f, from, l, g, at, place, c)
        <5>1. place \in 0 .. Len(from[f].args) /\ c \in Seq(S)
          BY <2>5, <4>6
        <5> QED BY <1>3, <4>1, <4>2, <4>6, <4>7, <4>8, <4>9, <4>10, <5>1 DEF ReadAlike, n
      <4> QED BY <4>11, RestIsRead DEF n, U
    <3> QED BY <3>1, <3>2
  <2>7. CommandLineToArgvW(l) = ReplaceAt(CommandLineToArgvW(line), place, c)
    BY <1>7, <2>6
  <2>8. place # 0 /\ place \in DOMAIN CommandLineToArgvW(line)
    BY <1>7, <1>15, <2>6
  <2>9. CommandLineToArgvW(l) = WithArgument(place, c)
    BY <2>7, <2>8 DEF WithArgument
  <2> QED BY <1>13, <2>9 DEF l, q
<1> QED BY <1>16, <1>17

\* In every line a candidate stands as a word of its own, for the editor and for Windows.
LEMMA EveryInsertedWord ==
    ASSUME line \in Seq(Chars)
    PROVE  InsertedWordStands
<1> SUFFICES ASSUME NEW p \in Positions, NEW c \in Candidates,
                    NEW w, w = WordAt(line, p), StandsBetweenBlanks(w),
                    w.begin = 0 => Quote \notin ToSet(c)
             PROVE  /\ WordAt(Replaced(w, QuoteWord(c)), w.begin + Len(QuoteWord(c)))
                           = Word(w.begin, w.begin + Len(QuoteWord(c)))
                    /\ w \in ParsedWords(line) \/ w.begin = Len(line) =>
                           CommandLineToArgvW(Replaced(w, QuoteWord(c)))
                               = WithArgument(Place(w), c)
  BY Zenon DEF InsertedWordStands
<1>1. {Blank, Quote, Backslash} \subseteq Chars /\ c \in Seq(Chars)
  BY CharsAssumption
<1>2. w \in Words(line)
  BY WordAtFacts DEF Positions
<1>3. w.begin = 0 => \A i \in 1 .. Len(c) : c[i] # Quote
  BY <1>1 DEF ToSet
<1> DEFINE e == w.begin + Len(QuoteWord(c))
<1>4. e = w.begin + Len(QuoteWord(c))
  OBVIOUS
<1> HIDE DEF e
<1>5. WordAt(Replaced(w, QuoteWord(c)), e) = Word(w.begin, e)
  BY <1>1, <1>2, <1>3, <1>4, InsertedStands
<1>6. ASSUME w \in ParsedWords(line) \/ w.begin = Len(line)
      PROVE  CommandLineToArgvW(Replaced(w, QuoteWord(c))) = WithArgument(Place(w), c)
  <2>1. CASE w.begin = 0
    BY <1>1, <1>2, <1>3, <1>6, <2>1, NameIsRead
  <2>2. CASE w.begin # 0
    <3>1. IsPartOf(line, w)
      BY <1>2, WordsFacts DEF Divides
    <3>2. w.begin > 0
      BY <2>2, <3>1 DEF IsPartOf
    <3> QED BY <1>1, <1>2, <1>6, <3>2, ArgumentIsRead
  <2> QED BY <2>1, <2>2
<1> QED BY <1>4, <1>5, <1>6

\* What QuoteWord adds to a word are quotes and backslashes.
LEMMA QuoteWordType ==
    ASSUME NEW S, {Quote, Backslash} \subseteq S, NEW word \in Seq(S)
    PROVE  QuoteWord(word) \in Seq(S)
<1> DEFINE parts == [i \in DOMAIN word |-> Escaped(word, i)]
<1>1. ASSUME NEW i \in DOMAIN word PROVE Escaped(word, i) \in Seq(S)
  <2>1. i \in 1 .. Len(word)
    OBVIOUS
  <2> QED BY <2>1, EscapedType
<1>2. parts \in Seq(Seq(S))
  <2>1. DOMAIN word = 1 .. Len(word) /\ Len(word) \in Nat
    OBVIOUS
  <2>2. parts \in [1 .. Len(word) -> Seq(S)]
    BY <1>1, <2>1
  <2> HIDE DEF parts
  <2> QED BY <2>1, <2>2, SeqDef
<1>3. FlattenSeq(parts) \in Seq(S)
  <2> HIDE DEF parts
  <2> QED BY <1>2, FlattenFacts
<1>4. <<Quote>> \in Seq(S)
  OBVIOUS
<1>5. <<Quote>> \o FlattenSeq(parts) \o <<Quote>> \in Seq(S)
  <2> HIDE DEF parts
  <2> QED BY <1>3, <1>4
<1> QED BY <1>5 DEF QuoteWord

-----------------------------------------------------------------------------
(* Cutting and inserting *)

\* A part of a text is a text, as long as it was asked for.
LEMMA SubSeqFacts ==
    ASSUME NEW S, NEW l \in Seq(S), NEW i \in 1 .. Len(l) + 1, NEW j \in i - 1 .. Len(l)
    PROVE  SubSeq(l, i, j) \in Seq(S) /\ Len(SubSeq(l, i, j)) = j - i + 1
<1>1. \A k \in i .. j : l[k] \in S
  OBVIOUS
<1> QED BY <1>1

\* A text that is inserted makes the line longer by its length and stands where it
\* was inserted.
LEMMA InsertFacts ==
    ASSUME NEW S, NEW l \in Seq(S), NEW p \in 0 .. Len(l), NEW t \in Seq(S)
    PROVE  /\ Insert(l, p, t) \in Seq(S)
           /\ Len(Insert(l, p, t)) = Len(l) + Len(t)
           /\ SubSeq(Insert(l, p, t), p + 1, p + Len(t)) = t
<1> DEFINE a == SubSeq(l, 1, p)
           b == SubSeq(l, p + 1, Len(l))
<1>1. Len(l) \in Nat /\ p \in Nat /\ p <= Len(l) /\ Len(t) \in Nat
  OBVIOUS
<1>2. a \in Seq(S) /\ Len(a) = p
  <2>1. 1 \in 1 .. Len(l) + 1 /\ p \in 1 - 1 .. Len(l)
    BY <1>1
  <2>2. a \in Seq(S) /\ Len(a) = p - 1 + 1
    BY <2>1, SubSeqFacts
  <2> QED BY <1>1, <2>2
<1>3. b \in Seq(S) /\ Len(b) = Len(l) - p
  <2>1. p + 1 \in 1 .. Len(l) + 1 /\ Len(l) \in p + 1 - 1 .. Len(l)
    BY <1>1
  <2>2. b \in Seq(S) /\ Len(b) = Len(l) - (p + 1) + 1
    BY <2>1, SubSeqFacts
  <2> QED BY <1>1, <2>2
<1> DEFINE c == a \o t
           w == c \o b
<1> HIDE DEF a, b
<1>4. c \in Seq(S) /\ Len(c) = p + Len(t) /\ \A k \in 1 .. Len(t) : c[p + k] = t[k]
  <2>1. c \in Seq(S) /\ Len(c) = p + Len(t)
    BY <1>1, <1>2, ConcatProperties
  <2>2. ASSUME NEW k \in 1 .. Len(t) PROVE c[p + k] = t[k]
    <3>1. p + k \in 1 .. Len(a) + Len(t) /\ ~(p + k <= Len(a)) /\ p + k - Len(a) = k
      BY <1>1, <1>2
    <3>2. c[p + k] = IF p + k <= Len(a) THEN a[p + k] ELSE t[p + k - Len(a)]
      BY <1>2, <3>1, ConcatProperties
    <3> QED BY <3>1, <3>2
  <2> QED BY <2>1, <2>2
<1> HIDE DEF c
<1>5. w \in Seq(S) /\ Len(w) = Len(l) + Len(t)
  <2>1. w \in Seq(S) /\ Len(w) = Len(c) + Len(b)
    BY <1>3, <1>4, ConcatProperties
  <2> HIDE DEF w
  <2> QED BY <1>1, <1>3, <1>4, <2>1
<1>6. ASSUME NEW k \in 1 .. Len(t) PROVE w[p + k] = t[k]
  <2>1. p + k \in 1 .. Len(c) + Len(b) /\ p + k <= Len(c)
    BY <1>1, <1>3, <1>4
  <2>2. w[p + k] = c[p + k]
    BY <1>3, <1>4, <2>1, ConcatProperties
  <2> QED BY <1>4, <2>2
<1> HIDE DEF w
<1>7. SubSeq(w, p + 1, p + Len(t)) = t
  <2> DEFINE s == SubSeq(w, p + 1, p + Len(t))
  <2>1. p + 1 \in 1 .. Len(w) + 1 /\ p + Len(t) \in p + 1 - 1 .. Len(w)
    BY <1>1, <1>5
  <2>2. s \in Seq(S) /\ Len(s) = p + Len(t) - (p + 1) + 1
    BY <1>5, <2>1, SubSeqFacts
  <2>3. Len(s) = Len(t)
    BY <1>1, <2>2
  <2>4. ASSUME NEW k \in 1 .. Len(t) PROVE s[k] = t[k]
    <3>1. s[k] = w[p + 1 + k - 1]
      BY <1>1, <1>5, <2>1
    <3>2. p + 1 + k - 1 = p + k
      BY <1>1
    <3> QED BY <1>6, <3>1, <3>2
  <2> HIDE DEF s
  <2>5. s = t
    BY <2>2, <2>3, <2>4
  <2> QED BY <2>5 DEF s
<1>8. Insert(l, p, t) = w
  BY DEF Insert, a, b, c, w
<1> QED BY <1>5, <1>7, <1>8

\* Taking a range of characters out makes the line shorter by its length.
LEMMA WithoutFacts ==
    ASSUME NEW S, NEW l \in Seq(S), NEW i \in 0 .. Len(l), NEW j \in i .. Len(l)
    PROVE  /\ Without(l, i, j) \in Seq(S)
           /\ Len(Without(l, i, j)) = Len(l) - (j - i)
<1> DEFINE a == SubSeq(l, 1, i)
           b == SubSeq(l, j + 1, Len(l))
<1>1. Len(l) \in Nat /\ i \in Nat /\ j \in Nat /\ i <= j /\ j <= Len(l)
  OBVIOUS
<1>2. a \in Seq(S) /\ Len(a) = i
  <2>1. 1 \in 1 .. Len(l) + 1 /\ i \in 1 - 1 .. Len(l)
    BY <1>1
  <2>2. a \in Seq(S) /\ Len(a) = i - 1 + 1
    BY <2>1, SubSeqFacts
  <2> QED BY <1>1, <2>2
<1>3. b \in Seq(S) /\ Len(b) = Len(l) - j
  <2>1. j + 1 \in 1 .. Len(l) + 1 /\ Len(l) \in j + 1 - 1 .. Len(l)
    BY <1>1
  <2>2. b \in Seq(S) /\ Len(b) = Len(l) - (j + 1) + 1
    BY <2>1, SubSeqFacts
  <2> QED BY <1>1, <2>2
<1> DEFINE c == a \o b
<1> HIDE DEF a, b
<1>4. c \in Seq(S) /\ Len(c) = Len(a) + Len(b)
  BY <1>2, <1>3, ConcatProperties
<1>5. Without(l, i, j) = c
  BY DEF Without, a, b, c
<1> HIDE DEF c
<1> QED BY <1>1, <1>2, <1>3, <1>4, <1>5

-----------------------------------------------------------------------------
(* Moving over words *)

\* Up to from there is a last stop, or none.
LEMMA LastStop ==
    ASSUME NEW from \in Int, from >= -1, NEW stops
    PROVE  \E e \in -1 .. from : /\ e = -1 \/ e \in stops
                                /\ \A i \in e + 1 .. from : i \notin stops
<1> DEFINE T == {k \in Nat : k <= from + 1 /\ (from - k = -1 \/ from - k \in stops)}
<1>1. from + 1 \in T
  OBVIOUS
<1>2. PICK k \in T : \A j \in T : k <= j
  <2>1. T \subseteq Nat /\ T # {}
    BY <1>1
  <2> HIDE DEF T
  <2> QED BY <2>1, LeastNatural
<1>3. k \in Nat /\ from - k \in -1 .. from /\ (from - k = -1 \/ from - k \in stops)
  OBVIOUS
<1>4. ASSUME NEW i \in from - k + 1 .. from, i \in stops PROVE FALSE
  <2>1. from - i \in Nat /\ from - i < k /\ from - (from - i) = i /\ i >= -1
    BY <1>3
  <2>2. from - i \in T
    BY <2>1, <1>4
  <2>3. k <= from - i
    <3> HIDE DEF T
    <3> QED BY <1>2, <2>2
  <2> QED BY <2>1, <2>3, <1>3
<1> QED BY <1>3, <1>4

\* Erasing a word erases to the left of the cursor.
LEMMA FindBackwardsFacts ==
    ASSUME NEW S, NEW l \in Seq(S), NEW p \in 0 .. Len(l), NEW until
    PROVE  FindBackwards(l, p, until) \in 0 .. p
<1> DEFINE start == IF p > 1 THEN p - 1 ELSE 0
           others == {i \in Int : ~IsAny(until, l, i)}
           stops == {i \in Int : IsAny(until, l, i)}
           inWord == LastUpTo(start, LAMBDA i : ~IsAny(until, l, i))
           before == LastUpTo(inWord, LAMBDA i : IsAny(until, l, i))
<1>1. start \in Int /\ start >= 0 /\ start <= p
  OBVIOUS
<1> HIDE DEF start
<1>2. \E e \in -1 .. start : /\ e = -1 \/ e \in others
                            /\ \A i \in e + 1 .. start : i \notin others
  <2>1. start \in Int /\ start >= -1
    BY <1>1
  <2> HIDE DEF others
  <2> QED BY <2>1, LastStop, Zenon
<1>3. \E e \in -1 .. start : /\ e = -1 \/ ~IsAny(until, l, e)
                            /\ \A i \in e + 1 .. start : ~ ~IsAny(until, l, i)
  BY <1>1, <1>2
<1>4. inWord \in -1 .. start /\ (inWord = -1 \/ ~IsAny(until, l, inWord))
  BY <1>3 DEF LastUpTo
<1> HIDE DEF inWord
<1>5. \E e \in -1 .. inWord : /\ e = -1 \/ e \in stops
                             /\ \A i \in e + 1 .. inWord : i \notin stops
  <2>1. inWord \in Int /\ inWord >= -1
    BY <1>1, <1>4
  <2> HIDE DEF stops
  <2> QED BY <2>1, LastStop, Zenon
<1>6. \E e \in -1 .. inWord : /\ e = -1 \/ IsAny(until, l, e)
                             /\ \A i \in e + 1 .. inWord : ~IsAny(until, l, i)
  BY <1>1, <1>4, <1>5
<1>7. before \in -1 .. inWord /\ (before = -1 \/ IsAny(until, l, before))
  BY <1>6 DEF LastUpTo
<1> HIDE DEF before
<1>8. before + 1 \in 0 .. p
  BY <1>1, <1>4, <1>7
<1> QED BY <1>8 DEF FindBackwards, before, inWord, start

\* The end of the next word lies within the line.
LEMMA FindForwardsFacts ==
    ASSUME NEW S, NEW l \in Seq(S), NEW p \in 0 .. Len(l)
    PROVE  FindForwards(l, p) \in 0 .. Len(l)
<1> DEFINE n == Len(l)
           others == {i \in Int : ~IsBlankAt(l, i)}
           stops == {i \in Int : IsBlankAt(l, i)}
           b == FirstFrom(l, p, LAMBDA i : ~IsBlankAt(l, i))
           e == FirstFrom(l, b, LAMBDA i : IsBlankAt(l, i))
<1>1. n \in Nat /\ p \in Int /\ p >= 0 /\ p <= n /\ p >= -1
  OBVIOUS
<1>2. \E x \in p .. n : /\ x = n \/ x \in others
                       /\ \A i \in p .. x - 1 : i \notin others
  <2> DEFINE from == p
  <2>1. n \in Nat /\ from \in Int /\ from <= n /\ from >= -1
    BY <1>1
  <2>2. \E x \in from .. n : /\ x = n \/ x \in others
                            /\ \A i \in from .. x - 1 : i \notin others
    <3> HIDE DEF others, n, from
    <3> QED BY <2>1, FirstStop, Zenon
  <2> QED BY <2>2
<1>3. \E x \in p .. n : /\ x = n \/ ~IsBlankAt(l, x)
                       /\ \A i \in p .. x - 1 : ~ ~IsBlankAt(l, i)
  BY <1>1, <1>2
<1>4. b \in p .. n
  BY <1>3 DEF FirstFrom
<1> HIDE DEF b
<1>5. n \in Nat /\ b \in Int /\ b <= n /\ b >= -1 /\ b >= 0
  BY <1>1, <1>4
<1>6. \E x \in b .. n : /\ x = n \/ x \in stops
                       /\ \A i \in b .. x - 1 : i \notin stops
  <2> HIDE DEF stops, n
  <2> QED BY <1>5, FirstStop, Zenon
<1>7. \E x \in b .. n : /\ x = n \/ IsBlankAt(l, x)
                       /\ \A i \in b .. x - 1 : ~IsBlankAt(l, i)
  BY <1>5, <1>6
<1>8. e \in b .. n
  BY <1>7 DEF FirstFrom
<1> HIDE DEF e
<1>9. e \in 0 .. n
  BY <1>1, <1>5, <1>8
<1>10. FindForwards(l, p) = e
  BY Zenon DEF FindForwards, e, b
<1> QED BY <1>9, <1>10

\* Ctrl-Right leaves a line that is not empty with the cursor in it, and an
\* empty one with the cursor before it.
LEMMA NextWordFacts ==
    ASSUME NEW S, NEW l \in Seq(S), NEW p \in 0 .. Len(l)
    PROVE  /\ l = <<>> => NextWord(l, p) = -1
           /\ l # <<>> => NextWord(l, p) \in 0 .. Len(l)
<1> DEFINE n == Len(l)
           e == FindForwards(l, p)
           stops == {i \in Int : i = n - 1 \/ ~IsBlankAt(l, i)}
<1>1. n \in Nat /\ (l = <<>> <=> n = 0) /\ e \in 0 .. n
  BY FindForwardsFacts
<1> HIDE DEF e
<1>2. CASE e >= n - 1
  <2>1. NextWord(l, p) = n - 1
    BY <1>2 DEF NextWord, e
  <2> QED BY <1>1, <2>1
<1>3. CASE e < n - 1
  <2>1. e \in Int /\ e <= n /\ e >= -1
    BY <1>1
  <2>2. \E x \in e .. n : /\ x = n \/ x \in stops
                         /\ \A i \in e .. x - 1 : i \notin stops
    <3>1. n \in Nat /\ e \in Int /\ e <= n /\ e >= -1
      BY <1>1, <2>1
    <3> HIDE DEF stops, n
    <3> QED BY <3>1, FirstStop, Zenon
  <2>3. \E x \in e .. n : /\ x = n \/ (x = n - 1 \/ ~IsBlankAt(l, x))
                         /\ \A i \in e .. x - 1 : ~(i = n - 1 \/ ~IsBlankAt(l, i))
    BY <2>1, <2>2
  <2> DEFINE Stops(x) == /\ x = n \/ (x = n - 1 \/ ~IsBlankAt(l, x))
                         /\ \A i \in e .. x - 1 : ~(i = n - 1 \/ ~IsBlankAt(l, i))
  <2>4. NextWord(l, p) = CHOOSE x \in e .. n : Stops(x)
    <3>1. ~(e >= n - 1)
      BY <1>1, <1>3
    <3> QED BY <3>1, Zenon DEF NextWord, FirstFrom, e
  <2>5. NextWord(l, p) \in e .. n
    <3>1. \E x \in e .. n : Stops(x)
      BY <2>3
    <3> HIDE DEF Stops, n
    <3> QED BY <2>4, <3>1
  <2> QED BY <1>1, <1>3, <2>5
<1> QED BY <1>1, <1>2, <1>3

-----------------------------------------------------------------------------
(* The inductive invariant *)

\* A new editor has an empty line, no message and no candidate.
LEMMA InitIInv == Init => IInv
<1> SUFFICES ASSUME Init PROVE IInv
  OBVIOUS
<1> USE EditorAssumption
<1>1. TypeOK
  BY DEF Init, NewEditor, TypeOK, Drawn
<1>2. ~IsCompleting /\ ~Confirming
  BY DEF Init, NewEditor, NoOutput, IsCompleting, Confirming
<1>3. CursorInLine /\ ScreenAgrees
  BY DEF Init, NewEditor, CursorInLine, ScreenAgrees
<1> QED BY <1>1, <1>2, <1>3
        DEF IInv, CompletionStands, PendingHolds, CompletingHolds

\* The line a key acts on, and the cursor in it.
LEMMA LineFacts ==
    ASSUME IInv, phase = "editing"
    PROVE  Line \in Seq(Chars) /\ Pos \in 0 .. Len(Line)
BY DEF IInv, TypeOK, CursorInLine, PendingHolds, Line, Pos

\* A key that edits leaves the cursor in the line, except that at -1 in an empty line
\* the process ends.
LEMMA EditPreserves ==
    ASSUME IInv, NEW l \in Seq(Chars), NEW p \in -1 .. Len(l),
           l # <<>> => p >= 0,
           Edit(l, p)
    PROVE  IInv'
<1>1. line' = l /\ position' = p /\ savedLine' = <<>> /\ savedPosition' = -1
  BY DEF Edit, Put, NothingPending
<1>2. wordBegin' = -1 /\ output' = output /\ wordEnd' = wordEnd /\ index' = index
  BY DEF Edit, CompletionOver
<1>3. /\ (l # <<>> \/ p = 0) => shown' = Drawn(l, p) /\ phase' = "editing"
      /\ ~(l # <<>> \/ p = 0) => shown' = shown /\ phase' = "ended"
  BY DEF Edit, Put, Drawable
<1>4. ~IsCompleting' /\ ~Confirming'
  BY <1>1, <1>2 DEF IsCompleting, Confirming
<1>5. TypeOK'
  <2>1. TypeOK
    BY DEF IInv
  <2>2. Drawn(l, p) \in [line : Seq(Chars), position : Int]
    BY DEF Drawn
  <2>3. shown' \in [line : Seq(Chars), position : Int] /\ phase' \in {"editing", "ended"}
    BY <1>3, <2>1, <2>2 DEF TypeOK
  <2> QED BY <1>1, <1>2, <2>1, <2>3 DEF TypeOK
<1>6. CursorInLine'
  <2>1. l = <<>> => Len(l) = 0
    OBVIOUS
  <2> QED BY <1>1, <1>3, <2>1 DEF CursorInLine
<1>7. ScreenAgrees'
  BY <1>1, <1>3 DEF ScreenAgrees, Drawn
<1> QED BY <1>4, <1>5, <1>6, <1>7
        DEF IInv, CompletionStands, PendingHolds, CompletingHolds

\* A key that returns before RedrawConsole leaves what is drawn, which a message
\* may have taken the place of.
LEMMA EditUndrawnPreserves ==
    ASSUME IInv, EditUndrawn PROVE IInv'
<1>1. phase = "editing" /\ Line \in Seq(Chars) /\ Pos \in 0 .. Len(Line)
  BY LineFacts DEF EditUndrawn
<1>2. /\ line' = Line /\ position' = Pos /\ shown' = shown /\ phase' = phase
      /\ savedLine' = <<>> /\ savedPosition' = -1
      /\ wordBegin' = -1 /\ output' = output /\ wordEnd' = wordEnd /\ index' = index
  BY DEF EditUndrawn, NothingPending, CompletionOver
<1>3. ~IsCompleting' /\ ~Confirming'
  BY <1>2 DEF IsCompleting, Confirming
<1>4. TypeOK'
  BY <1>1, <1>2 DEF IInv, TypeOK
<1>5. CursorInLine'
  BY <1>1, <1>2 DEF CursorInLine
<1>6. ScreenAgrees'
  <2>1. CASE Confirming
    BY <1>2, <2>1 DEF IInv, PendingHolds, ScreenAgrees
  <2>2. CASE ~Confirming
    <3>1. Line = line /\ Pos = position
      BY <2>2 DEF Line, Pos
    <3> QED BY <1>1, <1>2, <3>1 DEF IInv, ScreenAgrees, Drawn
  <2> QED BY <2>1, <2>2
<1> QED BY <1>3, <1>4, <1>5, <1>6
        DEF IInv, CompletionStands, PendingHolds, CompletingHolds

\* A command of the editor's own ends completing and takes the message down.
LEMMA RunAndResumePreserves ==
    ASSUME IInv, RunAndResume,
           line' \in Seq(Chars), position' \in 0 .. Len(line'),
           shown' \in [line : Seq(Chars), position : Int]
    PROVE  IInv'
<1>1. /\ savedLine' = <<>> /\ savedPosition' = -1 /\ phase' = "command"
      /\ wordBegin' = -1 /\ output' = output /\ wordEnd' = wordEnd /\ index' = index
  BY DEF RunAndResume, NothingPending, CompletionOver
<1>2. ~IsCompleting' /\ ~Confirming'
  BY <1>1 DEF IsCompleting, Confirming
<1>3. TypeOK'
  BY <1>1 DEF IInv, TypeOK
<1> QED BY <1>1, <1>2, <1>3
        DEF IInv, CursorInLine, ScreenAgrees, CompletionStands, PendingHolds,
            CompletingHolds

\* The next prompt's editor is a new one.
LEMMA DiscardedPreserves ==
    ASSUME IInv, Discarded, UNCHANGED shown PROVE IInv'
<1>1. /\ line' = <<>> /\ position' = 0 /\ savedLine' = <<>> /\ savedPosition' = -1
      /\ output' = NoOutput /\ wordBegin' \in Garbage /\ wordEnd' \in Garbage
      /\ index' = -1 /\ phase' = "command"
  BY DEF Discarded, NewEditor
<1>2. ~IsCompleting' /\ ~Confirming'
  BY <1>1 DEF IsCompleting, Confirming, NoOutput
<1>3. TypeOK'
  <2>1. wordBegin' \in Int /\ wordEnd' \in Int
    BY <1>1, EditorAssumption
  <2>2. <<>> \in Seq(Chars) /\ Len(<<>>) = 0
    OBVIOUS
  <2>3. line' \in Seq(Chars) /\ savedLine' \in Seq(Chars) /\ position' \in -1 .. Len(line')
    BY <1>1, <2>2
  <2>4. shown' \in [line : Seq(Chars), position : Int]
    BY DEF IInv, TypeOK
  <2> QED BY <1>1, <2>1, <2>3, <2>4 DEF TypeOK
<1> QED BY <1>1, <1>2, <1>3
        DEF IInv, CursorInLine, ScreenAgrees, CompletionStands, PendingHolds,
            CompletingHolds

\* What is made of a part of the elements is made of all of them.
LEMMA SeqOfPart ==
    ASSUME NEW S, NEW T, S \subseteq T, NEW s \in Seq(S)
    PROVE  s \in Seq(T)
<1>1. Len(s) \in Nat /\ s \in [1 .. Len(s) -> S]
  OBVIOUS
<1>2. s \in [1 .. Len(s) -> T]
  BY <1>1
<1> QED BY <1>1, <1>2, SeqDef

\* What a completer answers are texts, and the message is no part of any.
LEMMA AnswerFacts ==
    ASSUME NEW o \in Answers
    PROVE  /\ o.results \in Seq(Seq(Chars)) /\ o.results \in Seq(Seq(TextChars))
           /\ o.space \in BOOLEAN
<1>1. o.results \in Seq(Candidates) /\ o.space \in BOOLEAN
  BY EditorAssumption
<1>2. Candidates \subseteq Seq(Chars)
  BY CharsAssumption
<1>3. Candidates \subseteq Seq(TextChars)
  BY MessageAssumption
<1> QED BY <1>1, <1>2, <1>3, SeqOfPart

\* A candidate, quoted and followed by its blank, is a text.
LEMMA InsertedType ==
    ASSUME NEW o \in Answers, NEW i \in 0 .. Len(o.results) - 1
    PROVE  Inserted(o, i) \in Seq(Chars)
<1> DEFINE blank == IF o.space THEN <<Blank>> ELSE <<>>
           word == o.results[i + 1]
<1>1. Blank \in Chars /\ {Quote, Backslash} \subseteq Chars /\ o.results \in Seq(Seq(Chars))
  BY CharsAssumption, AnswerFacts
<1>2. word \in Seq(Chars)
  BY <1>1
<1>3. QuoteWord(word) \in Seq(Chars)
  <2> HIDE DEF word
  <2> QED BY <1>1, <1>2, QuoteWordType
<1>4. blank \in Seq(Chars)
  BY <1>1
<1> HIDE DEF blank, word
<1>5. QuoteWord(word) \o blank \in Seq(Chars)
  BY <1>3, <1>4, ConcatProperties
<1> QED BY <1>5 DEF Inserted, blank, word

\* A candidate put into a word's place is where the next Tab will look for it.
LEMMA CompletePreserves ==
    ASSUME IInv, phase = "editing",
           NEW o \in Answers, NEW i \in 0 .. Len(o.results) - 1,
           NEW b \in 0 .. Len(Line), NEW e \in b .. Len(Line),
           Complete(b, e, o, i)
    PROVE  IInv'
<1> DEFINE text == Inserted(o, i)
           rest == Without(Line, b, e)
           l == Insert(rest, b, text)
           p == b + Len(text)
<1>1. text \in Seq(Chars) /\ Len(text) \in Nat /\ Line \in Seq(Chars)
  BY InsertedType, LineFacts
<1>2. rest \in Seq(Chars) /\ Len(rest) = Len(Line) - (e - b)
  BY <1>1, WithoutFacts
<1>3. b \in Nat /\ b \in 0 .. Len(rest) /\ Len(rest) \in Nat
  <2> HIDE DEF rest
  <2>1. Len(Line) \in Nat
    BY <1>1
  <2> QED BY <2>1, <1>2
<1> HIDE DEF text, rest
<1>4. l \in Seq(Chars) /\ Len(l) = Len(rest) + Len(text) /\ SubSeq(l, b + 1, p) = text
  <2>1. text \in Seq(Chars) /\ rest \in Seq(Chars) /\ b \in 0 .. Len(rest)
    BY <1>1, <1>2, <1>3
  <2>2. l \in Seq(Chars)
    BY <2>1, InsertFacts
  <2>3. Len(l) = Len(rest) + Len(text)
    BY <2>1, InsertFacts
  <2>4. SubSeq(l, b + 1, p) = text
    BY <2>1, InsertFacts
  <2> QED BY <2>2, <2>3, <2>4
<1> HIDE DEF l
<1>5. p \in 0 .. Len(l) /\ (l # <<>> \/ p = 0)
  <2>1. p \in 0 .. Len(l) /\ (l = <<>> => Len(l) = 0)
    BY <1>1, <1>3, <1>4
  <2> QED BY <2>1
<1>6. wordEnd' = p /\ output' = o /\ index' = i /\ wordBegin' = b
  BY DEF Complete, p, text
<1>7. savedLine' = <<>> /\ savedPosition' = -1
  BY DEF Complete, NothingPending
<1>8. line' = l /\ position' = p /\ shown' = Drawn(l, p) /\ phase' = "editing"
  <2>1. Put(l, p)
    BY <1>6 DEF Complete, Completed, l, rest, text
  <2> HIDE DEF p
  <2> QED BY <1>5, <2>1 DEF Put, Drawable
<1> HIDE DEF p
<1>9. TypeOK'
  <2>1. Drawn(l, p) \in [line : Seq(Chars), position : Int]
    BY <1>4, <1>5 DEF Drawn
  <2>2. p \in -1 .. Len(l) /\ p \in Int /\ b \in Int /\ i \in Int
    BY <1>3, <1>4, <1>5
  <2> QED BY <1>4, <1>6, <1>7, <1>8, <2>1, <2>2 DEF TypeOK
<1>10. CursorInLine' /\ ScreenAgrees'
  BY <1>5, <1>8 DEF CursorInLine, ScreenAgrees, Drawn
<1>11. CompletionStands'
  <2>1. /\ index' \in 0 .. Len(output'.results) - 1
        /\ 0 <= wordBegin' /\ wordBegin' <= wordEnd' /\ wordEnd' <= Len(line')
    BY <1>1, <1>3, <1>5, <1>6, <1>8 DEF p
  <2>2. Inserted(output', index') = text
    BY <1>6 DEF text
  <2>3. SubSeq(line', wordBegin' + 1, wordEnd') = text
    BY <1>4, <1>6, <1>8
  <2>4. position' = wordEnd'
    BY <1>6, <1>8
  <2> QED BY <2>1, <2>2, <2>3, <2>4 DEF CompletionStands, Inserted
<1>12. ~Confirming'
  BY <1>7 DEF Confirming
<1> QED BY <1>8, <1>9, <1>10, <1>11, <1>12 DEF IInv, PendingHolds, CompletingHolds

\* A key that erases.
LEMMA EraseKeyPreserves ==
    ASSUME IInv, EraseKey, phase = "editing" PROVE IInv'
<1> DEFINE n == Len(Line)
<1>1. Line \in Seq(Chars) /\ Pos \in 0 .. n /\ n \in Nat /\ (Line = <<>> <=> n = 0)
  BY LineFacts
<1>2. CASE Escape
  <2>1. CASE Confirming
    <3>1. Edit(Line, Pos) /\ Pos \in Int /\ Pos \in 0 .. Len(Line)
      BY <1>1, <1>2, <2>1 DEF Escape
    <3> QED BY <1>1, <3>1, EditPreserves
  <2>2. CASE ~Confirming
    <3>1. Edit(<<>>, 0) /\ <<>> \in Seq(Chars) /\ 0 \in -1 .. Len(<<>>)
      BY <1>2, <2>2 DEF Escape
    <3> QED BY <3>1, EditPreserves
  <2> QED BY <2>1, <2>2
<1>3. CASE Backspace
  <2>1. CASE Pos = 0 \/ Line = <<>>
    BY <1>3, <2>1, EditUndrawnPreserves DEF Backspace
  <2>2. CASE ~(Pos = 0 \/ Line = <<>>)
    <3> DEFINE l == Without(Line, Pos - 1, Pos)
    <3>1. Pos - 1 \in 0 .. Len(Line) /\ Pos \in Pos - 1 .. Len(Line)
      BY <1>1, <2>2
    <3>2. l \in Seq(Chars) /\ Len(l) = Len(Line) - (Pos - (Pos - 1))
      BY <1>1, <3>1, WithoutFacts
    <3>3. Edit(l, Pos - 1)
      BY <1>3, <2>2 DEF Backspace
    <3> HIDE DEF l
    <3>4. Pos - 1 \in Int /\ Pos - 1 \in 0 .. Len(l)
      BY <1>1, <2>2, <3>2
    <3> QED BY <3>2, <3>3, <3>4, EditPreserves
  <2> QED BY <2>1, <2>2
<1>4. CASE Delete
  <2>1. CASE Pos = n \/ Line = <<>>
    BY <1>4, <2>1, EditUndrawnPreserves DEF Delete
  <2>2. CASE ~(Pos = n \/ Line = <<>>)
    <3> DEFINE next == Pos + 1
               l == Without(Line, Pos, next)
    <3>1. Pos \in 0 .. Len(Line) /\ next \in Pos .. Len(Line) /\ next - Pos = 1
      BY <1>1, <2>2
    <3>2. Edit(l, Pos)
      BY <1>4, <2>2 DEF Delete
    <3> HIDE DEF next
    <3>3. l \in Seq(Chars) /\ Len(l) = Len(Line) - (next - Pos)
      BY <1>1, <3>1, WithoutFacts
    <3> HIDE DEF l
    <3>4. Pos \in Int /\ Pos \in 0 .. Len(l)
      BY <1>1, <2>2, <3>1, <3>3
    <3> QED BY <3>2, <3>3, <3>4, EditPreserves
  <2> QED BY <2>1, <2>2
<1>5. CASE DeleteToEnd
  <2> DEFINE l == SubSeq(Line, 1, Pos)
  <2>1. 1 \in 1 .. Len(Line) + 1 /\ Pos \in 1 - 1 .. Len(Line)
    BY <1>1
  <2>2. l \in Seq(Chars) /\ Len(l) = Pos - 1 + 1
    BY <1>1, <2>1, SubSeqFacts
  <2>3. Edit(l, Pos)
    BY <1>5 DEF DeleteToEnd
  <2> HIDE DEF l
  <2>4. Pos \in Int /\ Pos \in 0 .. Len(l)
    BY <1>1, <2>2
  <2> QED BY <2>2, <2>3, <2>4, EditPreserves
<1>6. CASE DeleteToBegin
  <2> DEFINE l == SubSeq(Line, Pos + 1, Len(Line))
  <2>1. Pos + 1 \in 1 .. Len(Line) + 1 /\ Len(Line) \in Pos + 1 - 1 .. Len(Line)
    BY <1>1
  <2>2. l \in Seq(Chars)
    BY <1>1, <2>1, SubSeqFacts
  <2>3. Edit(l, 0)
    BY <1>6 DEF DeleteToBegin
  <2> HIDE DEF l
  <2>4. 0 \in Int /\ 0 \in 0 .. Len(l)
    BY <2>2
  <2> QED BY <2>2, <2>3, <2>4, EditPreserves
<1>7. ASSUME NEW until, EraseWord(until) PROVE IInv'
  <2> DEFINE from == FindBackwards(Line, Pos, until)
             l == Without(Line, from, Pos)
  <2>1. from \in 0 .. Pos
    BY <1>1, FindBackwardsFacts
  <2>2. Edit(l, from)
    BY <1>7 DEF EraseWord
  <2> HIDE DEF from
  <2>3. from \in 0 .. Len(Line) /\ Pos \in from .. Len(Line)
    BY <1>1, <2>1
  <2>4. l \in Seq(Chars) /\ Len(l) = Len(Line) - (Pos - from)
    BY <1>1, <2>3, WithoutFacts
  <2> HIDE DEF l
  <2>5. from \in Int /\ from \in 0 .. Len(l)
    BY <1>1, <2>1, <2>4
  <2> QED BY <2>2, <2>4, <2>5, EditPreserves
<1> QED BY <1>2, <1>3, <1>4, <1>5, <1>6, <1>7 DEF EraseKey, CtrlW, CtrlBack

\* A key that moves the cursor.
LEMMA MoveKeyPreserves ==
    ASSUME IInv, MoveKey, phase = "editing" PROVE IInv'
<1> DEFINE n == Len(Line)
<1>1. Line \in Seq(Chars) /\ Pos \in 0 .. n /\ n \in Nat /\ (Line = <<>> <=> n = 0)
  BY LineFacts
<1>2. \A p \in -1 .. n : (Line # <<>> => p >= 0) /\ Edit(Line, p) => IInv'
  <2> SUFFICES ASSUME NEW p \in -1 .. n, Line # <<>> => p >= 0, Edit(Line, p)
               PROVE  IInv'
    OBVIOUS
  <2> QED BY <1>1, EditPreserves
<1>3. CASE Left
  BY <1>1, <1>2, <1>3 DEF Left
<1>4. CASE Right
  BY <1>1, <1>2, <1>4 DEF Right
<1>5. CASE Home
  BY <1>1, <1>2, <1>5 DEF Home
<1>6. CASE End
  BY <1>1, <1>2, <1>6 DEF End
<1>7. CASE CtrlLeft
  <2> DEFINE p == FindBackwards(Line, Pos, {Blank})
  <2>1. p \in 0 .. Pos
    BY <1>1, FindBackwardsFacts
  <2>2. Edit(Line, p)
    BY <1>7 DEF CtrlLeft
  <2> HIDE DEF p
  <2> QED BY <1>1, <1>2, <2>1, <2>2
<1>8. CASE CtrlRight
  <2> DEFINE p == NextWord(Line, Pos)
  <2>1. (Line = <<>> => p = -1) /\ (Line # <<>> => p \in 0 .. n)
    BY <1>1, NextWordFacts
  <2>2. Edit(Line, p)
    BY <1>8 DEF CtrlRight
  <2> HIDE DEF p
  <2> QED BY <1>1, <1>2, <2>1, <2>2
<1> QED BY <1>3, <1>4, <1>5, <1>6, <1>7, <1>8 DEF MoveKey

\* Tab and Shift-Tab.
LEMMA TabKeyPreserves ==
    ASSUME IInv, TabKey PROVE IInv'
<1>1. ASSUME NEW step \in {-1, 1}, TabContinues(step) PROVE IInv'
  <2> DEFINE n == Len(output.results)
             i == (index + step) % n
  <2>1. phase = "editing" /\ IsCompleting /\ TypeOK
    BY <1>1 DEF TabContinues, IInv
  <2>2. output \in Answers /\ output.results \in Seq(Seq(Chars)) /\ n \in Nat /\ n > 0
    <3>1. output \in Answers /\ output.results # <<>>
      BY <2>1 DEF IsCompleting, TypeOK, NoOutput
    <3>2. output.results \in Seq(Seq(Chars))
      BY <3>1, AnswerFacts
    <3> QED BY <3>1, <3>2
  <2>3. i \in 0 .. Len(output.results) - 1
    <3>1. index + step \in Int
      BY <2>1 DEF TypeOK
    <3> HIDE DEF n
    <3>2. i \in 0 .. n - 1
      BY <2>2, <3>1
    <3> QED BY <3>2 DEF n
  <2>4. ~Confirming /\ CompletionStands /\ CursorInLine
    BY <2>1 DEF IInv, CompletingHolds
  <2>5. wordBegin \in 0 .. Len(Line) /\ wordEnd \in wordBegin .. Len(Line)
    <3>1. Line = line
      BY <2>4 DEF Line
    <3>2. 0 <= wordBegin /\ wordBegin <= wordEnd /\ wordEnd <= Len(line)
      BY <2>1, <2>4 DEF CompletionStands
    <3> QED BY <2>1, <3>1, <3>2 DEF TypeOK
  <2>6. Complete(wordBegin, wordEnd, output, i)
    BY <1>1 DEF TabContinues
  <2> HIDE DEF i
  <2> QED BY <2>1, <2>2, <2>3, <2>5, <2>6, CompletePreserves
<1>2. ASSUME NEW step \in {-1, 1}, NEW o \in Answers, TabStarts(step, o) PROVE IInv'
  <2> DEFINE w == WordAt(Line, Pos)
             last == Len(o.results) - 1
             i == IF step = 1 THEN 0 ELSE last
  <2>1. phase = "editing" /\ o.results # <<>> /\ Complete(w.begin, w.end, o, i)
    BY <1>2 DEF TabStarts
  <2>2. Line \in Seq(Chars) /\ Pos \in 0 .. Len(Line)
    BY <2>1, LineFacts
  <2>3. w.begin \in 0 .. Len(Line) /\ w.end \in w.begin .. Len(Line)
    BY <2>2, WordAtFacts DEF IsPartOf
  <2>4. i \in 0 .. Len(o.results) - 1
    <3>1. o.results \in Seq(Seq(Chars))
      BY AnswerFacts
    <3>2. Len(o.results) \in Nat /\ Len(o.results) > 0
      BY <2>1, <3>1
    <3> QED BY <3>2
  <2> HIDE DEF w, i
  <2> QED BY <2>1, <2>3, <2>4, CompletePreserves
<1>3. ASSUME TabFindsNothing PROVE IInv'
  <2>1. /\ phase = "editing" /\ output' = NoOutput /\ index' = index
        /\ savedLine' = <<>> /\ savedPosition' = -1 /\ Put(Line, Pos)
    BY <1>3 DEF TabFindsNothing, NothingPending
  <2>2. Line \in Seq(Chars) /\ Pos \in 0 .. Len(Line) /\ (Line = <<>> => Pos = 0)
    <3>1. Line \in Seq(Chars) /\ Pos \in 0 .. Len(Line)
      BY <2>1, LineFacts
    <3>2. Line = <<>> => Len(Line) = 0
      OBVIOUS
    <3> QED BY <3>1, <3>2
  <2>3. line' = Line /\ position' = Pos /\ shown' = Drawn(Line, Pos) /\ phase' = "editing"
    BY <2>1, <2>2 DEF Put, Drawable
  <2>4. wordBegin' \in Int /\ wordEnd' \in Int
    <3> DEFINE w == WordAt(Line, Pos)
    <3>1. w.begin \in 0 .. Len(Line) /\ w.end \in w.begin .. Len(Line)
      BY <2>2, WordAtFacts DEF IsPartOf
    <3>2. \/ wordBegin' = wordBegin /\ wordEnd' = wordEnd
          \/ wordBegin' = w.begin /\ wordEnd' = w.end
      BY <1>3 DEF TabFindsNothing
    <3> HIDE DEF w
    <3> QED BY <3>1, <3>2 DEF IInv, TypeOK
  <2>5. ~IsCompleting' /\ ~Confirming'
    BY <2>1 DEF IsCompleting, Confirming, NoOutput
  <2>6. TypeOK'
    <3>1. Drawn(Line, Pos) \in [line : Seq(Chars), position : Int]
      BY <2>2 DEF Drawn
    <3> QED BY <2>1, <2>2, <2>3, <2>4, <3>1 DEF IInv, TypeOK
  <2> QED BY <2>2, <2>3, <2>5, <2>6
          DEF IInv, CursorInLine, ScreenAgrees, CompletionStands, PendingHolds,
              CompletingHolds, Drawn
<1> QED BY <1>1, <1>2, <1>3 DEF TabKey

\* A key that inserts.
LEMMA InsertKeyPreserves ==
    ASSUME IInv, InsertKey, phase = "editing" PROVE IInv'
<1> USE EditorAssumption
<1>1. Line \in Seq(Chars) /\ Pos \in 0 .. Len(Line) /\ Pos \in Int /\ Len(Line) \in Nat
  BY LineFacts
<1>2. ASSUME NEW t \in Seq(Chars), Edit(Insert(Line, Pos, t), Pos + Len(t)) PROVE IInv'
  <2> DEFINE l == Insert(Line, Pos, t)
  <2>1. l \in Seq(Chars) /\ Len(l) = Len(Line) + Len(t)
    BY <1>1, InsertFacts
  <2>2. Edit(l, Pos + Len(t))
    BY <1>2
  <2> HIDE DEF l
  <2>3. Pos + Len(t) \in Int /\ Pos + Len(t) \in 0 .. Len(l)
    BY <1>1, <2>1
  <2> QED BY <2>1, <2>2, <2>3, EditPreserves
<1>3. ASSUME NEW c \in Typed, Type(c) PROVE IInv'
  <2>1. <<c>> \in Seq(Chars) /\ Len(<<c>>) = 1
    OBVIOUS
  <2>2. Edit(Insert(Line, Pos, <<c>>), Pos + Len(<<c>>))
    BY <1>3, <2>1 DEF Type
  <2> QED BY <1>2, <2>1, <2>2
<1>4. ASSUME OtherKey PROVE IInv'
  BY <1>1, <1>4, EditPreserves DEF OtherKey
<1>5. ASSUME NEW command \in Recalled, Recall(command) PROVE IInv'
  <2>1. command \in Seq(Chars) /\ Len(command) \in Int /\ Len(command) \in 0 .. Len(command)
    OBVIOUS
  <2>2. Edit(command, Len(command))
    BY <1>5 DEF Recall
  <2> QED BY <2>1, <2>2, EditPreserves
<1>6. ASSUME NEW command \in Recalled, RecallPrefixed(command) PROVE IInv'
  <2>1. command \in Seq(Chars) /\ Edit(command, Pos) /\ IsPrefix(Prefix, command)
    BY <1>6 DEF RecallPrefixed
  <2>2. Len(Prefix) = Pos
    <3>1. 1 \in 1 .. Len(Line) + 1 /\ Pos \in 1 - 1 .. Len(Line)
      BY <1>1
    <3>2. Len(Prefix) = Pos - 1 + 1
      BY <1>1, <3>1, SubSeqFacts DEF Prefix
    <3> QED BY <1>1, <3>2
  <2>3. Len(Prefix) <= Len(command)
    BY <2>1 DEF IsPrefix
  <2>4. Pos \in 0 .. Len(command)
    BY <1>1, <2>1, <2>2, <2>3
  <2> QED BY <1>1, <2>1, <2>4, EditPreserves
<1>7. ASSUME Ask PROVE IInv'
  <2>1. /\ savedLine' = Line /\ savedPosition' = Pos /\ line' = Message
        /\ position' = 0 /\ shown' = Drawn(Message, 0) /\ phase' = phase
        /\ wordBegin' = -1 /\ output' = output /\ wordEnd' = wordEnd /\ index' = index
    BY <1>7 DEF Ask, CompletionOver
  <2>2. Message \in Seq(Chars) /\ 0 \in 0 .. Len(Message)
    OBVIOUS
  <2>3. ~IsCompleting'
    BY <2>1 DEF IsCompleting
  <2>4. TypeOK'
    <3>1. Drawn(Message, 0) \in [line : Seq(Chars), position : Int]
      BY <2>2 DEF Drawn
    <3> QED BY <1>1, <2>1, <2>2, <3>1 DEF IInv, TypeOK
  <2> QED BY <1>1, <2>1, <2>2, <2>3, <2>4
          DEF IInv, CursorInLine, ScreenAgrees, CompletionStands, PendingHolds,
              CompletingHolds, Drawn
<1>8. ASSUME NEW text \in Clipboards, Paste(text) PROVE IInv'
  <2>1. text \in Seq(Chars)
    OBVIOUS
  <2> QED BY <1>2, <1>7, <1>8, <2>1 DEF Paste
<1> QED BY <1>3, <1>4, <1>5, <1>6, <1>8 DEF InsertKey

\* A key that leaves the prompt.
LEMMA LeaveKeyPreserves ==
    ASSUME IInv, LeaveKey, phase = "editing" PROVE IInv'
<1>1. Line \in Seq(Chars) /\ Pos \in 0 .. Len(Line) /\ TypeOK
  BY LineFacts DEF IInv
<1>2. ASSUME CommandKey PROVE IInv'
  BY <1>1, <1>2, RunAndResumePreserves DEF CommandKey, TypeOK
<1>3. CASE CtrlD
  <2>1. CASE Line = <<>> /\ Pos = 0
    <3>1. RunAndResume /\ line' = Exit /\ position' = 0 /\ shown' = Drawn(Exit, 0)
      BY <1>3, <2>1 DEF CtrlD
    <3>2. Exit \in Seq(Chars) /\ 0 \in 0 .. Len(Exit)
      BY EditorAssumption
    <3>3. Drawn(Exit, 0) \in [line : Seq(Chars), position : Int]
      BY <3>2 DEF Drawn
    <3> QED BY <3>1, <3>2, <3>3, RunAndResumePreserves
  <2>2. CASE ~(Line = <<>> /\ Pos = 0)
    BY <1>3, <2>2, EditUndrawnPreserves DEF CtrlD
  <2> QED BY <2>1, <2>2
<1>4. ASSUME NEW changed \in BOOLEAN, AltNavigate(changed) PROVE IInv'
  BY <1>2, <1>4, EditUndrawnPreserves DEF AltNavigate
<1> QED BY <1>3, <1>4, DiscardedPreserves DEF LeaveKey, Return, InputFails

\* A prompt is being edited whenever a key is pressed.
LEMMA NextKeys == Next => Resume \/ phase = "editing"
BY DEF Next, EraseKey, MoveKey, TabKey, InsertKey, LeaveKey, Escape, Backspace,
       Delete, DeleteToEnd, DeleteToBegin, CtrlW, CtrlBack, EraseWord, Left, Right,
       Home, End, CtrlLeft, CtrlRight, TabContinues, TabStarts, TabFindsNothing,
       Type, OtherKey, Recall, RecallPrefixed, Paste, Ask, AltNavigate, CtrlD,
       Return, InputFails, CommandKey, RunAndResume, Edit, EditUndrawn

\* Every step preserves the invariant.
LEMMA StepIInv == IInv /\ [Next]_vars => IInv'
<1> SUFFICES ASSUME IInv, [Next]_vars PROVE IInv'
  OBVIOUS
<1>1. CASE Resume
  <2>1. /\ phase = "command" /\ phase' = "editing" /\ shown' = Drawn(line, position)
        /\ line' = line /\ position' = position
        /\ savedLine' = savedLine /\ savedPosition' = savedPosition
        /\ output' = output /\ wordBegin' = wordBegin /\ wordEnd' = wordEnd /\ index' = index
    BY <1>1 DEF Resume, pending, completion
  <2>2. TypeOK /\ CursorInLine /\ PendingHolds /\ ~IsCompleting
    BY <2>1 DEF IInv, CompletingHolds
  <2>3. TypeOK'
    BY <2>1, <2>2 DEF TypeOK, Drawn
  <2>4. ~IsCompleting'
    BY <2>1, <2>2 DEF IsCompleting
  <2>5. CursorInLine' /\ ScreenAgrees' /\ PendingHolds'
    BY <2>1, <2>2 DEF CursorInLine, ScreenAgrees, PendingHolds, Confirming, Drawn
  <2> QED BY <2>3, <2>4, <2>5 DEF IInv, CompletionStands, CompletingHolds
<1>2. Next => Resume \/ phase = "editing"
  BY NextKeys
<1>3. CASE UNCHANGED vars
  BY <1>3 DEF vars, IInv, TypeOK, CursorInLine, CompletionStands, ScreenAgrees,
              PendingHolds, CompletingHolds, IsCompleting, Confirming, Inserted, Drawn
<1> QED BY <1>1, <1>2, <1>3, EraseKeyPreserves, MoveKeyPreserves, TabKeyPreserves,
           InsertKeyPreserves, LeaveKeyPreserves DEF Next

\* So it always holds.
LEMMA Invariant == Spec => []IInv
BY InitIInv, StepIInv, PTL DEF Spec

-----------------------------------------------------------------------------
(* What the line is made of *)

\* The line is a text or the message that is being asked; what the message hides
\* is a text.
LineIsText ==
    /\ line \in Seq(TextChars) \/ (Confirming /\ line = Message)
    /\ savedLine \in Seq(TextChars)

\* The line a key acts on is a text.
LEMMA LineTextFacts ==
    ASSUME IInv, LineIsText, phase = "editing"
    PROVE  Line \in Seq(TextChars) /\ Pos \in 0 .. Len(Line)
BY LineFacts DEF LineIsText, Line

\* An edit leaves a text if it puts a text in the line's place.
LEMMA EditText ==
    ASSUME NEW l \in Seq(TextChars), NEW p, Edit(l, p)
    PROVE  LineIsText'
BY DEF Edit, Put, NothingPending, LineIsText

\* A key that returns before RedrawConsole restores the text the message hid.
LEMMA EditUndrawnText ==
    ASSUME IInv, LineIsText, EditUndrawn
    PROVE  LineIsText'
BY LineTextFacts DEF EditUndrawn, NothingPending, LineIsText

\* So does putting a candidate into a word's place.
LEMMA CompleteText ==
    ASSUME IInv, LineIsText, phase = "editing",
           NEW o \in Answers, NEW i \in 0 .. Len(o.results) - 1,
           NEW b \in 0 .. Len(Line), NEW e \in b .. Len(Line),
           Complete(b, e, o, i)
    PROVE  LineIsText'
<1> DEFINE blank == IF o.space THEN <<Blank>> ELSE <<>>
           word == QuoteWord(o.results[i + 1])
           rest == Without(Line, b, e)
<1>1. word \in Seq(TextChars)
  <2>1. o.results[i + 1] \in Seq(TextChars) /\ {Quote, Backslash} \subseteq TextChars
    <3>1. o.results \in Seq(Seq(TextChars))
      BY AnswerFacts
    <3> QED BY <3>1, MessageAssumption
  <2> QED BY <2>1, QuoteWordType
<1>2. blank \in Seq(TextChars)
  BY MessageAssumption
<1>3. Line \in Seq(TextChars) /\ Len(Line) \in Nat
  BY LineTextFacts
<1>4. rest \in Seq(TextChars) /\ Len(rest) = Len(Line) - (e - b)
  BY <1>3, WithoutFacts
<1> HIDE DEF blank, word, rest
<1>5. word \o blank \in Seq(TextChars)
  BY <1>1, <1>2, ConcatProperties
<1>6. Insert(rest, b, word \o blank) \in Seq(TextChars)
  <2>1. b \in 0 .. Len(rest)
    BY <1>3, <1>4
  <2> QED BY <1>4, <1>5, <2>1, InsertFacts
<1>7. line' = Insert(rest, b, word \o blank) /\ savedLine' = <<>>
  BY DEF Complete, Put, Completed, Inserted, NothingPending, rest, word, blank
<1> QED BY <1>6, <1>7 DEF LineIsText

\* Erasing leaves a part of a text.
LEMMA EraseKeyText ==
    ASSUME IInv, LineIsText, phase = "editing", EraseKey
    PROVE  LineIsText'
<1>1. Line \in Seq(TextChars) /\ Pos \in 0 .. Len(Line) /\ Len(Line) \in Nat
  BY LineTextFacts
<1>2. ASSUME NEW b \in 0 .. Len(Line), NEW e \in b .. Len(Line), NEW p,
             Edit(Without(Line, b, e), p)
      PROVE  LineIsText'
  BY <1>1, <1>2, WithoutFacts, EditText
<1>3. ASSUME Escape PROVE LineIsText'
  <2>1. <<>> \in Seq(TextChars)
    OBVIOUS
  <2> QED BY <1>1, <1>3, <2>1, EditText DEF Escape
<1>4. ASSUME Backspace PROVE LineIsText'
  <2>1. CASE Pos = 0 \/ Line = <<>>
    BY <1>4, <2>1, EditUndrawnText DEF Backspace
  <2>2. CASE ~(Pos = 0 \/ Line = <<>>)
    <3>1. Pos - 1 \in 0 .. Len(Line) /\ Pos \in Pos - 1 .. Len(Line)
      BY <1>1, <2>2
    <3> QED BY <1>2, <1>4, <2>2, <3>1 DEF Backspace
  <2> QED BY <2>1, <2>2
<1>5. ASSUME Delete PROVE LineIsText'
  <2>1. CASE Pos = Len(Line) \/ Line = <<>>
    BY <1>5, <2>1, EditUndrawnText DEF Delete
  <2>2. CASE ~(Pos = Len(Line) \/ Line = <<>>)
    <3>1. Pos \in 0 .. Len(Line) /\ Pos + 1 \in Pos .. Len(Line)
      BY <1>1, <2>2
    <3> QED BY <1>2, <1>5, <2>2, <3>1 DEF Delete
  <2> QED BY <2>1, <2>2
<1>6. ASSUME DeleteToEnd PROVE LineIsText'
  <2>1. 1 \in 1 .. Len(Line) + 1 /\ Pos \in 1 - 1 .. Len(Line)
    BY <1>1
  <2>2. SubSeq(Line, 1, Pos) \in Seq(TextChars)
    BY <1>1, <2>1, SubSeqFacts
  <2> QED BY <1>6, <2>2, EditText DEF DeleteToEnd
<1>7. ASSUME DeleteToBegin PROVE LineIsText'
  <2>1. Pos + 1 \in 1 .. Len(Line) + 1 /\ Len(Line) \in Pos + 1 - 1 .. Len(Line)
    BY <1>1
  <2>2. SubSeq(Line, Pos + 1, Len(Line)) \in Seq(TextChars)
    BY <1>1, <2>1, SubSeqFacts
  <2> QED BY <1>7, <2>2, EditText DEF DeleteToBegin
<1>8. ASSUME NEW until, EraseWord(until) PROVE LineIsText'
  <2> DEFINE from == FindBackwards(Line, Pos, until)
  <2>1. from \in 0 .. Pos /\ Edit(Without(Line, from, Pos), from)
    BY <1>1, <1>8, FindBackwardsFacts DEF EraseWord
  <2> HIDE DEF from
  <2>2. from \in 0 .. Len(Line) /\ Pos \in from .. Len(Line)
    BY <1>1, <2>1
  <2> QED BY <1>2, <2>1, <2>2
<1> QED BY <1>3, <1>4, <1>5, <1>6, <1>7, <1>8 DEF EraseKey, CtrlW, CtrlBack

\* Tab puts a quoted candidate into a text, or leaves it.
LEMMA TabKeyText ==
    ASSUME IInv, LineIsText, phase = "editing", TabKey
    PROVE  LineIsText'
<1>1. Line \in Seq(TextChars) /\ Pos \in 0 .. Len(Line) /\ Len(Line) \in Nat
  BY LineTextFacts
<1>2. ASSUME NEW step \in {-1, 1}, TabContinues(step) PROVE LineIsText'
  <2> DEFINE n == Len(output.results)
             i == (index + step) % n
  <2>1. IsCompleting /\ TypeOK /\ Complete(wordBegin, wordEnd, output, i)
    BY <1>2 DEF TabContinues, IInv
  <2>2. output \in Answers /\ output.results \in Seq(Seq(Chars)) /\ n \in Nat /\ n > 0
    <3>1. output \in Answers /\ output.results # <<>>
      BY <2>1 DEF IsCompleting, TypeOK, NoOutput
    <3>2. output.results \in Seq(Seq(Chars))
      BY <3>1, AnswerFacts
    <3> QED BY <3>1, <3>2
  <2>3. i \in 0 .. Len(output.results) - 1
    <3>1. index + step \in Int
      BY <2>1 DEF TypeOK
    <3> HIDE DEF n
    <3>2. i \in 0 .. n - 1
      BY <2>2, <3>1
    <3> QED BY <3>2 DEF n
  <2>4. wordBegin \in 0 .. Len(Line) /\ wordEnd \in wordBegin .. Len(Line)
    <3>1. Line = line
      BY <2>1 DEF IInv, CompletingHolds, Line
    <3>2. 0 <= wordBegin /\ wordBegin <= wordEnd /\ wordEnd <= Len(line)
      BY <2>1 DEF IInv, CompletionStands
    <3> QED BY <2>1, <3>1, <3>2 DEF TypeOK
  <2> HIDE DEF i
  <2> QED BY <2>1, <2>2, <2>3, <2>4, CompleteText
<1>3. ASSUME NEW step \in {-1, 1}, NEW o \in Answers, TabStarts(step, o) PROVE LineIsText'
  <2> DEFINE w == WordAt(Line, Pos)
             last == Len(o.results) - 1
             i == IF step = 1 THEN 0 ELSE last
  <2>1. o.results # <<>> /\ Complete(w.begin, w.end, o, i)
    BY <1>3 DEF TabStarts
  <2>2. w.begin \in 0 .. Len(Line) /\ w.end \in w.begin .. Len(Line)
    BY <1>1, WordAtFacts DEF IsPartOf
  <2>3. i \in 0 .. Len(o.results) - 1
    <3>1. o.results \in Seq(Seq(Chars))
      BY AnswerFacts
    <3>2. Len(o.results) \in Nat /\ Len(o.results) > 0
      BY <2>1, <3>1
    <3> QED BY <3>2
  <2> HIDE DEF w, i
  <2> QED BY <2>1, <2>2, <2>3, CompleteText
<1>4. ASSUME TabFindsNothing PROVE LineIsText'
  BY <1>1, <1>4 DEF TabFindsNothing, NothingPending, Put, LineIsText
<1> QED BY <1>2, <1>3, <1>4 DEF TabKey

\* What is typed, pasted or recalled is a text; asking puts the message up.
LEMMA InsertKeyText ==
    ASSUME IInv, LineIsText, phase = "editing", InsertKey
    PROVE  LineIsText'
<1> USE MessageAssumption
<1>1. Line \in Seq(TextChars) /\ Pos \in 0 .. Len(Line)
  BY LineTextFacts
<1>2. ASSUME NEW t \in Seq(TextChars), NEW p, Edit(Insert(Line, Pos, t), p)
      PROVE  LineIsText'
  BY <1>1, <1>2, InsertFacts, EditText
<1>3. ASSUME NEW c \in Typed, Type(c) PROVE LineIsText'
  <2>1. <<c>> \in Seq(TextChars)
    OBVIOUS
  <2> QED BY <1>2, <1>3, <2>1 DEF Type
<1>4. ASSUME OtherKey PROVE LineIsText'
  BY <1>1, <1>4, EditText DEF OtherKey
<1>5. ASSUME NEW command \in Recalled, Recall(command) \/ RecallPrefixed(command)
      PROVE  LineIsText'
  <2>1. command \in Seq(TextChars)
    OBVIOUS
  <2> QED BY <1>5, <2>1, EditText DEF Recall, RecallPrefixed
<1>6. ASSUME Ask PROVE LineIsText'
  <2>1. savedLine' = Line /\ savedPosition' = Pos /\ line' = Message
    BY <1>6 DEF Ask
  <2>2. Pos # -1
    BY <1>1
  <2> QED BY <1>1, <2>1, <2>2 DEF LineIsText, Confirming
<1>7. ASSUME NEW text \in Clipboards, Paste(text) PROVE LineIsText'
  <2>1. text \in Seq(TextChars)
    OBVIOUS
  <2> QED BY <1>2, <1>6, <1>7, <2>1 DEF Paste
<1> QED BY <1>3, <1>4, <1>5, <1>7 DEF InsertKey

\* A prompt that is left keeps its text, is empty, or holds "exit".
LEMMA LeaveKeyText ==
    ASSUME IInv, LineIsText, phase = "editing", LeaveKey
    PROVE  LineIsText'
<1>1. Line \in Seq(TextChars)
  BY LineTextFacts
<1>2. ASSUME CommandKey PROVE LineIsText'
  BY <1>1, <1>2 DEF CommandKey, RunAndResume, NothingPending, LineIsText
<1>3. ASSUME CtrlD PROVE LineIsText'
  <2>1. CASE Line = <<>> /\ Pos = 0
    BY <1>3, <2>1, MessageAssumption DEF CtrlD, RunAndResume, NothingPending, LineIsText
  <2>2. CASE ~(Line = <<>> /\ Pos = 0)
    BY <1>3, <2>2, EditUndrawnText DEF CtrlD
  <2> QED BY <2>1, <2>2
<1>4. ASSUME NEW changed \in BOOLEAN, AltNavigate(changed) PROVE LineIsText'
  BY <1>2, <1>4, EditUndrawnText DEF AltNavigate
<1>5. ASSUME Discarded PROVE LineIsText'
  BY <1>5 DEF Discarded, NewEditor, LineIsText
<1> QED BY <1>3, <1>4, <1>5 DEF LeaveKey, Return, InputFails

\* Every step leaves a text, or the message that is being asked.
LEMMA StepLineIsText == IInv /\ LineIsText /\ [Next]_vars => LineIsText'
<1> SUFFICES ASSUME IInv, LineIsText, [Next]_vars PROVE LineIsText'
  OBVIOUS
<1>1. CASE UNCHANGED vars
  BY <1>1 DEF vars, LineIsText, Confirming
<1>2. CASE Resume
  BY <1>2 DEF Resume, pending, LineIsText, Confirming
<1>3. CASE MoveKey
  <2>1. PICK p : Edit(Line, p)
    BY <1>3 DEF MoveKey, Left, Right, Home, End, CtrlLeft, CtrlRight
  <2>2. Line \in Seq(TextChars)
    BY <2>1, LineTextFacts DEF Edit
  <2> QED BY <2>1, <2>2, EditText
<1> QED BY <1>1, <1>2, <1>3, NextKeys, EraseKeyText, TabKeyText, InsertKeyText, LeaveKeyText
        DEF Next

-----------------------------------------------------------------------------
(* Theorems *)

\* Every variable keeps its type.
THEOREM TypeCorrect == Spec => []TypeOK
BY Invariant, PTL DEF IInv

\* The cursor never leaves the line (line_editor.cc indexes, erases and inserts
\* at position_ unchecked).
THEOREM CursorStaysInLine == Spec => []CursorInLine
BY Invariant, PTL DEF IInv

\* TabComplete always takes out exactly the candidate it put in.
THEOREM CompletionTakesOutWhatItPutIn == Spec => []CompletionStands
BY Invariant, PTL DEF IInv

\* What is on the screen is what the next key acts on, or the message.
THEOREM ScreenAgreesWithLine == Spec => []ScreenAgrees
BY Invariant, PTL DEF IInv

\* Ctrl-V asks before it pastes a newline, and the question is still to be read
\* when the second Ctrl-V answers it.
THEOREM NewlinesAreConfirmed == Spec => PasteIsConfirmed
<1>1. IInv /\ [Next]_vars
        => [\A text \in Clipboards :
              Paste(text) /\ Newline \in ToSet(text) /\ line' # Message
                => shown.line = Message]_vars
  <2> SUFFICES ASSUME IInv, NEW text \in Clipboards, Paste(text),
                      Newline \in ToSet(text), line' # Message
               PROVE  shown.line = Message
    OBVIOUS
  <2>1. CASE Confirming
    BY <2>1 DEF IInv, PendingHolds
  <2>2. CASE ~Confirming
    BY <2>2 DEF Paste, Ask
  <2> QED BY <2>1, <2>2
<1> QED BY <1>1, Invariant, PTL DEF Spec, PasteIsConfirmed

\* The message is in the line only while it is being asked, and whatever key
\* answers it, it is never taken for a part of the command.
THEOREM MessageNeverText == Spec => []MessageIsNotText
<1>1. Init => LineIsText
  BY DEF Init, NewEditor, LineIsText
<1>2. Spec => []LineIsText
  BY <1>1, StepLineIsText, Invariant, PTL DEF Spec
<1>3. \A l \in Seq(TextChars) : ~HoldsMessage(l)
  BY DEF HoldsMessage, ToSet, TextChars
<1>4. LineIsText => MessageIsNotText
  BY <1>3 DEF LineIsText, MessageIsNotText
<1> QED BY <1>2, <1>4, PTL

\* Whatever has been typed, the words of the line take no character of another,
\* leave out nothing but blanks, and the one that is completed is the cursor's.
THEOREM CompletesTheCursorsWord == Spec => []CursorWord
<1>1. TypeOK => CursorWord
  BY EveryCursorWord DEF TypeOK
<1> QED BY <1>1, TypeCorrect, PTL

\* Whatever has been typed, as an argument in QuoteWord's quotes it comes back
\* unchanged from the rules CommandLineToArgvW splits by.
THEOREM QuotingIsUndone == Spec => []QuotedWordComesBack
<1>1. TypeOK => QuotedWordComesBack
  BY EveryQuotedWord DEF TypeOK
<1> QED BY <1>1, TypeCorrect, PTL

\* The assertion in CompletionBreakIntoWords holds of whatever has been typed:
\* each of the editor's words has one of CommandLineToArgvW's to go with it.
THEOREM AsManyWordsAsWindows == Spec => []WordCountAgrees
<1>1. TypeOK => WordCountAgrees
  BY EveryWordCounts DEF TypeOK
<1> QED BY <1>1, TypeCorrect, PTL

\* A candidate that was put in a word's place is the word at the cursor behind it,
\* so that the next Tab replaces it and nothing else; and Windows reads it there,
\* and every other argument as before.
THEOREM CompletionIsTheNextWord == Spec => []InsertedWordStands
<1>1. TypeOK => InsertedWordStands
  BY EveryInsertedWord DEF TypeOK
<1> QED BY <1>1, TypeCorrect, PTL

=============================================================================
