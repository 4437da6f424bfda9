------------------------ MODULE CommandHistoryProofs ------------------------
(***************************************************************************)
(* What TLAPS proves about CommandHistory for every set of lines, every    *)
(* history file and every bound.                                           *)
(***************************************************************************)
EXTENDS CommandHistory, WellFoundedInduction, TLAPS

-----------------------------------------------------------------------------
(* Numbers *)

\* A set of naturals that is not empty has a least element.
LEMMA LeastNatural ==
    ASSUME NEW T, T \subseteq Nat, T # {}
    PROVE  \E x \in T : \A y \in T : x <= y
<1> DEFINE R == OpToRel(<, Nat)
<1>1. PICK x \in T : \A y \in T : ~(<<y, x>> \in R)
  <2>1. IsWellFoundedOn(R, Nat)
    BY NatLessThanWellFounded
  <2> HIDE DEF R
  <2> QED BY <2>1, WFMin
<1>2. \A y \in T : ~(y < x)
  BY <1>1 DEF OpToRel
<1>3. x \in Nat /\ \A y \in T : y \in Nat
  OBVIOUS
<1> HIDE DEF R
<1>4. \A y \in T : x <= y
  BY <1>2, <1>3
<1> QED BY <1>4

\* A set of naturals below a bound that is not empty has a maximum.
LEMMA MaxFacts ==
    ASSUME NEW n \in Nat, NEW S, S \subseteq 0 .. n, S # {}
    PROVE  Max(S) \in S /\ \A y \in S : y <= Max(S)
<1> DEFINE T == {n - x : x \in S}
<1>1. T \subseteq Nat /\ T # {}
  <2>1. \A x \in S : n - x \in Nat
    OBVIOUS
  <2> QED BY <2>1
<1>2. PICK t \in T : \A u \in T : t <= u
  <2> HIDE DEF T
  <2> QED BY <1>1, LeastNatural
<1>3. PICK x \in S : t = n - x
  BY <1>2
<1>4. \A y \in S : y <= x
  <2> SUFFICES ASSUME NEW y \in S PROVE y <= x
    OBVIOUS
  <2>1. t <= n - y
    BY <1>2
  <2>2. x \in Int /\ y \in Int
    OBVIOUS
  <2> QED BY <1>3, <2>1, <2>2
<1> QED BY <1>4 DEF Max

\* A set of naturals that is not empty has a minimum.
LEMMA MinFacts ==
    ASSUME NEW S, S \subseteq Nat, S # {}
    PROVE  Min(S) \in S /\ \A y \in S : Min(S) <= y
BY LeastNatural DEF Min

-----------------------------------------------------------------------------

\* The remainder of a number less than one divisor away from the range.
LEMMA Remainder ==
    ASSUME NEW n \in Nat, n > 0, NEW a \in Int
    PROVE  /\ a >= 0 /\ a < n => a % n = a
           /\ a >= n /\ a < 2 * n => a % n = a - n
           /\ a < 0 /\ a >= -n => a % n = a + n
<1>1. a >= 0 /\ a < n => a % n = a
  OBVIOUS
<1>2. a >= n /\ a < 2 * n => a % n = a - n
  OBVIOUS
<1>3. a < 0 /\ a >= -n => a % n = a + n
  OBVIOUS
<1> QED BY <1>1, <1>2, <1>3

-----------------------------------------------------------------------------

\* The probes of either direction without the remainder: from the first one
\* they wrap around the list at most once.
FirstBack == IF position = 0 THEN Size - 1 ELSE position - 1
FirstForward == IF position >= Size - 1 THEN 0 ELSE position + 1

BackProbe(k) ==
    IF k <= FirstBack + 1 THEN FirstBack - k + 1 ELSE FirstBack - k + 1 + Size

ForwardProbe(k) ==
    IF FirstForward + k <= Size THEN FirstForward + k - 1
                                ELSE FirstForward + k - 1 - Size

\* What the loop of MoveInHistory looks at in its k-th turn, without the division.
LEMMA ProbeFacts ==
    ASSUME TypeOK, commands # <<>>
    PROVE  /\ Size \in Nat /\ Size > 0 /\ position \in 0 .. Size
           /\ Original = IF position = Size THEN 0 ELSE position
           /\ \A k \in 1 .. Size : Probe(-1, k) = BackProbe(k)
           /\ \A k \in 1 .. Size : Probe(1, k) = ForwardProbe(k)
<1>1. Size \in Nat /\ Size > 0 /\ position \in 0 .. Size
  BY DEF TypeOK, Size
<1>2. Original = IF position = Size THEN 0 ELSE position
  <2>1. CASE position = Size
    <3>1. Size % Size = Size - Size
      BY <1>1, Remainder
    <3> QED BY <1>1, <2>1, <3>1 DEF Original
  <2>2. CASE position < Size
    <3>1. position % Size = position
      BY <1>1, <2>2, Remainder
    <3> QED BY <1>1, <2>2, <3>1 DEF Original
  <2> QED BY <1>1, <2>1, <2>2
<1>3. ASSUME NEW k \in 1 .. Size PROVE Probe(-1, k) = BackProbe(k)
  <2> DEFINE i == FirstBack - k + 1
  <2>1. FirstBack \in 0 .. Size - 1 /\ Wrap(position + -1) = FirstBack
    BY <1>1 DEF FirstBack, Wrap
  <2>2. Probe(-1, k) = i % Size
    <3>1. FirstBack + -1 * (k - 1) = i
      BY <1>1, <2>1
    <3> QED BY <2>1, <3>1 DEF Probe
  <2>3. i \in Int /\ i < Size /\ i >= -Size /\ (i >= 0 <=> k <= FirstBack + 1)
    BY <1>1, <2>1
  <2>4. BackProbe(k) = IF i >= 0 THEN i ELSE i + Size
    BY <1>1, <2>1, <2>3 DEF BackProbe
  <2> HIDE DEF i
  <2>5. i % Size = IF i >= 0 THEN i ELSE i + Size
    BY <1>1, <2>3, Remainder
  <2> QED BY <2>2, <2>4, <2>5
<1>4. ASSUME NEW k \in 1 .. Size PROVE Probe(1, k) = ForwardProbe(k)
  <2> DEFINE i == FirstForward + k - 1
  <2>1. FirstForward \in 0 .. Size - 1 /\ Wrap(position + 1) = FirstForward
    BY <1>1 DEF FirstForward, Wrap
  <2>2. Probe(1, k) = i % Size
    <3>1. FirstForward + 1 * (k - 1) = i
      BY <1>1, <2>1
    <3> QED BY <2>1, <3>1 DEF Probe
  <2>3. i \in Int /\ i >= 0 /\ i < 2 * Size /\ (i < Size <=> FirstForward + k <= Size)
    BY <1>1, <2>1
  <2>4. ForwardProbe(k) = IF i < Size THEN i ELSE i - Size
    BY <1>1, <2>1, <2>3 DEF ForwardProbe
  <2> HIDE DEF i
  <2>5. i % Size = IF i < Size THEN i ELSE i - Size
    BY <1>1, <2>3, Remainder
  <2> QED BY <2>2, <2>4, <2>5
<1> QED BY <1>1, <1>2, <1>3, <1>4

\* The loop ends, on an index of the list.
LEMMA LandingFacts ==
    ASSUME TypeOK, commands # <<>>, NEW direction \in {-1, 1}, NEW prefix
    PROVE  /\ IsLanding(direction, prefix, Landing(direction, prefix))
           /\ Landing(direction, prefix) \in 0 .. Size - 1
<1> DEFINE ks == {k \in 1 .. Size : Ends(direction, prefix, k)}
<1>0. /\ Size \in Nat /\ Size > 0 /\ position \in 0 .. Size
      /\ Original = IF position = Size THEN 0 ELSE position
  BY ProbeFacts
<1>1. \A k \in 1 .. Size : Probe(direction, k) \in 0 .. Size - 1
  <2>1. ASSUME NEW k \in 1 .. Size
        PROVE  BackProbe(k) \in 0 .. Size - 1 /\ ForwardProbe(k) \in 0 .. Size - 1
    BY <1>0 DEF BackProbe, ForwardProbe, FirstBack, FirstForward
  <2> QED BY <2>1, ProbeFacts
<1>2. \E k \in 1 .. Size : Probe(direction, k) = Original
  <2>1. 1 \in 1 .. Size /\ Size \in 1 .. Size
    BY ProbeFacts
  <2>2. BackProbe(Size) = Original
    BY <1>0 DEF BackProbe, FirstBack
  <2>3. ForwardProbe(Size) = Original \/ ForwardProbe(1) = Original
    BY <1>0 DEF ForwardProbe, FirstForward
  <2> QED BY <2>1, <2>2, <2>3, ProbeFacts
<1>3. PICK k \in ks : \A j \in ks : k <= j
  <2>1. ks \subseteq Nat /\ ks # {}
    BY <1>2 DEF Ends
  <2> HIDE DEF ks
  <2> QED BY <2>1, LeastNatural
<1>4. IsLanding(direction, prefix, Probe(direction, k))
  <2>1. k \in 1 .. Size /\ Ends(direction, prefix, k) /\ Size \in Nat
    BY ProbeFacts
  <2>2. ASSUME NEW j \in 1 .. k - 1 PROVE ~Ends(direction, prefix, j)
    <3>1. j \in 1 .. Size /\ ~(k <= j)
      BY <2>1
    <3> QED BY <1>3, <3>1
  <2> QED BY <2>1, <2>2 DEF IsLanding
<1> QED BY <1>1, <1>4 DEF Landing

\* From past the newest command, Up leads to it.
LEMMA NewestFirst ==
    ASSUME NEW S, Lines \subseteq Seq(S), TypeOK, commands # <<>>, position = Size
    PROVE  Landing(-1, <<>>) = Size - 1
<1> DEFINE land == Landing(-1, <<>>)
<1>1. Size \in Nat /\ Size > 0 /\ Probe(-1, 1) = BackProbe(1)
  BY ProbeFacts
<1>2. Probe(-1, 1) = Size - 1
  BY <1>1 DEF BackProbe, FirstBack
<1>3. Ends(-1, <<>>, 1)
  <2>1. commands[Size - 1 + 1] \in Seq(S)
    BY <1>1 DEF TypeOK, Size
  <2> QED BY <1>1, <1>2, <2>1 DEF Ends, Matches, IsPrefix
<1>4. PICK k \in 1 .. Size : /\ \A j \in 1 .. k - 1 : ~Ends(-1, <<>>, j)
                            /\ land = Probe(-1, k)
  BY LandingFacts DEF IsLanding
<1>5. k = 1
  BY <1>1, <1>3, <1>4
<1> QED BY <1>2, <1>4, <1>5

\* The cursor never leaves the list, so no command is read out of range.
THEOREM TypeCorrect == Spec => []TypeOK
<1>1. Init => TypeOK
  BY HistoryAssumption DEF Init, Populate, TypeOK, Size
<1>2. TypeOK /\ [Next]_vars => TypeOK'
  <2> SUFFICES ASSUME TypeOK, [Next]_vars PROVE TypeOK'
    OBVIOUS
  <2>1. ASSUME NEW c \in Lines, AddCommand(c) PROVE TypeOK'
    BY <2>1 DEF AddCommand, TypeOK, Size
  <2>2. ASSUME NEW direction \in {-1, 1}, NEW prefix \in Lines,
               MoveInHistory(direction, prefix)
        PROVE  TypeOK'
    <3>1. position' \in 0 .. Size - 1
      BY <2>2, LandingFacts DEF MoveInHistory
    <3> QED BY <2>2, <3>1 DEF MoveInHistory, TypeOK, Size
  <2>3. CASE UNCHANGED vars
    BY <2>3 DEF vars, TypeOK, Size
  <2> QED BY <2>1, <2>2, <2>3 DEF Next
<1> QED BY <1>1, <1>2, PTL DEF Spec

-----------------------------------------------------------------------------

\* At which probe the backward search looks at index i.
BackTurn(i) == IF i <= FirstBack THEN FirstBack - i + 1
                                 ELSE FirstBack - i + 1 + Size

\* Going back, the loop comes past every command exactly once, and past the one it
\* started at last.
LEMMA BackTurnFacts ==
    ASSUME TypeOK, commands # <<>>, NEW i \in 0 .. Size - 1
    PROVE  /\ BackTurn(i) \in 1 .. Size
           /\ Probe(-1, BackTurn(i)) = i
           /\ \A k \in 1 .. Size : Probe(-1, k) = i => k = BackTurn(i)
           /\ BackTurn(Original) = Size
<1>1. /\ Size \in Nat /\ Size > 0 /\ position \in 0 .. Size
      /\ Original = IF position = Size THEN 0 ELSE position
  BY ProbeFacts
<1>2. FirstBack \in 0 .. Size - 1
  BY <1>1 DEF FirstBack
<1>3. BackTurn(i) \in 1 .. Size
  BY <1>1, <1>2 DEF BackTurn
<1>4. BackProbe(BackTurn(i)) = i
  BY <1>1, <1>2 DEF BackTurn, BackProbe
<1>5. ASSUME NEW k \in 1 .. Size, BackProbe(k) = i PROVE k = BackTurn(i)
  BY <1>1, <1>2, <1>5 DEF BackTurn, BackProbe
<1>6. BackTurn(Original) = Size
  BY <1>1 DEF BackTurn, FirstBack
<1> QED BY <1>3, <1>4, <1>5, <1>6, ProbeFacts

\* A set of indices is not empty: the nearest older of them is one of them, and
\* the backward search looks at it before any other.
LEMMA NearestOlderFacts ==
    ASSUME TypeOK, commands # <<>>, NEW prefix, Matching(prefix) # {}
    PROVE  /\ NearestOlder(prefix) \in Matching(prefix)
           /\ \A i \in Matching(prefix) :
                 i # NearestOlder(prefix) => BackTurn(NearestOlder(prefix)) < BackTurn(i)
<1> DEFINE all   == Matching(prefix)
           older == {i \in all : i < position}
           m     == NearestOlder(prefix)
<1>1. Size \in Nat /\ Size > 0 /\ position \in 0 .. Size
  BY ProbeFacts
<1>2. all \subseteq 0 .. Size - 1
  BY DEF Matching
<1>3. FirstBack = IF position = 0 THEN Size - 1 ELSE position - 1
  BY DEF FirstBack
<1>4. CASE older # {}
  <2>1. m = Max(older)
    BY <1>4 DEF NearestOlder
  <2> HIDE DEF all, m
  <2>2. m \in older /\ \A y \in older : y <= m
    <3>1. older \subseteq 0 .. Size /\ Size \in Nat
      <4>1. \A i \in 0 .. Size - 1 : i \in 0 .. Size
        BY <1>1
      <4> QED BY <1>1, <1>2, <4>1
    <3> HIDE DEF older
    <3> QED BY <1>4, <2>1, <3>1, MaxFacts
  <2>3. m \in all /\ m < position
    BY <2>2
  <2>4. ASSUME NEW i \in all, i # m PROVE BackTurn(m) < BackTurn(i)
    <3>1. i < position => i <= m
      BY <2>2
    <3>2. i \in 0 .. Size - 1 /\ m \in 0 .. Size - 1
      BY <1>2, <2>3
    <3> HIDE DEF older
    <3> QED BY <1>1, <1>3, <2>3, <2>4, <3>1, <3>2 DEF BackTurn
  <2> QED BY <2>3, <2>4 DEF all, m
<1>5. CASE older = {}
  <2>1. m = Max(all)
    BY <1>5 DEF NearestOlder
  <2>2. all # {}
    OBVIOUS
  <2>3. \A i \in all : i >= position
    BY <1>1, <1>2, <1>5
  <2> HIDE DEF all, older, m
  <2>4. m \in all /\ \A y \in all : y <= m
    <3>1. all \subseteq 0 .. Size
      BY <1>1, <1>2
    <3> QED BY <1>1, <2>1, <2>2, <3>1, MaxFacts
  <2>5. ASSUME NEW i \in all, i # m PROVE BackTurn(m) < BackTurn(i)
    <3>1. i <= m /\ i >= position /\ m >= position
      BY <2>3, <2>4
    <3>2. i \in 0 .. Size - 1 /\ m \in 0 .. Size - 1
      BY <1>2, <2>4
    <3> QED BY <1>1, <1>3, <2>5, <3>1, <3>2 DEF BackTurn
  <2> QED BY <2>4, <2>5 DEF all, m
<1> QED BY <1>4, <1>5

\* For every history, cursor and prefix, PgUp finds a match if there is one, and
\* the nearest older one.
THEOREM BackwardSearch == Spec => []BackwardFindsNearest
<1>1. TypeOK => BackwardFindsNearest
  <2>1. SUFFICES ASSUME TypeOK, NEW prefix \in Lines, Matching(prefix) # {}
                 PROVE  /\ Found(-1, prefix)
                        /\ Landing(-1, prefix) = NearestOlder(prefix)
    BY DEF BackwardFindsNearest
  <2> DEFINE m == NearestOlder(prefix)
             land == Landing(-1, prefix)
  <2>2. commands # <<>>
    BY <2>1 DEF Matching, Size
  <2>3. /\ m \in Matching(prefix)
        /\ \A i \in Matching(prefix) : i # m => BackTurn(m) < BackTurn(i)
    BY <2>1, <2>2, NearestOlderFacts
  <2>4. PICK k \in 1 .. Size :
               /\ Ends(-1, prefix, k)
               /\ \A j \in 1 .. k - 1 : ~Ends(-1, prefix, j)
               /\ land = Probe(-1, k)
    BY <2>1, <2>2, LandingFacts DEF IsLanding
  <2> HIDE DEF m, land
  <2>5. m \in 0 .. Size - 1 /\ Matches(m, prefix)
    BY <2>3 DEF Matching
  <2>6. /\ BackTurn(m) \in 1 .. Size /\ Probe(-1, BackTurn(m)) = m
        /\ Size \in Nat
    BY <2>1, <2>2, <2>5, BackTurnFacts, ProbeFacts
  <2>7. k <= BackTurn(m)
    <3>1. Ends(-1, prefix, BackTurn(m))
      BY <2>5, <2>6 DEF Ends
    <3> QED BY <2>4, <2>6, <3>1
  <2>8. land \in 0 .. Size - 1 /\ k = BackTurn(land)
    <3>1. land \in 0 .. Size - 1
      BY <2>1, <2>2, LandingFacts DEF land
    <3> QED BY <2>1, <2>2, <2>4, <3>1, BackTurnFacts
  <2>9. CASE Matches(land, prefix)
    <3>1. land \in Matching(prefix)
      BY <2>8, <2>9 DEF Matching
    <3>2. land = m
      BY <2>3, <2>6, <2>7, <2>8, <3>1
    <3> QED BY <2>2, <2>9, <3>2 DEF Found, m, land
  <2>10. CASE ~Matches(land, prefix)
    <3>1. land = Original
      BY <2>4, <2>10 DEF Ends
    <3>2. k = Size
      BY <2>1, <2>2, <2>8, <3>1, BackTurnFacts
    <3>3. BackTurn(m) = k
      BY <2>6, <2>7, <3>2
    <3> QED BY <2>4, <2>5, <2>6, <2>10, <3>3
  <2> QED BY <2>9, <2>10 DEF m, land
<1> QED BY <1>1, TypeCorrect, PTL

-----------------------------------------------------------------------------

\* At which probe the forward search looks at index i.
ForwardTurn(i) == IF i >= FirstForward THEN i - FirstForward + 1
                                       ELSE i - FirstForward + 1 + Size

\* From a command, the forward search looks at every index exactly once, and at
\* the command itself last.
LEMMA ForwardTurnFacts ==
    ASSUME TypeOK, commands # <<>>, position < Size, NEW i \in 0 .. Size - 1
    PROVE  /\ ForwardTurn(i) \in 1 .. Size
           /\ Probe(1, ForwardTurn(i)) = i
           /\ \A k \in 1 .. Size : Probe(1, k) = i => k = ForwardTurn(i)
           /\ ForwardTurn(Original) = Size
<1>1. Size \in Nat /\ Size > 0 /\ position \in 0 .. Size /\ Original = position
  BY ProbeFacts
<1>2. FirstForward \in 0 .. Size - 1
  BY <1>1 DEF FirstForward
<1>3. ForwardTurn(i) \in 1 .. Size
  BY <1>1, <1>2 DEF ForwardTurn
<1>4. ForwardProbe(ForwardTurn(i)) = i
  BY <1>1, <1>2 DEF ForwardTurn, ForwardProbe
<1>5. ASSUME NEW k \in 1 .. Size, ForwardProbe(k) = i PROVE k = ForwardTurn(i)
  BY <1>1, <1>2, <1>5 DEF ForwardTurn, ForwardProbe
<1>6. ForwardTurn(Original) = Size
  BY <1>1 DEF ForwardTurn, FirstForward
<1> QED BY <1>3, <1>4, <1>5, <1>6, ProbeFacts

\* The nearest newer match is a match, and the forward search looks at it before
\* any other.
LEMMA NearestNewerFacts ==
    ASSUME TypeOK, commands # <<>>, position < Size, NEW prefix, Matching(prefix) # {}
    PROVE  /\ NearestNewer(prefix) \in Matching(prefix)
           /\ \A i \in Matching(prefix) :
                 i # NearestNewer(prefix) => ForwardTurn(NearestNewer(prefix)) < ForwardTurn(i)
<1> DEFINE all   == Matching(prefix)
           newer == {i \in all : i > position}
           m     == NearestNewer(prefix)
<1>1. Size \in Nat /\ Size > 0 /\ position \in 0 .. Size
  BY ProbeFacts
<1>2. all \subseteq 0 .. Size - 1 /\ all \subseteq Nat /\ newer \subseteq all
  BY DEF Matching
<1>3. FirstForward = IF position >= Size - 1 THEN 0 ELSE position + 1
  BY DEF FirstForward
<1>4. CASE newer # {}
  <2>1. m = Min(newer)
    BY <1>4 DEF NearestNewer
  <2>2. \A i \in all : i > position => i \in newer
    OBVIOUS
  <2>3. \A i \in newer : i > position
    OBVIOUS
  <2> HIDE DEF all, newer, m
  <2>4. m \in newer /\ \A y \in newer : m <= y
    BY <1>2, <1>4, <2>1, MinFacts
  <2>5. m \in all /\ m > position
    BY <1>2, <2>3, <2>4
  <2>6. ASSUME NEW i \in all, i # m PROVE ForwardTurn(m) < ForwardTurn(i)
    <3>1. i > position => i >= m
      BY <1>2, <2>2, <2>4
    <3>2. i \in 0 .. Size - 1 /\ m \in 0 .. Size - 1
      BY <1>2, <2>5
    <3> QED BY <1>1, <1>3, <2>5, <2>6, <3>1, <3>2 DEF ForwardTurn
  <2> QED BY <2>5, <2>6 DEF all, m
<1>5. CASE newer = {}
  <2>1. m = Min(all)
    BY <1>5 DEF NearestNewer
  <2>2. \A i \in all : i <= position
    BY <1>1, <1>2, <1>5
  <2>3. all # {}
    OBVIOUS
  <2> HIDE DEF all, newer, m
  <2>4. m \in all /\ \A y \in all : m <= y
    BY <1>2, <2>1, <2>3, MinFacts
  <2>5. ASSUME NEW i \in all, i # m PROVE ForwardTurn(m) < ForwardTurn(i)
    <3>1. m <= i /\ i <= position /\ m <= position
      BY <2>2, <2>4
    <3>2. i \in 0 .. Size - 1 /\ m \in 0 .. Size - 1
      BY <1>2, <2>4
    <3> QED BY <1>1, <1>3, <2>5, <3>1, <3>2 DEF ForwardTurn
  <2> QED BY <2>4, <2>5 DEF all, m
<1> QED BY <1>4, <1>5

\* For every history and prefix, PgDown from a command finds a match if there is
\* one, and the nearest newer one.
THEOREM ForwardSearch == Spec => []ForwardFindsNearest
<1>1. TypeOK => ForwardFindsNearest
  <2>1. SUFFICES ASSUME TypeOK, position < Size, NEW prefix \in Lines, Matching(prefix) # {}
                 PROVE  /\ Found(1, prefix)
                        /\ Landing(1, prefix) = NearestNewer(prefix)
    BY DEF ForwardFindsNearest
  <2> DEFINE m == NearestNewer(prefix)
             land == Landing(1, prefix)
  <2>2. commands # <<>>
    BY <2>1 DEF Matching, Size
  <2>3. /\ m \in Matching(prefix)
        /\ \A i \in Matching(prefix) : i # m => ForwardTurn(m) < ForwardTurn(i)
    BY <2>1, <2>2, NearestNewerFacts
  <2>4. PICK k \in 1 .. Size :
               /\ Ends(1, prefix, k)
               /\ \A j \in 1 .. k - 1 : ~Ends(1, prefix, j)
               /\ land = Probe(1, k)
    BY <2>1, <2>2, LandingFacts DEF IsLanding
  <2> HIDE DEF m, land
  <2>5. m \in 0 .. Size - 1 /\ Matches(m, prefix)
    BY <2>3 DEF Matching
  <2>6. /\ ForwardTurn(m) \in 1 .. Size /\ Probe(1, ForwardTurn(m)) = m
        /\ Size \in Nat
    BY <2>1, <2>2, <2>5, ForwardTurnFacts, ProbeFacts
  <2>7. k <= ForwardTurn(m)
    <3>1. Ends(1, prefix, ForwardTurn(m))
      BY <2>5, <2>6 DEF Ends
    <3> QED BY <2>4, <2>6, <3>1
  <2>8. land \in 0 .. Size - 1 /\ k = ForwardTurn(land)
    <3>1. land \in 0 .. Size - 1
      BY <2>1, <2>2, LandingFacts DEF land
    <3> QED BY <2>1, <2>2, <2>4, <3>1, ForwardTurnFacts
  <2>9. CASE Matches(land, prefix)
    <3>1. land \in Matching(prefix)
      BY <2>8, <2>9 DEF Matching
    <3>2. land = m
      BY <2>3, <2>6, <2>7, <2>8, <3>1
    <3> QED BY <2>2, <2>9, <3>2 DEF Found, m, land
  <2>10. CASE ~Matches(land, prefix)
    <3>1. land = Original
      BY <2>4, <2>10 DEF Ends
    <3>2. k = Size
      BY <2>1, <2>2, <2>8, <3>1, ForwardTurnFacts
    <3>3. ForwardTurn(m) = k
      BY <2>6, <2>7, <3>2
    <3> QED BY <2>4, <2>5, <2>6, <2>10, <3>3
  <2> QED BY <2>9, <2>10 DEF m, land
<1> QED BY <1>1, TypeCorrect, PTL

-----------------------------------------------------------------------------

\* From one past the newest command, the forward search looks at the oldest first,
\* and takes that for the place it started at.
THEOREM NewPromptSearch == Spec => []ForwardFromNewPrompt
<1>1. TypeOK => ForwardFromNewPrompt
  <2>1. SUFFICES ASSUME TypeOK, commands # <<>>, position = Size, NEW prefix \in Lines
                 PROVE  /\ Landing(1, prefix) = 0
                        /\ Found(1, prefix) <=> 0 \in Matching(prefix)
    BY DEF ForwardFromNewPrompt
  <2> DEFINE land == Landing(1, prefix)
  <2>2. /\ Size \in Nat /\ Size > 0 /\ Original = 0
        /\ Probe(1, 1) = ForwardProbe(1)
    BY <2>1, ProbeFacts
  <2>3. Probe(1, 1) = 0
    BY <2>1, <2>2 DEF ForwardProbe, FirstForward
  <2>4. Ends(1, prefix, 1)
    BY <2>2, <2>3 DEF Ends
  <2>5. PICK k \in 1 .. Size : /\ \A j \in 1 .. k - 1 : ~Ends(1, prefix, j)
                              /\ land = Probe(1, k)
    BY <2>1, LandingFacts DEF IsLanding
  <2>6. k = 1
    BY <2>2, <2>4, <2>5
  <2>7. land = 0
    BY <2>3, <2>5, <2>6
  <2>8. 0 \in 0 .. Size - 1
    BY <2>2
  <2> QED BY <2>1, <2>7, <2>8 DEF Found, Matching
<1> QED BY <1>1, TypeCorrect, PTL

\* For every history, cursor and prefix: what either direction of the search finds.
THEOREM SearchIsNearest == Spec => []SearchFindsNearest
BY BackwardSearch, ForwardSearch, NewPromptSearch, PTL DEF SearchFindsNearest

=============
