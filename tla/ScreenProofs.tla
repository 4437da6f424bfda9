---------------------------- MODULE ScreenProofs ----------------------------
(***************************************************************************)
(* What TLAPS proves about Screen: for consoles of every size, and lines   *)
(* of every length in any characters.                                      *)
(***************************************************************************)
EXTENDS Screen, TLAPS

\* The last character, or the cursor behind it, when the line starts at
\* <<sx, sy>>; and where clearing begins.
End(l, p, sx, sy) == Place(sx, sy, Extent(l, p) - 1)

Behind(l, p, sx, sy) ==
    IF Extent(l, p) = Len(l)
    THEN <<End(l, p, sx, sy)[1] + 1, End(l, p, sx, sy)[2]>>
    ELSE End(l, p, sx, sy)

\* While the console keeps its size, start_x_, start_y_ and largest_y_ say where
\* the line begins and in which row it ends, which is on the console.
RemembersWhere ==
    phase = "editing" /\ ~resized =>
        /\ startX < Width /\ startY < Height
        /\ largestY = End(line, position, startX, startY)[2]

\* Only a line longer than the console scrolls its beginning off it.
BeginsOnConsole == phase = "editing" /\ ~outgrown => startY >= 0

IInv ==
    /\ TypeOK
    /\ RemembersWhere
    /\ BeginsOnConsole
    /\ ShowsLine
    /\ DiesOnlyOfLongLines

-----------------------------------------------------------------------------
(* Where a character is *)

\* Quotient and remainder, for every divisor.
LEMMA DivMod ==
    ASSUME NEW w \in Nat \ {0}, NEW n \in Nat
    PROVE  /\ n % w \in 0 .. w - 1
           /\ n \div w \in Nat
           /\ n = (n \div w) * w + (n % w)
OBVIOUS

\* A larger number has no smaller quotient.
LEMMA DivOrder ==
    ASSUME NEW w \in Nat \ {0}, NEW m \in Nat, NEW n \in Nat, m <= n
    PROVE  /\ m \div w <= n \div w
           /\ m \div w = n \div w => n % w = (m % w) + (n - m)
<1> DEFINE a == m \div w
           b == n \div w
           r == m % w
           s == n % w
<1>1. /\ a \in Nat /\ r \in 0 .. w - 1 /\ m = a * w + r
      /\ b \in Nat /\ s \in 0 .. w - 1 /\ n = b * w + s
  BY DivMod
<1> HIDE DEF a, b, r, s
<1>2. ASSUME a > b PROVE FALSE
  <2>1. PICK d \in Nat : a = b + 1 + d
    <3>1. a - b - 1 \in Nat /\ a = b + 1 + (a - b - 1)
      BY <1>1, <1>2
    <3> QED BY <3>1
  <2>2. a * w = b * w + w + d * w
    BY <1>1, <2>1
  <2>3. d * w >= 0
    BY <2>1
  <2> DEFINE aw == a * w
             bw == b * w
             dw == d * w
  <2>4. aw \in Int /\ bw \in Int /\ dw \in Int
    BY <1>1, <2>1
  <2>5. aw = bw + w + dw /\ dw >= 0 /\ m = aw + r /\ n = bw + s
    BY <1>1, <2>2, <2>3
  <2> HIDE DEF aw, bw, dw
  <2> QED BY <1>1, <2>4, <2>5
<1>3. a <= b
  BY <1>1, <1>2
<1>4. a = b => s = r + (n - m)
  <2> DEFINE aw == a * w
  <2>1. SUFFICES ASSUME a = b PROVE s = r + (n - m)
    OBVIOUS
  <2>2. m = aw + r /\ n = aw + s /\ aw \in Int
    BY <1>1, <2>1
  <2> HIDE DEF aw
  <2> QED BY <1>1, <2>2
<1> QED BY <1>3, <1>4 DEF a, b, r, s

\* A character is in the column and row its offset says.
LEMMA PlaceFacts ==
    ASSUME Width \in Nat \ {0}, NEW x \in Columns, NEW y \in Int, NEW i \in Nat
    PROVE  /\ Place(x, y, i)[1] \in Columns /\ Place(x, y, i)[2] \in Int
           /\ Place(x, y, i) = <<Place(x, y, i)[1], Place(x, y, i)[2]>>
           /\ Place(x, y, i)[2] >= y
           /\ Place(x, y, i)[2] = y => Place(x, y, i)[1] >= x
           /\ OffsetAt(x, y, Place(x, y, i)) = i
           /\ Place(x, y, 0) = <<x, y>>
<1> DEFINE w == Width
           q == (x + i) \div w
           r == (x + i) % w
<1>1. x \in Nat /\ x < w /\ w \in Nat \ {0} /\ x + i \in Nat
  BY DEF Columns
<1>2. Place(x, y, i) = <<r, y + q>>
  BY <1>1 DEF Place
<1>3. q \in Nat /\ r \in 0 .. w - 1 /\ x + i = q * w + r
  <2> HIDE DEF w
  <2> QED BY <1>1, DivMod
<1>4. OffsetAt(x, y, <<r, y + q>>) = i
  <2>1. OffsetAt(x, y, <<r, y + q>>) = ((y + q) - y) * w + r - x
    BY DEF OffsetAt
  <2> HIDE DEF w, q, r
  <2>2. (y + q) - y = q
    BY <1>3
  <2> DEFINE qw == q * w
  <2>3. qw \in Int
    BY <1>1, <1>3
  <2>4. OffsetAt(x, y, <<r, y + q>>) = qw + r - x /\ x + i = qw + r
    BY <1>3, <2>1, <2>2
  <2> HIDE DEF qw
  <2> QED BY <1>1, <1>3, <2>3, <2>4
<1>5. y + q = y => r >= x
  <2>1. SUFFICES ASSUME q = 0 PROVE r >= x
    BY <1>3
  <2>2. q * w = 0
    BY <1>1, <2>1
  <2> HIDE DEF q, r, w
  <2> QED BY <1>1, <1>3, <2>2
<1>6. Place(x, y, 0) = <<x, y>>
  <2>1. (x + 0) % w = x /\ (x + 0) \div w = 0
    <3>1. x \div w = 0 /\ x % w = x
      <4> HIDE DEF w
      <4>1. x \div w \in Nat /\ x % w \in 0 .. w - 1 /\ x = (x \div w) * w + (x % w)
        BY <1>1, DivMod
      <4>2. 0 \div w = 0 /\ 0 % w = 0
        BY <1>1
      <4> QED BY <1>1
    <3> QED BY <1>1, <3>1
  <2> QED BY <1>1, <2>1 DEF Place
<1> HIDE DEF q, r
<1> QED BY <1>1, <1>2, <1>3, <1>4, <1>5, <1>6 DEF Columns

\* A later character is in a later row, or behind the other one in the same row.
LEMMA PlaceOrder ==
    ASSUME Width \in Nat \ {0}, NEW x \in Columns, NEW y \in Int,
           NEW i \in Nat, NEW j \in Nat, i <= j
    PROVE  /\ Place(x, y, i)[2] <= Place(x, y, j)[2]
           /\ Place(x, y, i)[2] = Place(x, y, j)[2] =>
                  Place(x, y, j)[1] = Place(x, y, i)[1] + (j - i)
<1> DEFINE w == Width
           m == x + i
           n == x + j
<1>1. x \in Nat /\ x < w /\ w \in Nat \ {0} /\ m \in Nat /\ n \in Nat /\ m <= n /\ n - m = j - i
  BY DEF Columns
<1>2. /\ Place(x, y, i) = <<m % w, y + m \div w>>
      /\ Place(x, y, j) = <<n % w, y + n \div w>>
  BY <1>1 DEF Place
<1> HIDE DEF w, m, n
<1>3. m \div w <= n \div w /\ (m \div w = n \div w => n % w = (m % w) + (n - m))
  BY <1>1, DivOrder
<1>4. m \div w \in Nat /\ n \div w \in Nat
  BY <1>1, DivMod
<1> QED BY <1>1, <1>2, <1>3, <1>4

-----------------------------------------------------------------------------
(* What RedrawConsole does *)

\* How far it scrolls.
Scroll(l, p, sx, sy) == Overhang(End(l, p, sx, sy)[2])

LEMMA RedrawEnds ==
    ASSUME NEW l, NEW p, NEW sx, NEW sy, NEW upTo, RedrawConsole(l, p, sx, sy, upTo)
    PROVE  \E k \in {Scroll(l, p, sx, sy)} :
               /\ line' = l /\ position' = p /\ startX' = sx /\ size' = size
               /\ Finish(l, p, sx, sy - k, k, Behind(l, p, sx, sy - k), upTo)
<1>1. PICK n \in {Extent(l, p)} : \E k \in {Overhang(Place(sx, sy, n - 1)[2])} :
           \E end \in {Place(sx, sy - k, n - 1)} :
               Finish(l, p, sx, sy - k, k,
                      IF n = Len(l) THEN <<end[1] + 1, end[2]>> ELSE end, upTo)
  BY DEF RedrawConsole
<1>2. PICK k \in {Overhang(Place(sx, sy, n - 1)[2])} :
           \E end \in {Place(sx, sy - k, n - 1)} :
               Finish(l, p, sx, sy - k, k,
                      IF n = Len(l) THEN <<end[1] + 1, end[2]>> ELSE end, upTo)
  BY <1>1
<1>3. Finish(l, p, sx, sy - k, k, Behind(l, p, sx, sy - k), upTo)
  BY <1>1, <1>2 DEF Behind, End
<1>4. k = Scroll(l, p, sx, sy)
  BY <1>1, <1>2 DEF Scroll, End
<1> QED BY <1>3, <1>4 DEF RedrawConsole

\* The characters that are broken into chunks.
LEMMA ExtentFacts ==
    ASSUME ScreenAssumption, NEW l \in Lines, NEW p \in 0 .. Len(l)
    PROVE  /\ l \in Seq(Range(l)) /\ Len(l) \in Nat
           /\ Extent(l, p) \in Nat \ {0}
           /\ Extent(l, p) = Len(l) \/ Extent(l, p) = Len(l) + 1
           /\ p <= Extent(l, p) - 1
<1>1. l \in Seq(Range(l)) /\ Len(l) \in Nat
  BY DEF ScreenAssumption
<1> QED BY <1>1 DEF Extent

\* The row in which a line ends moves with the one in which it begins.
LEMMA EndFacts ==
    ASSUME ScreenAssumption, Width \in Nat \ {0},
           NEW l \in Lines, NEW p \in 0 .. Len(l), NEW sx \in Nat, NEW sy \in Int,
           NEW k \in Int
    PROVE  /\ End(l, p, sx, sy)[1] \in Nat /\ End(l, p, sx, sy)[2] \in Int
           /\ End(l, p, sx, sy)[2] >= sy
           /\ End(l, p, sx, sy - k)[2] = End(l, p, sx, sy)[2] - k
<1>1. Extent(l, p) - 1 \in Nat
  BY ExtentFacts
<1> DEFINE m == Extent(l, p) - 1
<1> HIDE DEF m
<1>2. m \in Nat /\ \A y : End(l, p, sx, y) = Place(sx, y, m)
  BY <1>1 DEF m, End
<1>3. CASE sx < Width
  <2> DEFINE w == Width
             n == sx + m
             q == n \div w
             r == n % w
  <2>1. q \in Nat /\ r \in Nat
    <3>1. w \in Nat \ {0} /\ n \in Nat
      BY <1>2
    <3> HIDE DEF w, n
    <3>2. n \div w \in Nat /\ n % w \in 0 .. w - 1
      BY <3>1, DivMod
    <3> QED BY <3>1, <3>2
  <2>2. \A y : End(l, p, sx, y) = <<r, y + q>>
    BY <1>2, <1>3 DEF Place
  <2> HIDE DEF w, q, r, n
  <2> QED BY <2>1, <2>2
<1>4. CASE ~(sx < Width)
  <2>1. \A y : End(l, p, sx, y) = <<sx + m, y>>
    BY <1>2, <1>4 DEF Place
  <2> QED BY <1>2, <2>1
<1> QED BY <1>3, <1>4

\* Its end is scrolled into view, and no further.
LEMMA ScrollFacts ==
    ASSUME ScreenAssumption, Width \in Nat \ {0}, Height \in Nat \ {0},
           NEW l \in Lines, NEW p \in 0 .. Len(l), NEW sx \in Nat, NEW sy \in Int
    PROVE  /\ Scroll(l, p, sx, sy) \in Nat
           /\ End(l, p, sx, sy)[2] - Scroll(l, p, sx, sy) < Height
<1> DEFINE row == End(l, p, sx, sy)[2]
<1>1. Scroll(l, p, sx, sy) = IF row >= Height THEN row - Height + 1 ELSE 0
  BY DEF Scroll, Overhang
<1>2. row \in Int /\ Height \in Nat
  <2>1. 0 \in Int
    OBVIOUS
  <2> QED BY <2>1, EndFacts
<1> HIDE DEF row
<1>3. Scroll(l, p, sx, sy) \in Nat /\ row - Scroll(l, p, sx, sy) < Height
  BY <1>1, <1>2
<1> QED BY <1>3 DEF row

\* A line that the console has room for never begins above it.
LEMMA FitsFacts ==
    ASSUME ScreenAssumption, Width \in Nat \ {0}, Height \in Nat \ {0},
           NEW l \in Lines, NEW p \in 0 .. Len(l), NEW sx \in Columns, NEW sy \in Nat,
           ~TooLong(l, p, sx)
    PROVE  sy - Scroll(l, p, sx, sy) >= 0
<1> DEFINE w == Width
           h == Height
           e == Extent(l, p)
           m == sx + (e - 1)
           q == m \div w
<1>1. /\ e \in Nat \ {0} /\ sx \in Nat /\ sx < w /\ m \in Nat
      /\ w \in Nat \ {0} /\ h \in Nat \ {0}
  BY ExtentFacts DEF Columns
<1>2. m + 1 <= w * h
  BY <1>1 DEF TooLong
<1>3. q \in Nat /\ m % w \in 0 .. w - 1 /\ m = q * w + (m % w)
  <2> HIDE DEF w, m
  <2> QED BY <1>1, DivMod
<1>4. End(l, p, sx, sy)[2] = sy + q
  BY <1>1 DEF End, Place
<1> HIDE DEF w, h, e, m, q
<1>5. q <= h - 1
  <2>1. SUFFICES ASSUME q >= h PROVE FALSE
    BY <1>1, <1>3
  <2>2. PICK d \in Nat : q = h + d
    <3>1. q - h \in Nat /\ q = h + (q - h)
      BY <1>1, <1>3, <2>1
    <3> QED BY <3>1
  <2>3. q * w = w * h + d * w
    BY <1>1, <2>2
  <2>4. d * w >= 0 /\ d * w \in Int
    BY <1>1, <2>2
  <2>5. w * h \in Int
    BY <1>1
  <2> DEFINE dw == d * w
             wh == w * h
             qw == q * w
             r == m % w
  <2>6. dw \in Int /\ dw >= 0 /\ wh \in Int /\ qw = wh + dw /\ m = qw + r /\ m + 1 <= wh /\ r >= 0 /\ r \in Int
    BY <1>2, <1>3, <2>3, <2>4, <2>5
  <2> HIDE DEF dw, wh, qw, r
  <2> QED BY <1>1, <2>6
<1>6. Scroll(l, p, sx, sy) = IF sy + q >= h THEN (sy + q) - h + 1 ELSE 0
  BY <1>4 DEF Scroll, Overhang, h
<1> QED BY <1>1, <1>3, <1>5, <1>6

\* The console keeps its shape, whatever is scrolled or drawn on it.
LEMMA ScrolledFacts ==
    ASSUME TypeOK, Width \in Nat \ {0}, Height \in Nat \ {0}, NEW k \in Nat
    PROVE  Scrolled(k) \in [Rows -> [Columns -> Characters \cup {Blank, Output}]]
<1>1. \A y \in Rows : y + k < Height => y + k \in Rows
  BY DEF Rows
<1>2. cells \in [Rows -> [Columns -> Characters \cup {Blank, Output}]]
  BY DEF TypeOK
<1> QED BY <1>1, <1>2 DEF Scrolled

LEMMA PaintedFacts ==
    ASSUME ScreenAssumption, TypeOK, Width \in Nat \ {0}, Height \in Nat \ {0},
           NEW l \in Lines, NEW sx, NEW sy, NEW k \in Nat, NEW last, NEW upTo
    PROVE  Painted(l, sx, sy, k, last, upTo)
               \in [Rows -> [Columns -> Characters \cup {Blank, Output}]]
<1> DEFINE Painting(at, i) ==
              IF sx < Width /\ i \in DOMAIN l THEN l[i]
              ELSE IF Cleared(at, last, upTo) THEN Blank ELSE Scrolled(k)[at[2]][at[1]]
<1>1. \A i \in DOMAIN l : l[i] \in Characters
  BY DEF Characters, Range
<1>2. \A y \in Rows, x \in Columns : \A i :
          Painting(<<x, y>>, i) \in Characters \cup {Blank, Output}
  BY <1>1, ScrolledFacts
<1> HIDE DEF Painting
<1>3. \A y \in Rows, x \in Columns :
          Painting(<<x, y>>, OffsetAt(sx, sy, <<x, y>>) + 1) \in Characters \cup {Blank, Output}
  BY <1>2
<1>4. Painted(l, sx, sy, k, last, upTo) =
          [y \in Rows |-> [x \in Columns |->
              Painting(<<x, y>>, OffsetAt(sx, sy, <<x, y>>) + 1)]]
  BY DEF Painted, Painting
<1> QED BY <1>3, <1>4

\* A redraw either draws the whole line or ends the shell.
LEMMA RedrawFacts ==
    ASSUME ScreenAssumption, TypeOK, NEW l \in Lines, NEW p \in 0 .. Len(l),
           NEW sx \in Nat, NEW sy \in Int, NEW upTo, RedrawConsole(l, p, sx, sy, upTo)
    PROVE  LET k == Scroll(l, p, sx, sy)
           IN  /\ line' = l /\ position' = p /\ startX' = sx /\ size' = size
               /\ \/ /\ phase' = "editing"
                     /\ sx < Width
                     /\ OnConsole(Place(sx, sy - k, p))
                     /\ cells' = Painted(l, sx, sy - k, k, Behind(l, p, sx, sy - k), upTo)
                     /\ cursor' = Place(sx, sy - k, p)
                     /\ startY' = sy - k
                     /\ startY' < Height
                     /\ largestY' = End(l, p, sx, sy - k)[2]
                  \/ /\ phase' = "fatal"
                     /\ ~OnConsole(Place(sx, sy - k, p))
                     /\ UNCHANGED <<cells, cursor, startY, largestY>>
<1> DEFINE k == Scroll(l, p, sx, sy)
<1>1. /\ line' = l /\ position' = p /\ startX' = sx /\ size' = size
      /\ Finish(l, p, sx, sy - k, k, Behind(l, p, sx, sy - k), upTo)
  <2>1. PICK j \in {k} :
            /\ line' = l /\ position' = p /\ startX' = sx /\ size' = size
            /\ Finish(l, p, sx, sy - j, j, Behind(l, p, sx, sy - j), upTo)
    BY RedrawEnds
  <2>2. j = k
    OBVIOUS
  <2> HIDE DEF k
  <2> QED BY <2>1, <2>2
<1>2. Width \in Nat \ {0} /\ Height \in Nat \ {0}
  BY DEF TypeOK, ScreenAssumption, Width, Height
<1>3. /\ k \in Nat /\ End(l, p, sx, sy)[2] - k < Height /\ End(l, p, sx, sy)[2] >= sy
      /\ End(l, p, sx, sy)[2] \in Int
  <2>1. 0 \in Int
    OBVIOUS
  <2> QED BY <1>2, <2>1, EndFacts, ScrollFacts
<1>4. Behind(l, p, sx, sy - k)[2] = End(l, p, sx, sy - k)[2]
  BY DEF Behind
<1> HIDE DEF k
<1>5. CASE OnConsole(Place(sx, sy - k, p))
  <2>1. sx < Width
    <3>1. SUFFICES ASSUME ~(sx < Width) PROVE FALSE
      OBVIOUS
    <3>2. Place(sx, sy - k, p)[1] = sx + p
      BY <3>1 DEF Place
    <3>3. sx + p \in Columns
      BY <1>5, <3>2 DEF OnConsole
    <3>4. p \in Nat /\ Width \in Nat
      BY <1>2
    <3> QED BY <3>1, <3>3, <3>4 DEF Columns
  <2>2. /\ cells' = Painted(l, sx, sy - k, k, Behind(l, p, sx, sy - k), upTo)
        /\ cursor' = Place(sx, sy - k, p)
        /\ startY' = sy - k
        /\ largestY' = End(l, p, sx, sy - k)[2]
        /\ phase' = "editing"
    BY <1>1, <1>4, <1>5 DEF Finish
  <2>3. sy - k < Height
    BY <1>2, <1>3
  <2> QED BY <1>1, <1>5, <2>1, <2>2, <2>3 DEF k
<1>6. CASE ~OnConsole(Place(sx, sy - k, p))
  <2>1. phase' = "fatal" /\ UNCHANGED <<cells, cursor, startY, largestY>>
    BY <1>1, <1>6 DEF Finish
  <2> QED BY <1>1, <1>6, <2>1 DEF k
<1> QED BY <1>5, <1>6

\* A character of l is in a cell.
ShownAt(content, l, i, at) ==
    OnConsole(at) /\ i < Len(l) => content[at[2]][at[1]] = l[i + 1]

\* The line is where it should be after a redraw, for a beginning that is not
\* above the console.
LEMMA RedrawShows ==
    ASSUME ScreenAssumption, TypeOK, NEW l \in Lines, NEW p \in 0 .. Len(l),
           NEW sx \in Columns, NEW sy \in Int, NEW upTo,
           NEW i \in 0 .. Extent(l, p) - 1
    PROVE  LET k == Scroll(l, p, sx, sy)
               at == Place(sx, sy - k, i)
           IN  /\ ShownAt(Painted(l, sx, sy - k, k, Behind(l, p, sx, sy - k), upTo), l, i, at)
               /\ sy >= 0 /\ ~TooLong(l, p, sx) => OnConsole(at)
<1> DEFINE k == Scroll(l, p, sx, sy)
           y == sy - k
           at == Place(sx, y, i)
           last == Behind(l, p, sx, y)
<1>1. Width \in Nat \ {0} /\ Height \in Nat \ {0} /\ sx \in Nat /\ sx < Width
  BY DEF TypeOK, ScreenAssumption, Width, Height, Columns
<1>2. /\ k \in Nat /\ End(l, p, sx, sy)[2] - k < Height /\ End(l, p, sx, sy)[2] \in Int
      /\ End(l, p, sx, y)[2] = End(l, p, sx, sy)[2] - k
  <2>1. k \in Nat /\ End(l, p, sx, sy)[2] - k < Height
    BY <1>1, ScrollFacts
  <2> HIDE DEF k
  <2>2. k \in Int
    BY <2>1
  <2>3. /\ End(l, p, sx, sy)[2] \in Int
        /\ End(l, p, sx, sy - k)[2] = End(l, p, sx, sy)[2] - k
    BY <1>1, <2>2, EndFacts
  <2> QED BY <2>1, <2>3
<1> HIDE DEF k
<1>3. i \in Nat /\ Extent(l, p) - 1 \in Nat /\ i <= Extent(l, p) - 1
  BY ExtentFacts
<1>4. y \in Int
  BY <1>2
<1> HIDE DEF y
<1>5. /\ at[1] \in Columns /\ at[2] \in Int /\ at = <<at[1], at[2]>> /\ at[2] >= y
      /\ OffsetAt(sx, y, at) = i
  BY <1>1, <1>3, <1>4, PlaceFacts
<1>6. at[2] < Height
  <2>1. at[2] <= End(l, p, sx, y)[2]
    BY <1>1, <1>3, <1>4, PlaceOrder DEF End
  <2> QED BY <1>1, <1>2, <1>5, <2>1
<1> HIDE DEF at
<1>7. ASSUME OnConsole(at), i < Len(l)
      PROVE  Painted(l, sx, y, k, last, upTo)[at[2]][at[1]] = l[i + 1]
  <2> HIDE DEF last
  <2>1. at[1] \in Columns /\ at[2] \in Rows
    BY <1>7 DEF OnConsole
  <2>2. OffsetAt(sx, y, <<at[1], at[2]>>) + 1 = i + 1
    BY <1>5, Zenon
  <2>3. i + 1 \in DOMAIN l
    <3>1. l \in Seq(Range(l)) /\ Len(l) \in Nat
      BY ExtentFacts
    <3> QED BY <1>3, <1>7, <3>1
  <2> QED BY <1>1, <2>1, <2>2, <2>3 DEF Painted
<1>8. ASSUME sy >= 0, ~TooLong(l, p, sx) PROVE OnConsole(at)
  <2>1. y >= 0
    BY <1>1, <1>8, FitsFacts DEF y, k
  <2>2. at[2] \in Rows
    BY <1>1, <1>4, <1>5, <1>6, <2>1 DEF Rows
  <2> QED BY <1>5, <2>2 DEF OnConsole
<1> QED BY <1>7, <1>8 DEF k, y, at, ShownAt

-----------------------------------------------------------------------------
(* The inductive invariant *)

LEMMA SizeFacts ==
    ASSUME ScreenAssumption, TypeOK
    PROVE  Width \in Nat \ {0} /\ Height \in Nat \ {0}
BY DEF TypeOK, ScreenAssumption, Width, Height

\* Nothing is drawn at first.
LEMMA InitIInv ==
    ASSUME ScreenAssumption, Init
    PROVE  IInv
<1>1. phase = "command"
  BY DEF Init
<1>2. TypeOK
  <2>1. cells \in [Rows -> [Columns -> Characters \cup {Blank, Output}]]
    BY DEF Init
  <2>2. OnConsole(cursor)
    BY DEF Init, OnConsole
  <2>3. line \in Lines /\ position \in 0 .. Len(line)
    BY DEF Init, ScreenAssumption
  <2>4. /\ size \in Sizes /\ startX \in Nat /\ startY \in Int /\ largestY \in Int
        /\ phase \in {"editing", "command", "fatal"}
    BY DEF Init
  <2>5. resized \in BOOLEAN /\ outgrown \in BOOLEAN
    BY DEF Init
  <2> QED BY <2>1, <2>2, <2>3, <2>4, <2>5 DEF TypeOK
<1> QED BY <1>1, <1>2
        DEF IInv, RemembersWhere, BeginsOnConsole, ShowsLine, DiesOnlyOfLongLines

\* A redraw keeps it, when outgrown says whether the line was ever too long.
LEMMA RedrawIInv ==
    ASSUME ScreenAssumption, TypeOK, NEW l \in Lines, NEW p \in 0 .. Len(l),
           NEW sx \in Nat, NEW sy \in Int, NEW upTo, RedrawConsole(l, p, sx, sy, upTo),
           resized' \in BOOLEAN, outgrown' \in BOOLEAN,
           ~outgrown' => sy >= 0 /\ ~TooLong(l, p, sx)
    PROVE  IInv'
<1> DEFINE k == Scroll(l, p, sx, sy)
           y == sy - k
<1>1. /\ line' = l /\ position' = p /\ startX' = sx /\ size' = size
      /\ \/ /\ phase' = "editing"
            /\ sx < Width
            /\ OnConsole(Place(sx, y, p))
            /\ cells' = Painted(l, sx, y, k, Behind(l, p, sx, y), upTo)
            /\ cursor' = Place(sx, y, p)
            /\ startY' = y
            /\ startY' < Height
            /\ largestY' = End(l, p, sx, y)[2]
         \/ /\ phase' = "fatal"
            /\ ~OnConsole(Place(sx, y, p))
            /\ UNCHANGED <<cells, cursor, startY, largestY>>
  BY RedrawFacts
<1>2. /\ Width \in Nat \ {0} /\ Height \in Nat \ {0}
      /\ Width' = Width /\ Rows' = Rows /\ Columns' = Columns /\ Height' = Height
  BY <1>1, SizeFacts DEF Width, Height, Rows, Columns
<1>3. k \in Nat /\ k \in Int /\ p <= Extent(l, p) - 1 /\ p \in 0 .. Extent(l, p) - 1
      /\ Extent(l, p) - 1 >= Len(l) - 1 /\ Len(l) \in Nat /\ Extent(l, p) \in Nat
  <2>1. k \in Nat
    BY <1>2, ScrollFacts
  <2>2. /\ p <= Extent(l, p) - 1 /\ Len(l) \in Nat /\ Extent(l, p) \in Nat
        /\ Extent(l, p) = Len(l) \/ Extent(l, p) = Len(l) + 1
    BY ExtentFacts
  <2> HIDE DEF k
  <2> QED BY <2>1, <2>2
<1>4. sx < Width => sx \in Columns
  BY <1>2 DEF Columns
<1>5. ASSUME NEW i \in 0 .. Extent(l, p) - 1, sx < Width
      PROVE  /\ ShownAt(Painted(l, sx, y, k, Behind(l, p, sx, y), upTo), l, i, Place(sx, y, i))
             /\ ~outgrown' => OnConsole(Place(sx, y, i))
  <2>1. sx \in Columns
    BY <1>4, <1>5
  <2>2. ShownAt(Painted(l, sx, y, k, Behind(l, p, sx, y), upTo), l, i, Place(sx, y, i))
    BY <2>1, RedrawShows
  <2>3. sy >= 0 /\ ~TooLong(l, p, sx) => OnConsole(Place(sx, y, i))
    BY <2>1, RedrawShows, Zenon
  <2> HIDE DEF y, k
  <2> QED BY <2>2, <2>3, Zenon
<1>6. Painted(l, sx, y, k, Behind(l, p, sx, y), upTo)
          \in [Rows -> [Columns -> Characters \cup {Blank, Output}]]
  BY <1>2, <1>3, PaintedFacts
<1> HIDE DEF k
<1>7. y \in Int
  BY <1>3
<1> HIDE DEF y
<1>8. End(l, p, sx, y)[2] \in Int
  BY <1>2, <1>3, <1>7, EndFacts
<1>9. /\ \A i : Place(startX, startY, i)' = Place(sx, startY', i)
      /\ \A at : OnConsole(at)' = OnConsole(at)
  BY <1>1, <1>2 DEF Place, OnConsole
<1>10. TypeOK'
  <2>1. OnConsole(cursor)'
    BY <1>1, <1>2 DEF TypeOK, OnConsole
  <2>2. /\ cells' \in [Rows -> [Columns -> Characters \cup {Blank, Output}]]
        /\ startY' \in Int /\ largestY' \in Int
    BY <1>1, <1>6, <1>7, <1>8 DEF TypeOK
  <2> QED BY <1>1, <1>2, <2>1, <2>2 DEF TypeOK
<1>11. CASE phase' = "editing"
  <2>1. RemembersWhere'
    <3>1. End(line, position, startX, startY)' = End(l, p, sx, startY')
      BY <1>1, <1>2 DEF End, Place, Extent
    <3> QED BY <1>1, <1>2, <1>11, <3>1 DEF RemembersWhere
  <2>2. BeginsOnConsole'
    <3>1. ASSUME ~outgrown' PROVE y >= 0
      BY <1>1, <1>2, <1>4, <1>11, <3>1, FitsFacts DEF y, k
    <3> QED BY <1>1, <1>11, <3>1 DEF BeginsOnConsole
  <2>3. ShowsLine'
    <3>1. ASSUME NEW i \in 0 .. Len(l) - 1
          PROVE  /\ i \in 0 .. Extent(l, p) - 1 /\ i < Len(l)
      BY <1>3
    <3>2. ASSUME NEW i \in 0 .. Len(l) - 1
          PROVE  \A at \in {Place(sx, y, i)} :
                     OnConsole(at) => cells'[at[2]][at[1]] = l[i + 1]
      BY <1>1, <1>5, <1>11, <3>1 DEF ShownAt
    <3>3. ASSUME NEW i \in 0 .. Len(l) - 1
          PROVE  ~OnConsole(Place(sx, y, i)) => outgrown'
      BY <1>1, <1>5, <1>11, <3>1
    <3>4. cursor' = Place(sx, y, p)
      BY <1>1, <1>11
    <3>5. startY' = y
      BY <1>1, <1>11
    <3>6. /\ \A i \in 0 .. Len(l) - 1 : \A at \in {Place(sx, startY', i)} :
                 OnConsole(at) => cells'[at[2]][at[1]] = l[i + 1]
          /\ \A i \in 0 .. Len(l) - 1 : ~OnConsole(Place(sx, startY', i)) => outgrown'
          /\ cursor' = Place(sx, startY', p)
      BY <3>2, <3>3, <3>4, <3>5
    <3> QED BY <1>1, <1>9, <3>6 DEF ShowsLine, CellAt
  <2> QED BY <1>10, <1>11, <2>1, <2>2, <2>3 DEF IInv, DiesOnlyOfLongLines
<1>12. CASE phase' = "fatal"
  <2>1. ASSUME ~outgrown', sx < Width PROVE FALSE
    BY <1>1, <1>3, <1>5, <1>12, <2>1
  <2>2. outgrown' \/ startX' >= Width'
    BY <1>1, <1>2, <2>1
  <2> QED BY <1>10, <1>12, <2>2
          DEF IInv, RemembersWhere, BeginsOnConsole, ShowsLine, DiesOnlyOfLongLines
<1> QED BY <1>1, <1>11, <1>12

\* LineEditor::Init: the line begins where cmd.exe left the cursor.
LEMMA ResumeIInv ==
    ASSUME ScreenAssumption, TypeOK, Resume
    PROVE  IInv'
<1>1. /\ line \in Lines /\ position \in 0 .. Len(line)
      /\ cursor[1] \in Nat /\ cursor[2] \in Int /\ cursor[2] >= 0
  BY SizeFacts DEF TypeOK, OnConsole, Columns, Rows
<1>2. RedrawConsole(line, position, cursor[1], cursor[2], cursor[2])
  BY DEF Resume
<1>3. resized' \in BOOLEAN /\ outgrown' \in BOOLEAN
  <2>1. TooLong(line, position, cursor[1]) \in BOOLEAN
    BY DEF TooLong
  <2> QED BY <2>1 DEF Resume
<1>4. ~outgrown' => cursor[2] >= 0 /\ ~TooLong(line, position, cursor[1])
  BY <1>1 DEF Resume
<1> QED BY <1>1, <1>2, <1>3, <1>4, RedrawIInv

\* A key.
LEMMA KeyIInv ==
    ASSUME ScreenAssumption, IInv, NEW l \in Lines, NEW p \in 0 .. Len(l), Key(l, p)
    PROVE  IInv'
<1>1. TypeOK /\ startX \in Nat /\ startY \in Int /\ outgrown \in BOOLEAN /\ resized \in BOOLEAN
  BY DEF IInv, TypeOK
<1>2. RedrawConsole(l, p, startX, startY, largestY)
  BY DEF Key
<1>3. resized' \in BOOLEAN
  BY <1>1 DEF Key
<1>4. outgrown' \in BOOLEAN
  BY <1>1 DEF Key, TooLong
<1>5. ~outgrown' => startY >= 0 /\ ~TooLong(l, p, startX)
  BY DEF Key, IInv, BeginsOnConsole
<1> QED BY <1>1, <1>2, <1>3, <1>4, <1>5, RedrawIInv

\* The next row, after scrolling to it if need be.
LEMMA NextRowFacts ==
    ASSUME ScreenAssumption, TypeOK, SetCursorLocation(0, cursor[2] + 1), size' = size
    PROVE  /\ cells' \in [Rows -> [Columns -> Characters \cup {Blank, Output}]]'
           /\ OnConsole(cursor)'
<1>1. Width \in Nat \ {0} /\ Height \in Nat \ {0}
  BY SizeFacts
<1>2. PICK k \in {Overhang(cursor[2] + 1)} :
          cells' = Scrolled(k) /\ cursor' = <<0, (cursor[2] + 1) - k>>
  BY DEF SetCursorLocation
<1>3. cursor[2] \in 0 .. Height - 1
  BY DEF TypeOK, OnConsole, Rows
<1>4. k \in Nat /\ (cursor[2] + 1) - k \in 0 .. Height - 1
  <2> DEFINE h == Height
             y == cursor[2]
  <2>1. k = IF y + 1 >= h THEN (y + 1) - h + 1 ELSE 0
    BY <1>2 DEF Overhang
  <2>2. y \in Nat /\ y < h /\ h \in Nat
    BY <1>1, <1>3
  <2> HIDE DEF h, y
  <2>3. k \in Nat /\ (y + 1) - k \in 0 .. h - 1
    BY <2>1, <2>2
  <2> QED BY <2>3 DEF h, y
<1>5. Scrolled(k) \in [Rows -> [Columns -> Characters \cup {Blank, Output}]]
  BY <1>1, <1>4, ScrolledFacts
<1>6. Rows' = Rows /\ Columns' = Columns
  BY DEF Rows, Columns, Width, Height
<1>7. 0 \in Columns /\ (cursor[2] + 1) - k \in Rows
  BY <1>1, <1>4 DEF Columns, Rows
<1> QED BY <1>2, <1>5, <1>6, <1>7 DEF OnConsole

\* In between, nothing but the console's content and cursor changes.
LEMMA CommandIInv ==
    ASSUME phase' = "command", TypeOK'
    PROVE  IInv'
BY DEF IInv, RemembersWhere, BeginsOnConsole, ShowsLine, DiesOnlyOfLongLines

LEMMA CommandStepIInv ==
    ASSUME ScreenAssumption, IInv,
           Return \/ RunAndResume \/ WriteText \/ NewLine \/ ClearScreen
    PROVE  IInv'
<1> USE DEF console, editor
<1>1. TypeOK
  BY DEF IInv
<1>2. /\ size' = size /\ startX' = startX /\ startY' = startY /\ largestY' = largestY
      /\ resized' = resized /\ outgrown' = outgrown /\ phase' = "command"
  BY DEF Return, RunAndResume, WriteText, NewLine, ClearScreen
<1>3. line' \in Lines /\ position' \in 0 .. Len(line')
  <2>1. \/ line' = line /\ position' = position
        \/ line' = <<>> /\ position' = 0
    BY DEF Return, RunAndResume, WriteText, NewLine, ClearScreen
  <2>2. <<>> \in Lines /\ 0 \in 0 .. Len(<<>>)
    BY DEF ScreenAssumption
  <2> QED BY <1>1, <2>1, <2>2 DEF TypeOK
<1>4. Width \in Nat \ {0} /\ Height \in Nat \ {0}
  BY <1>1, SizeFacts
<1>5. Rows' = Rows /\ Columns' = Columns
  BY <1>2 DEF Rows, Columns, Width, Height
<1>6. /\ cells' \in [Rows -> [Columns -> Characters \cup {Blank, Output}]]
      /\ OnConsole(cursor)'
  <2>1. CASE Return \/ NewLine
    <3>1. SetCursorLocation(0, cursor[2] + 1)
      BY <2>1 DEF Return, NewLine
    <3> QED BY <1>1, <1>2, <1>5, <3>1, NextRowFacts
  <2>2. CASE RunAndResume
    BY <1>1, <1>5, <2>2 DEF RunAndResume, TypeOK, OnConsole
  <2>3. CASE WriteText
    <3>1. cells' \in [Rows -> [Columns -> Characters \cup {Blank, Output}]]
      BY <1>1, <2>3 DEF WriteText, TypeOK, OnConsole
    <3>2. cursor[1] + 1 \in Columns /\ cursor[2] \in Rows
      <4>1. cursor[1] \in 0 .. Width - 1 /\ cursor[1] < Width - 1 /\ cursor[2] \in Rows
        BY <1>1, <2>3 DEF WriteText, TypeOK, OnConsole, Columns
      <4> QED BY <1>4, <4>1 DEF Columns
    <3> QED BY <1>5, <2>3, <3>1, <3>2 DEF WriteText, OnConsole
  <2>4. CASE ClearScreen
    <3>1. 0 \in Columns /\ 0 \in Rows
      BY <1>4 DEF Columns, Rows
    <3> QED BY <1>5, <2>4, <3>1 DEF ClearScreen, OnConsole
  <2> QED BY <2>1, <2>2, <2>3, <2>4
<1>7. TypeOK'
  <2>1. phase' \in {"editing", "command", "fatal"}
    BY <1>2
  <2>2. (Characters \cup {Blank, Output})' = Characters \cup {Blank, Output}
    BY DEF Characters
  <2> QED BY <1>1, <1>2, <1>3, <1>5, <1>6, <2>1, <2>2 DEF TypeOK
<1> QED BY <1>2, <1>7, CommandIInv

\* The console gets another size.
LEMMA ResizeIInv ==
    ASSUME ScreenAssumption, IInv, NEW s \in Sizes, Resize(s)
    PROVE  IInv'
<1> USE DEF editor
<1>1. TypeOK
  BY DEF IInv
<1>2. Width \in Nat \ {0} /\ Height \in Nat \ {0}
  BY <1>1, SizeFacts
<1>3. s.width \in Nat \ {0} /\ s.height \in Nat \ {0}
  BY DEF ScreenAssumption
<1>4. Columns' = 0 .. s.width - 1 /\ Rows' = 0 .. s.height - 1
  BY DEF Resize, Columns, Rows, Width, Height
<1>5. cells' \in [Rows' -> [Columns' -> Characters \cup {Blank, Output}]]
  <2> DEFINE content(x, y) == IF OnConsole(<<x, y>>) THEN cells[y][x] ELSE Blank
  <2>1. \A x, y : content(x, y) \in Characters \cup {Blank, Output}
    BY <1>1 DEF TypeOK, OnConsole
  <2>2. cells' = [y \in 0 .. s.height - 1 |-> [x \in 0 .. s.width - 1 |-> content(x, y)]]
    BY DEF Resize
  <2> HIDE DEF content
  <2> QED BY <1>4, <2>1, <2>2
<1>6. OnConsole(cursor)'
  <2>1. cursor[1] \in Nat /\ cursor[2] \in Nat
    BY <1>1, <1>2 DEF TypeOK, OnConsole, Columns, Rows
  <2>2. /\ Least(cursor[1], s.width - 1) \in 0 .. s.width - 1
        /\ Least(cursor[2], s.height - 1) \in 0 .. s.height - 1
    BY <1>3, <2>1 DEF Least
  <2>3. cursor' = <<Least(cursor[1], s.width - 1), Least(cursor[2], s.height - 1)>>
    BY DEF Resize
  <2> QED BY <1>4, <2>2, <2>3 DEF OnConsole
<1>7. TypeOK'
  <2>1. /\ size' \in Sizes /\ startX' = startX /\ startY' = startY /\ largestY' = largestY
        /\ line' = line /\ position' = position /\ phase' = phase
    BY DEF Resize
  <2>2. resized' \in BOOLEAN /\ outgrown' \in BOOLEAN
    BY <1>1 DEF Resize, TypeOK
  <2> QED BY <1>1, <1>5, <1>6, <2>1, <2>2 DEF TypeOK, Characters
<1>8. resized' = TRUE /\ phase' = phase /\ phase # "fatal" /\ outgrown' = outgrown /\ startY' = startY
  BY DEF Resize
<1>9. BeginsOnConsole'
  BY <1>8 DEF IInv, BeginsOnConsole
<1> QED BY <1>7, <1>8, <1>9 DEF IInv, RemembersWhere, ShowsLine, DiesOnlyOfLongLines

LEMMA StepIInv ==
    ASSUME ScreenAssumption, IInv, [Next]_vars
    PROVE  IInv'
<1>1. TypeOK
  BY DEF IInv
<1>2. CASE Resume
  BY <1>1, <1>2, ResumeIInv
<1>3. CASE \E l \in Lines : \E p \in 0 .. Len(l) : Key(l, p)
  BY <1>3, KeyIInv
<1>4. CASE Return \/ RunAndResume \/ WriteText \/ NewLine \/ ClearScreen
  BY <1>4, CommandStepIInv
<1>5. CASE \E s \in Sizes : Resize(s)
  BY <1>5, ResizeIInv
<1>6. CASE UNCHANGED vars
  <2>1. /\ size' = size /\ cells' = cells /\ cursor' = cursor /\ startX' = startX
        /\ startY' = startY /\ largestY' = largestY /\ line' = line /\ position' = position
        /\ phase' = phase /\ resized' = resized /\ outgrown' = outgrown
    BY <1>6 DEF vars, console, editor
  <2> QED BY <2>1
          DEF IInv, TypeOK, RemembersWhere, BeginsOnConsole, ShowsLine, DiesOnlyOfLongLines,
              Rows, Columns, Width, Height, OnConsole, Characters, CellAt, Place, End, Extent
<1> QED BY <1>2, <1>3, <1>4, <1>5, <1>6 DEF Next

\* Every redraw, clearing, scrolling and resizing keeps the inductive invariant.
THEOREM Invariant == Spec => []IInv
<1>1. Init => IInv
  BY InitIInv, ScreenAssumption
<1>2. IInv /\ [Next]_vars => IInv'
  BY StepIInv, ScreenAssumption
<1> QED BY <1>1, <1>2, PTL DEF Spec

\* The console, the editor's idea of where the line is, and the line stay in
\* their types, for consoles of any size and lines of any length.
THEOREM TypeCorrect == Spec => []TypeOK
<1>1. IInv => TypeOK
  BY DEF IInv
<1> QED BY <1>1, Invariant, PTL

\* Each character of the line that can be on the console is in its cell, and the
\* cursor is where it should be, unless the console was resized since.
THEOREM LineIsShown == Spec => []ShowsLine
<1>1. IInv => ShowsLine
  BY DEF IInv
<1> QED BY <1>1, Invariant, PTL

\* RedrawConsole's PCHECK fails only of a line longer than the console, and of
\* one that begins beyond a console that was made narrower.
THEOREM ShortLinesDoNotKill == Spec => []DiesOnlyOfLongLines
<1>1. IInv => DiesOnlyOfLongLines
  BY DEF IInv
<1> QED BY <1>1, Invariant, PTL

-----------------------------------------------------------------------------
(* What a redraw does to the rest of the console *)

\* Offsets on the console, in front of the line and behind it.
LEMMA OffsetBefore ==
    ASSUME Width \in Nat \ {0}, NEW x \in Columns, NEW y \in Int,
           NEW a \in Columns, NEW b \in Int, b < y \/ (b = y /\ a < x)
    PROVE  OffsetAt(x, y, <<a, b>>) + 1 \in Int /\ OffsetAt(x, y, <<a, b>>) + 1 <= 0
<1> DEFINE w == Width
           d == b - y
           dw == d * w
<1>1. w \in Nat \ {0} /\ x \in 0 .. w - 1 /\ a \in 0 .. w - 1 /\ d \in Int
  BY DEF Columns
<1>2. OffsetAt(x, y, <<a, b>>) = dw + a - x
  BY DEF OffsetAt
<1>3. d <= 0 /\ (d = 0 => a < x)
  OBVIOUS
<1> HIDE DEF w, d
<1>4. dw \in Int /\ (d = 0 => dw = 0)
  BY <1>1
<1>5. d < 0 => dw <= -w
  <2>1. SUFFICES ASSUME d < 0 PROVE dw <= -w
    OBVIOUS
  <2>2. PICK e \in Nat : d = -1 - e
    <3>1. -1 - d \in Nat /\ d = -1 - (-1 - d)
      BY <1>1, <2>1
    <3> QED BY <3>1
  <2>3. dw = -w - e * w
    BY <1>1, <2>2
  <2>4. e * w \in Nat
    BY <1>1, <2>2
  <2> DEFINE ew == e * w
  <2>5. dw = -w - ew /\ ew \in Nat
    BY <2>3, <2>4
  <2> HIDE DEF dw, ew
  <2> QED BY <1>1, <2>5
<1> HIDE DEF dw
<1> QED BY <1>1, <1>2, <1>3, <1>4, <1>5

\* What a redraw leaves in the cells in front of the line is what was there,
\* scrolled.
LEMMA RedrawAbove ==
    ASSUME ScreenAssumption, TypeOK, NEW l \in Lines, NEW p \in 0 .. Len(l),
           NEW sx \in Nat, NEW sy \in Int, NEW upTo, RedrawConsole(l, p, sx, sy, upTo),
           phase' = "editing", sy < Height, NEW at \in Above(sx, startY')
    PROVE  cells'[at[2]][at[1]] = CellAt(<<at[1], at[2] + (sy - startY')>>)
<1> DEFINE k == Scroll(l, p, sx, sy)
           y == sy - k
           last == Behind(l, p, sx, y)
<1>1. /\ sx < Width /\ startY' = y
      /\ cells' = Painted(l, sx, y, k, last, upTo)
  BY RedrawFacts
<1>2. Width \in Nat \ {0} /\ Height \in Nat \ {0} /\ sx \in Columns
  BY <1>1, SizeFacts DEF Columns
<1>3. k \in Nat /\ Extent(l, p) - 1 \in Nat
  <2>1. k \in Nat
    BY <1>2, ScrollFacts
  <2>2. Extent(l, p) - 1 \in Nat
    BY ExtentFacts
  <2> QED BY <2>1, <2>2
<1>4. l \in Seq(Range(l))
  BY ExtentFacts
<1> HIDE DEF k
<1>5. y \in Int /\ sy - y = k /\ y + k = sy
  BY <1>3
<1> HIDE DEF y
<1>6. /\ at[1] \in Columns /\ at[2] \in Rows
      /\ at[2] < y \/ (at[2] = y /\ at[1] < sx)
  BY <1>1 DEF Above
<1>7. at[1] \in Int /\ at[2] \in Int /\ at[2] >= 0
  BY <1>2, <1>6 DEF Columns, Rows
<1>8. ~(OffsetAt(sx, y, <<at[1], at[2]>>) + 1 \in DOMAIN l)
  <2>1. /\ OffsetAt(sx, y, <<at[1], at[2]>>) + 1 \in Int
        /\ OffsetAt(sx, y, <<at[1], at[2]>>) + 1 <= 0
    BY <1>2, <1>5, <1>6, <1>7, OffsetBefore
  <2> DEFINE i == OffsetAt(sx, y, <<at[1], at[2]>>) + 1
  <2> HIDE DEF i
  <2>2. i \in Int /\ i <= 0 => i \notin DOMAIN l
    BY <1>4
  <2> QED BY <2>1, <2>2 DEF i
<1>9. ~Cleared(<<at[1], at[2]>>, last, upTo)
  <2> DEFINE end == End(l, p, sx, y)
  <2>1. end[1] \in Int /\ end[2] \in Int /\ end[2] >= y /\ (end[2] = y => end[1] >= sx)
    <3>1. end[1] \in Columns /\ end[2] \in Int /\ end[2] >= y /\ (end[2] = y => end[1] >= sx)
      BY <1>2, <1>3, <1>5, PlaceFacts DEF End
    <3> QED BY <1>2, <3>1 DEF Columns
  <2>2. last[2] = end[2] /\ last[1] \in {end[1], end[1] + 1}
    BY DEF Behind
  <2> HIDE DEF last, end
  <2>3. last[2] >= y /\ (last[2] = y => last[1] >= sx) /\ last[1] \in Int /\ last[2] \in Int
    BY <2>1, <2>2
  <2>4. ~(at[2] > last[2]) /\ ~(at[2] = last[2] /\ at[1] >= last[1])
    <3> DEFINE a == at[1]
               b == at[2]
               c == last[1]
               d == last[2]
    <3>1. /\ a \in Int /\ b \in Int /\ c \in Int /\ d \in Int /\ d >= y /\ (d = y => c >= sx)
          /\ b < y \/ (b = y /\ a < sx)
      BY <1>6, <1>7, <2>3
    <3> HIDE DEF a, b, c, d
    <3>2. ~(b > d) /\ ~(b = d /\ a >= c)
      BY <1>5, <3>1
    <3> QED BY <3>2 DEF a, b, c, d
  <2> QED BY <2>4 DEF Cleared
<1> HIDE DEF last
<1>10. cells'[at[2]][at[1]] = Scrolled(k)[at[2]][at[1]]
  BY <1>1, <1>6, <1>8, <1>9 DEF Painted
<1>11. at[2] + k < Height
  <2> DEFINE h == Height
             b == at[2]
  <2>1. h \in Nat /\ sy < h /\ b \in Int /\ b <= y
    BY <1>2, <1>5, <1>6, <1>7
  <2> HIDE DEF h, b
  <2>2. b + k < h
    BY <1>3, <1>5, <2>1
  <2> QED BY <2>2 DEF h, b
<1>12. Scrolled(k)[at[2]][at[1]] = cells[at[2] + k][at[1]]
  BY <1>6, <1>11 DEF Scrolled
<1>13. sy - startY' = k
  BY <1>1, <1>5
<1> QED BY <1>10, <1>12, <1>13 DEF CellAt

\* The prompt and the text above it only move up, together with start_y_.
THEOREM TextAboveIsKept == Spec => TextAboveStays
<1> DEFINE Kept ==
      phase' = "editing" /\ size' = size =>
          \A k \in {(IF phase = "command" THEN cursor[2] ELSE startY) - startY'} :
          \A at \in Above(startX', startY') :
              resized' \/ cells'[at[2]][at[1]] = CellAt(<<at[1], at[2] + k>>)
<1>1. ASSUME IInv, Next PROVE Kept
  <2>1. TypeOK
    BY <1>1 DEF IInv
  <2>2. CASE Resume
    <3>1. /\ line \in Lines /\ position \in 0 .. Len(line)
          /\ cursor[1] \in Nat /\ cursor[2] \in Int /\ cursor[2] < Height
      BY <2>1, SizeFacts, ScreenAssumption DEF TypeOK, OnConsole, Columns, Rows
    <3>2. RedrawConsole(line, position, cursor[1], cursor[2], cursor[2]) /\ phase = "command"
      BY <2>2 DEF Resume
    <3>3. startX' = cursor[1]
      BY <3>2 DEF RedrawConsole
    <3>4. phase' = "editing" => \A at \in Above(cursor[1], startY') :
              cells'[at[2]][at[1]] = CellAt(<<at[1], at[2] + (cursor[2] - startY')>>)
      <4> SUFFICES ASSUME phase' = "editing", NEW at \in Above(cursor[1], startY')
                   PROVE  cells'[at[2]][at[1]] = CellAt(<<at[1], at[2] + (cursor[2] - startY')>>)
        OBVIOUS
      <4> DEFINE sx == cursor[1]
                 sy == cursor[2]
      <4>1. /\ sx \in Nat /\ sy \in Int /\ sy < Height
            /\ RedrawConsole(line, position, sx, sy, sy) /\ at \in Above(sx, startY')
        BY <3>1, <3>2
      <4> HIDE DEF sx, sy
      <4>2. cells'[at[2]][at[1]] = CellAt(<<at[1], at[2] + (sy - startY')>>)
        BY <2>1, <3>1, <4>1, RedrawAbove, ScreenAssumption
      <4> QED BY <4>2 DEF sy
    <3> QED BY <3>2, <3>3, <3>4
  <2>3. ASSUME NEW l \in Lines, NEW p \in 0 .. Len(l), Key(l, p) PROVE Kept
    <3>1. RedrawConsole(l, p, startX, startY, largestY) /\ phase = "editing" /\ resized' = resized
      BY <2>3 DEF Key
    <3>2. startX \in Nat /\ startY \in Int /\ startX' = startX
      BY <2>1, <3>1 DEF TypeOK, RedrawConsole
    <3>3. ~resized => startY < Height
      BY <1>1, <3>1 DEF IInv, RemembersWhere
    <3>4. phase' = "editing" /\ ~resized => \A at \in Above(startX, startY') :
              cells'[at[2]][at[1]] = CellAt(<<at[1], at[2] + (startY - startY')>>)
      BY <2>1, <3>1, <3>2, <3>3, RedrawAbove, ScreenAssumption
    <3> QED BY <3>1, <3>2, <3>4
  <2>4. CASE Return \/ RunAndResume \/ WriteText \/ NewLine \/ ClearScreen
    <3>1. phase' = "command"
      BY <2>4 DEF Return, RunAndResume, WriteText, NewLine, ClearScreen
    <3> QED BY <3>1
  <2>5. CASE \E s \in Sizes : Resize(s)
    BY <2>5 DEF Resize
  <2> QED BY <1>1, <2>2, <2>3, <2>4, <2>5 DEF Next
<1>2. IInv /\ [Next]_vars => [Kept]_vars
  BY <1>1
<1>3. Spec => [][Kept]_vars
  BY <1>2, Invariant, PTL DEF Spec
<1> QED BY <1>3 DEF TextAboveStays

\* Each row that the last drawing reached and this one does not is cleared.
LEMMA KeyClears ==
    ASSUME ScreenAssumption, IInv, NEW l \in Lines, NEW p \in 0 .. Len(l), Key(l, p),
           ~resized, phase' = "editing",
           NEW i \in Len(l) .. Len(line) - 1, OnConsole(Place(startX', startY', i))
    PROVE  cells'[Place(startX', startY', i)[2]][Place(startX', startY', i)[1]] = Blank
<1> DEFINE k == Scroll(l, p, startX, startY)
           y == startY - k
           last == Behind(l, p, startX, y)
           n == Extent(l, p)
           m == Extent(line, position)
<1>1. /\ TypeOK /\ phase = "editing" /\ RedrawConsole(l, p, startX, startY, largestY)
      /\ startX \in Nat /\ startY \in Int /\ line \in Lines /\ position \in 0 .. Len(line)
  BY DEF IInv, TypeOK, Key
<1>2. /\ startX' = startX /\ startX < Width /\ startY' = y
      /\ cells' = Painted(l, startX, y, k, last, largestY)
  BY <1>1, RedrawFacts
<1>3. largestY = End(line, position, startX, startY)[2]
  BY <1>1 DEF IInv, RemembersWhere
<1>4. Width \in Nat \ {0} /\ Height \in Nat \ {0} /\ startX \in Columns
  BY <1>1, <1>2, SizeFacts DEF Columns
<1>5. /\ k \in Nat
      /\ n \in Nat \ {0} /\ (n = Len(l) \/ n = Len(l) + 1) /\ Len(l) \in Nat
      /\ m \in Nat \ {0} /\ (m = Len(line) \/ m = Len(line) + 1) /\ Len(line) \in Nat
      /\ l \in Seq(Range(l))
  BY <1>1, <1>4, ScrollFacts, ExtentFacts
<1> HIDE DEF k, n, m
<1>6. y \in Int /\ i \in Nat /\ i >= Len(l) /\ i <= m - 1 /\ n - 1 \in Nat /\ n - 1 <= i
      /\ m - 1 \in Nat
  BY <1>1, <1>5
<1> DEFINE at == Place(startX, y, i)
           end == Place(startX, y, n - 1)
<1>7. /\ at[1] \in Columns /\ at[2] \in Int /\ at = <<at[1], at[2]>>
      /\ OffsetAt(startX, y, at) = i
      /\ end[1] \in Columns /\ end[2] \in Int
  <2> HIDE DEF y
  <2> QED BY <1>4, <1>6, PlaceFacts
<1>8. at[2] <= largestY
  <2>1. /\ Place(startX, startY, i)[2] <= largestY
        /\ Place(startX, startY, i)[2] \in Int /\ largestY \in Int
    BY <1>1, <1>3, <1>4, <1>6, PlaceOrder, PlaceFacts DEF End, m, TypeOK
  <2>2. at[2] = Place(startX, startY, i)[2] - k
    <3> DEFINE q == (startX + i) \div Width
    <3>1. at[2] = (startY - k) + q /\ Place(startX, startY, i)[2] = startY + q
      BY <1>2 DEF Place
    <3>2. q \in Int
      BY <1>1, <1>4, <1>6
    <3> HIDE DEF q, at
    <3> QED BY <1>1, <1>5, <3>1, <3>2
  <2> HIDE DEF at
  <2> QED BY <1>5, <2>1, <2>2
<1>9. end[2] <= at[2] /\ (end[2] = at[2] => at[1] = end[1] + (i - (n - 1)))
  <2> HIDE DEF y
  <2> QED BY <1>4, <1>6, PlaceOrder
<1>10. last = IF n = Len(l) THEN <<end[1] + 1, end[2]>> ELSE end
  BY DEF Behind, End, n
<1> HIDE DEF at, end, last
<1>11. Cleared(<<at[1], at[2]>>, last, largestY)
  <2>1. end[1] \in Int /\ at[1] \in Int
    BY <1>4, <1>7 DEF Columns
  <2>2. last[2] = end[2]
    BY <1>10
  <2>3. last[1] = IF n = Len(l) THEN end[1] + 1 ELSE end[1]
    BY <1>10
  <2>4. at[2] = end[2] => at[1] >= last[1]
    <3>1. SUFFICES ASSUME at[1] = end[1] + (i - (n - 1)) PROVE at[1] >= last[1]
      BY <1>9
    <3>2. CASE n = Len(l)
      <4>1. last[1] = end[1] + 1 /\ i - (n - 1) >= 1 /\ i - (n - 1) \in Int
        BY <1>5, <1>6, <2>3, <3>2
      <4> QED BY <2>1, <3>1, <4>1
    <3>3. CASE n # Len(l)
      <4>1. last[1] = end[1] /\ i - (n - 1) >= 0 /\ i - (n - 1) \in Int
        BY <1>5, <1>6, <2>3, <3>3
      <4> QED BY <2>1, <3>1, <4>1
    <3> QED BY <3>2, <3>3
  <2> QED BY <1>7, <1>8, <1>9, <2>1, <2>2, <2>4 DEF Cleared
<1>12. at = Place(startX', startY', i)
  BY <1>2 DEF at
<1>13. at[1] \in Columns /\ at[2] \in Rows
  BY <1>12 DEF OnConsole
<1>14. ~(OffsetAt(startX, y, <<at[1], at[2]>>) + 1 \in DOMAIN l)
  <2>1. OffsetAt(startX, y, <<at[1], at[2]>>) = i
    BY <1>7, Zenon
  <2>2. i + 1 \notin DOMAIN l
    BY <1>5, <1>6
  <2> QED BY <2>1, <2>2
<1>15. cells'[at[2]][at[1]] = Blank
  BY <1>2, <1>11, <1>13, <1>14 DEF Painted
<1> QED BY <1>12, <1>15

\* Nothing is left of a longer line when a shorter one takes its place.
THEOREM ShorterLineClears == Spec => NothingLeftOver
<1> DEFINE Clean ==
      \A l \in Lines : \A p \in 0 .. Len(l) :
          Key(l, p) /\ ~resized /\ phase' = "editing" =>
              \A i \in Len(l) .. Len(line) - 1 :
              \A at \in {Place(startX', startY', i)} :
                  OnConsole(at) => cells'[at[2]][at[1]] = Blank
<1>1. IInv => Clean
  BY KeyClears, ScreenAssumption
<1>2. IInv /\ [Next]_vars => [Clean]_vars
  BY <1>1
<1>3. Spec => [][Clean]_vars
  BY <1>2, Invariant, PTL DEF Spec
<1> QED BY <1>3 DEF NothingLeftOver

=============================================================================
