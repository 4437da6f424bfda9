------------------------------- MODULE Screen -------------------------------
(***************************************************************************)
(* LineEditor::RedrawConsole (src/src/cmdEx/line_editor.cc) on a console   *)
(* of cells (dll.cc, RealConsole): a line that starts after the prompt is  *)
(* broken at the console's width, drawn, cleared behind, and scrolled into *)
(* view.  Which line and cursor are drawn is any that LineEditor's Put may *)
(* ask for.  Offsets and coordinates are 0-based.                          *)
(***************************************************************************)
EXTENDS Integers, Sequences, Functions

CONSTANTS Blank,         \* a cleared cell
          Output,        \* a cell that cmd.exe or a command has written
          Lines,         \* the lines that may be drawn
          Sizes          \* the sizes [width, height] of the console

ASSUME ScreenAssumption ==
    /\ Sizes # {} /\ Sizes \subseteq [width : Nat \ {0}, height : Nat \ {0}]
    /\ <<>> \in Lines /\ \A l \in Lines : l \in Seq(Range(l))

VARIABLES
    size,       \* GetWidth() and GetHeight()
    cells,      \* the characters on the console, by row and column
    cursor,     \* the console's cursor, <<x, y>>
    startX,     \* start_x_
    startY,     \* start_y_
    largestY,   \* largest_y_
    line,       \* line_
    position,   \* position_
    phase,      \* "editing", the "command" in between, or "fatal"
    resized,    \* history: the console was resized since Init
    outgrown    \* history: a line since Init was longer than the console

console == <<size, cells, cursor>>
editor == <<startX, startY, largestY, line, position>>
vars == <<console, editor, phase, resized, outgrown>>

Width == size.width
Height == size.height
Rows == 0 .. Height - 1
Columns == 0 .. Width - 1

OnConsole(at) == at[1] \in Columns /\ at[2] \in Rows
CellAt(at) == cells[at[2]][at[1]]

Characters == UNION {Range(l) : l \in Lines}

TypeOK ==
    /\ size \in Sizes
    /\ cells \in [Rows -> [Columns -> Characters \cup {Blank, Output}]]
    /\ OnConsole(cursor)
    /\ startX \in Nat /\ startY \in Int /\ largestY \in Int
    /\ line \in Lines /\ position \in 0 .. Len(line)
    /\ phase \in {"editing", "command", "fatal"}
    /\ resized \in BOOLEAN /\ outgrown \in BOOLEAN

\* Any console on which cmd.exe has left its cursor behind some text, with or
\* without older text below.
Init ==
    /\ size \in Sizes
    /\ cursor \in Columns \X Rows
    /\ \E below \in {Blank, Output} :
           cells = [y \in Rows |-> [x \in Columns |->
                       IF y < cursor[2] \/ (y = cursor[2] /\ x < cursor[1])
                       THEN Output ELSE below]]
    /\ startX = 0 /\ startY = 0 /\ largestY = 0
    /\ line = <<>> /\ position = 0
    /\ phase = "command"
    /\ resized = FALSE /\ outgrown = FALSE

-----------------------------------------------------------------------------
(* RedrawConsole *)

\* BreakIntoLineChunks: the cell of the character at an offset, for a line that
\* starts at <<x, y>>.  A start beyond the width never meets it.
Place(x, y, i) ==
    IF x < Width THEN <<(x + i) % Width, y + (x + i) \div Width>> ELSE <<x + i, y>>

\* The characters that are broken into chunks: a cursor behind the last one
\* counts as one more.
Extent(l, p) == IF p = Len(l) THEN Len(l) + 1 ELSE Len(l)

\* ScrollByOneLine, k times.
Scrolled(k) ==
    [y \in Rows |-> IF y + k < Height THEN cells[y + k]
                    ELSE [x \in Columns |-> Blank]]

\* Variant: one row too few is scrolled into view.
OverhangByOne(lastRow) == IF lastRow > Height THEN lastRow - Height ELSE 0

Overhang(lastRow) == IF lastRow >= Height THEN lastRow - Height + 1 ELSE 0

\* What is cleared, with the last character in front of <<x, y>>: the rest of its
\* row, and the rows below it that the previous drawing reached.
\* Variant: only the row of the last character.
ClearedOneRow(at, last, upTo) == at[2] = last[2] /\ at[1] >= last[1]

\* Variant: all of these rows.
ClearedWholeRows(at, last, upTo) == last[2] <= at[2] /\ at[2] <= upTo

Cleared(at, last, upTo) ==
    /\ at[2] <= upTo
    /\ at[2] > last[2] \/ (at[2] = last[2] /\ at[1] >= last[1])

\* The offset that is drawn in a cell, of a line from <<sx, sy>>.
\* Variant: every row is indented like the first.
OffsetIndented(sx, sy, at) == (at[2] - sy) * (Width - sx) + at[1] - sx

OffsetAt(sx, sy, at) == (at[2] - sy) * Width + at[1] - sx

\* The console after l is drawn from <<sx, sy>>, sy already scrolled by k.  The
\* drawing of a chunk that is not on the console fails, and nobody looks.
Painted(l, sx, sy, k, last, upTo) ==
    LET base == Scrolled(k)
        Painting(at, i) ==
            IF sx < Width /\ i \in DOMAIN l THEN l[i]
            ELSE IF Cleared(at, last, upTo) THEN Blank ELSE base[at[2]][at[1]]
    IN  [y \in Rows |-> [x \in Columns |->
            Painting(<<x, y>>, OffsetAt(sx, sy, <<x, y>>) + 1)]]

\* The end of a redraw: the line starts in row sy, its last chunk is in row
\* last[2], and last is where clearing begins.  The cursor is not behind that
\* chunk, so that placing it scrolls no further (modify_start_y_by is 0); but it
\* may be above the console, where SetConsoleCursorPosition fails, and the
\* PCHECK is fatal.
Finish(l, p, sx, sy, k, last, upTo) ==
    IF OnConsole(Place(sx, sy, p))
    THEN /\ cells' = Painted(l, sx, sy, k, last, upTo)
         /\ cursor' = Place(sx, sy, p)
         /\ startY' = sy
         /\ largestY' = last[2]
         /\ phase' = "editing"
    ELSE /\ phase' = "fatal"
         /\ UNCHANGED <<cells, cursor, startY, largestY>>

RedrawConsole(l, p, sx, sy, upTo) ==
    /\ line' = l
    /\ position' = p
    /\ startX' = sx
    /\ \E n \in {Extent(l, p)} :
       \E k \in {Overhang(Place(sx, sy, n - 1)[2])} :
       \E end \in {Place(sx, sy - k, n - 1)} :
           Finish(l, p, sx, sy - k, k,
                  IF n = Len(l) THEN <<end[1] + 1, end[2]>> ELSE end, upTo)
    /\ UNCHANGED size

TooLong(l, p, sx) == sx + Extent(l, p) > Width * Height

\* LineEditor::Init, when ReadConsole is called (again).
Resume ==
    /\ phase = "command"
    /\ RedrawConsole(line, position, cursor[1], cursor[2], cursor[2])
    /\ resized' = FALSE
    /\ outgrown' = TooLong(line, position, cursor[1])

\* Any key that changes the line or the cursor, or neither.
Key(l, p) ==
    /\ phase = "editing"
    /\ RedrawConsole(l, p, startX, startY, largestY)
    /\ outgrown' = (outgrown \/ TooLong(l, p, startX))
    /\ UNCHANGED resized

\* RealConsole::SetCursorLocation.
SetCursorLocation(x, y) ==
    \E k \in {Overhang(y)} :
        /\ cells' = Scrolled(k)
        /\ cursor' = <<x, y - k>>

\* Return: cmd.exe goes on below the cursor's row; the editor is deleted.
Return ==
    /\ phase = "editing"
    /\ SetCursorLocation(0, cursor[2] + 1)
    /\ phase' = "command"
    /\ line' = <<>> /\ position' = 0
    /\ UNCHANGED <<size, startX, startY, largestY, resized, outgrown>>

\* kReturnToCmdThenResume: the editor keeps the line.
RunAndResume ==
    /\ phase = "editing"
    /\ phase' = "command"
    /\ UNCHANGED <<console, editor, resized, outgrown>>

-----------------------------------------------------------------------------
(* cmd.exe, its commands and the user's window *)

WriteText ==
    /\ phase = "command"
    /\ cursor[1] < Width - 1
    /\ cells' = [cells EXCEPT ![cursor[2]][cursor[1]] = Output]
    /\ cursor' = <<cursor[1] + 1, cursor[2]>>
    /\ UNCHANGED <<size, editor, phase, resized, outgrown>>

NewLine ==
    /\ phase = "command"
    /\ SetCursorLocation(0, cursor[2] + 1)
    /\ UNCHANGED <<size, editor, phase, resized, outgrown>>

\* cls, which Ctrl-L runs.
ClearScreen ==
    /\ phase = "command"
    /\ cells' = [y \in Rows |-> [x \in Columns |-> Blank]]
    /\ cursor' = <<0, 0>>
    /\ UNCHANGED <<size, editor, phase, resized, outgrown>>

Least(m, n) == IF m < n THEN m ELSE n

Resize(s) ==
    /\ phase # "fatal"
    /\ s # size
    /\ size' = s
    /\ cells' = [y \in 0 .. s.height - 1 |-> [x \in 0 .. s.width - 1 |->
                    IF OnConsole(<<x, y>>) THEN cells[y][x] ELSE Blank]]
    /\ cursor' = <<Least(cursor[1], s.width - 1), Least(cursor[2], s.height - 1)>>
    /\ resized' = TRUE
    /\ UNCHANGED <<editor, phase, outgrown>>

Next == \/ Resume
        \/ \E l \in Lines : \E p \in 0 .. Len(l) : Key(l, p)
        \/ Return \/ RunAndResume
        \/ WriteText \/ NewLine \/ ClearScreen
        \/ \E s \in Sizes : Resize(s)

Spec == Init /\ [][Next]_vars

-----------------------------------------------------------------------------
(* Properties *)

\* However often it was wrapped, scrolled and cut, each character of the line
\* that can be on the console is in its cell, and so is the cursor.
ShowsLine ==
    phase = "editing" /\ ~resized =>
        /\ \A i \in 0 .. Len(line) - 1 : \A at \in {Place(startX, startY, i)} :
               OnConsole(at) => CellAt(at) = line[i + 1]
        /\ \A i \in 0 .. Len(line) - 1 : ~OnConsole(Place(startX, startY, i)) => outgrown
        /\ cursor = Place(startX, startY, position)

\* Nothing is left of a longer line when a shorter one takes its place,
\* though each drawing only remembers the row that the last one reached.
NothingLeftOver ==
    [][\A l \in Lines : \A p \in 0 .. Len(l) :
          Key(l, p) /\ ~resized /\ phase' = "editing" =>
              \A i \in Len(l) .. Len(line) - 1 :
              \A at \in {Place(startX', startY', i)} :
                  OnConsole(at) => cells'[at[2]][at[1]] = Blank]_vars

\* The prompt and what is above it only move up: no drawing writes over them,
\* and they scroll by as much as start_y_ does.
Above(sx, sy) == {at \in Columns \X Rows : at[2] < sy \/ (at[2] = sy /\ at[1] < sx)}

TextAboveStays ==
    [][phase' = "editing" /\ size' = size =>
          \A k \in {(IF phase = "command" THEN cursor[2] ELSE startY) - startY'} :
          \A at \in Above(startX', startY') :
              resized' \/ cells'[at[2]][at[1]] = CellAt(<<at[1], at[2] + k>>)]_vars

\* Drawing ends the shell only where the console has no place for the prompt's
\* end, or after a line that was longer than the console: resizing it in any
\* other way, at any time, does not.
DiesOnlyOfLongLines == phase = "fatal" => outgrown \/ startX >= Width

=============================================================================
