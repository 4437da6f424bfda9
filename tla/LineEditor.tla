----------------------------- MODULE LineEditor -----------------------------
(***************************************************************************)
(* Editing one command line (src/src/cmdEx/line_editor.cc), one action per *)
(* group of keys, between the moment cmd.exe calls ReadConsole and the     *)
(* moment a command is handed to it (dll.cc, ReadConsoleReplacement).      *)
(* Some keys hand cmd.exe a command of their own ("cd ..", "cd .", "cls",  *)
(* "exit") and keep the editor for the prompt that follows.                *)
(*                                                                         *)
(* The answers of the directory history, the command history, the          *)
(* clipboard and the completers are parameters of the actions.  Positions  *)
(* are 0-based as in the code.                                             *)
(***************************************************************************)
EXTENDS CompletionLine

CONSTANTS Typed,         \* those that a key inserts
          Newline,       \* the one that makes Ctrl-V ask
          Message,       \* what it asks, drawn as if it were the line
          Exit,          \* the text "exit"
          Clipboards,    \* the texts the clipboard may hold
          Recalled,      \* the commands the history may answer with
          Answers,       \* what the completers may answer
          Garbage,       \* what an int that is never initialised may hold
          MaxLine        \* bound on the length of the line

ASSUME EditorAssumption ==
    /\ {Newline} \cup Typed \subseteq Chars
    /\ {Message, Exit} \cup Clipboards \cup Recalled \subseteq Seq(Chars)
    /\ Message # <<>>
    /\ Answers \subseteq [results : Seq(Candidates), space : BOOLEAN]
    /\ Garbage \subseteq Int /\ Garbage # {}
    /\ MaxLine \in Nat

\* The characters of the message stand for where they come from: no key looks at
\* them, and every other text consists of characters of its own.
TextChars == Chars \ ToSet(Message)

ASSUME MessageAssumption ==
    /\ {Blank, Quote, Backslash} \cup Typed \subseteq TextChars
    /\ {Exit} \cup Clipboards \cup Recalled \cup Candidates \subseteq Seq(TextChars)

VARIABLES            \* line, line_, is CompletionLine's
    position,        \* position_
    savedLine,       \* second_ctrl_v_pending_saved_line_
    savedPosition,   \* second_ctrl_v_pending_saved_position_
    output,          \* completion_output_
    wordBegin,       \* completion_word_begin_
    wordEnd,         \* completion_word_end_
    index,           \* completion_index_
    shown,           \* the line and the cursor RedrawConsole last drew
    phase            \* "editing" a prompt, running a "command", or "ended"

pending == <<savedLine, savedPosition>>
completion == <<output, wordBegin, wordEnd, index>>
vars == <<line, position, savedLine, savedPosition, output, wordBegin,
          wordEnd, index, shown, phase>>

NoOutput == [results |-> <<>>, space |-> TRUE]

Drawn(l, p) == [line |-> l, position |-> p]

TypeOK ==
    /\ line \in Seq(Chars) /\ savedLine \in Seq(Chars)
    /\ position \in -1 .. Len(line) /\ savedPosition \in Int
    /\ output \in Answers \cup {NoOutput}
    /\ wordBegin \in Int /\ wordEnd \in Int /\ index \in Int
    /\ shown \in [line : Seq(Chars), position : Int]
    /\ phase \in {"editing", "command", "ended"}

-----------------------------------------------------------------------------
(* What every key does *)

\* A LineEditor just constructed.
NewEditor(l, p, sl, sp, o, b, e, i) ==
    /\ l = <<>> /\ p = 0
    /\ sl = <<>> /\ sp = -1
    /\ o = NoOutput /\ b \in Garbage /\ e \in Garbage /\ i = -1

Init ==
    /\ NewEditor(line, position, savedLine, savedPosition,
                 output, wordBegin, wordEnd, index)
    /\ shown = Drawn(<<>>, 0)
    /\ phase = "editing"

\* The first Ctrl-V's message is taken down by whatever key comes next.
Confirming == savedPosition # -1
Pos == IF Confirming THEN savedPosition ELSE position

\* Variants of definitions, each with a plausible mistake, stand before the
\* definition they vary.  No action uses them; they show which property
\* notices the mistake.  This one restores the cursor but not the line.
LineUnrestored == line

Line == IF Confirming THEN savedLine ELSE line

NothingPending == savedLine' = <<>> /\ savedPosition' = -1

IsCompleting == output.results # <<>> /\ wordBegin # -1

\* Variant: the candidate is still replaced after another key.
CompletionGoesOn == UNCHANGED <<output, wordBegin, wordEnd, index>>

CompletionOver == wordBegin' = -1 /\ UNCHANGED <<output, wordEnd, index>>

\* RedrawConsole.  Nothing to draw and no cursor to draw at its end leaves no
\* chunk, and reading the last chunk is an access violation.
Drawable(l, p) == l # <<>> \/ p = 0

\* Variant: a line that did not change is not drawn again.
PutIfChanged(l, p) ==
    /\ line' = l
    /\ position' = p
    /\ IF Drawable(l, p)
       THEN /\ shown' = IF l = line THEN shown ELSE Drawn(l, p)
            /\ phase' = "editing"
       ELSE phase' = "ended" /\ UNCHANGED shown

Put(l, p) ==
    /\ line' = l
    /\ position' = p
    /\ IF Drawable(l, p)
       THEN shown' = Drawn(l, p) /\ phase' = "editing"
       ELSE phase' = "ended" /\ UNCHANGED shown

Edit(l, p) ==
    /\ phase = "editing"
    /\ NothingPending
    /\ CompletionOver
    /\ Put(l, p)

\* A key that returns before RedrawConsole.
EditUndrawn ==
    /\ phase = "editing"
    /\ NothingPending
    /\ CompletionOver
    /\ line' = Line
    /\ position' = Pos
    /\ UNCHANGED <<shown, phase>>

\* kReturnToCmdThenResume: cmd.exe gets a command of the editor's own.
RunAndResume ==
    /\ phase = "editing"
    /\ NothingPending
    /\ CompletionOver
    /\ phase' = "command"

Without(l, from, to) == SubSeq(l, 1, from) \o SubSeq(l, to + 1, Len(l))
Insert(l, p, text) == SubSeq(l, 1, p) \o text \o SubSeq(l, p + 1, Len(l))

-----------------------------------------------------------------------------
(* Keys that leave the line to cmd.exe *)

\* Init, when ReadConsole is called again.
Resume ==
    /\ phase = "command"
    /\ phase' = "editing"
    /\ shown' = Drawn(line, position)
    /\ UNCHANGED <<line, position, pending, completion>>

\* Alt-Up and Ctrl-L.
CommandKey == RunAndResume /\ line' = Line /\ position' = Pos /\ UNCHANGED shown

\* Alt-Left and Alt-Right, when NavigateInHistory has returned.
AltNavigate(changed) == IF changed THEN CommandKey ELSE EditUndrawn

CtrlD ==
    IF Line = <<>> /\ Pos = 0
    THEN /\ RunAndResume
         /\ line' = Exit
         /\ position' = 0
         /\ shown' = Drawn(Exit, 0)
    ELSE EditUndrawn

\* The editor is deleted; the next prompt gets a new one.
Discarded ==
    /\ NewEditor(line', position', savedLine', savedPosition',
                 output', wordBegin', wordEnd', index')
    /\ phase' = "command"

\* Return hands over Line, after AddCommand(Line) if it is not empty.
Return == phase = "editing" /\ Discarded /\ UNCHANGED shown

\* ReadConsoleInput failed: the line is lost.
InputFails == phase = "editing" /\ Discarded /\ UNCHANGED shown

-----------------------------------------------------------------------------
(* Keys that erase *)

Escape == IF Confirming THEN Edit(Line, Pos) ELSE Edit(<<>>, 0)

Backspace ==
    IF Pos = 0 \/ Line = <<>>
    THEN EditUndrawn
    ELSE Edit(Without(Line, Pos - 1, Pos), Pos - 1)

Delete ==
    IF Pos = Len(Line) \/ Line = <<>>
    THEN EditUndrawn
    ELSE Edit(Without(Line, Pos, Pos + 1), Pos)

DeleteToEnd == Edit(SubSeq(Line, 1, Pos), Pos)

\* Variant: the cursor stays where it was.
DeleteToBeginUnmoved == Edit(SubSeq(Line, Pos + 1, Len(Line)), Pos)

DeleteToBegin == Edit(SubSeq(Line, Pos + 1, Len(Line)), 0)

\* The last offset up to from at which Stop holds, else -1.
LastUpTo(from, Stop(_)) ==
    CHOOSE e \in -1 .. from :
        /\ e = -1 \/ Stop(e)
        /\ \A i \in e + 1 .. from : ~Stop(i)

\* strchr(until, ...), which also finds the terminator of an empty line.
IsAny(until, l, i) == i = Len(l) \/ l[i + 1] \in until

FindBackwards(l, p, until) ==
    LET start == IF p > 1 THEN p - 1 ELSE 0
        inWord == LastUpTo(start, LAMBDA i : ~IsAny(until, l, i))
    IN  LastUpTo(inWord, LAMBDA i : IsAny(until, l, i)) + 1

\* Ctrl-W and Ctrl-Backspace, which also stops at slashes.
EraseWord(until) ==
    LET from == FindBackwards(Line, Pos, until)
    IN  Edit(Without(Line, from, Pos), from)

CtrlW == EraseWord({Blank})
CtrlBack == EraseWord({Blank, Backslash})

-----------------------------------------------------------------------------
(* Keys that move the cursor *)

Left == Edit(Line, IF Pos > 0 THEN Pos - 1 ELSE 0)
Right == Edit(Line, IF Pos < Len(Line) THEN Pos + 1 ELSE Len(Line))
Home == Edit(Line, 0)
End == Edit(Line, Len(Line))

CtrlLeft == Edit(Line, FindBackwards(Line, Pos, {Blank}))

\* FindForwards(p) + 1: the end of the word that p is in or before.
FindForwards(l, p) ==
    FirstFrom(l, FirstFrom(l, p, LAMBDA i : ~IsBlankAt(l, i)),
              LAMBDA i : IsBlankAt(l, i))

\* Past the word and the blanks after it, but only onto a character: -1 on an
\* empty line.
NextWord(l, p) ==
    LET last == Len(l) - 1
        e == FindForwards(l, p)
    IN  IF e >= last
        THEN last
        ELSE FirstFrom(l, e, LAMBDA i : i = last \/ ~IsBlankAt(l, i))

CtrlRight == Edit(Line, NextWord(Line, Pos))

-----------------------------------------------------------------------------
(* Keys that insert *)

\* The bound on the length of the line.
Fits(l) == Len(l) <= MaxLine

Type(c) == Fits(Append(Line, c)) /\ Edit(Insert(Line, Pos, <<c>>), Pos + 1)

\* A key that inserts nothing still takes the message down.
OtherKey == Edit(Line, Pos)

\* Up and Down, when the history has a command.
Recall(command) == Edit(command, Len(command))

\* PgUp, F8 and PgDn, when a command begins with what is left of the cursor.
Prefix == SubSeq(Line, 1, Pos)
RecallPrefixed(command) ==
    /\ phase = "editing"
    /\ IsPrefix(Prefix, command)
    /\ Edit(command, Pos)

Ask ==
    /\ phase = "editing"
    /\ savedLine' = Line
    /\ savedPosition' = Pos
    /\ CompletionOver
    /\ line' = Message
    /\ position' = 0
    /\ shown' = Drawn(Message, 0)
    /\ UNCHANGED phase

\* Variant: no question is asked.
PasteUnasked(text) ==
    Fits(Line \o text) /\ Edit(Insert(Line, Pos, text), Pos + Len(text))

Paste(text) ==
    IF Newline \in ToSet(text) /\ ~Confirming
    THEN Ask
    ELSE Fits(Line \o text) /\ Edit(Insert(Line, Pos, text), Pos + Len(text))

\* TabComplete.  The candidate replaces the word, or the candidate before it.
Inserted(o, i) ==
    QuoteWord(o.results[i + 1]) \o (IF o.space THEN <<Blank>> ELSE <<>>)

Completed(b, e, o, i) == Insert(Without(Line, b, e), b, Inserted(o, i))

Complete(b, e, o, i) ==
    /\ NothingPending
    /\ output' = o
    /\ index' = i
    /\ wordBegin' = b
    /\ wordEnd' = b + Len(Inserted(o, i))
    /\ Put(Completed(b, e, o, i), wordEnd')

\* Variant: the last candidate is not followed by the first.
TabContinuesClamped(step) ==
    /\ phase = "editing"
    /\ IsCompleting
    /\ index + step \in 0 .. Len(output.results) - 1
    /\ Complete(wordBegin, wordEnd, output, index + step)

TabContinues(step) ==
    /\ phase = "editing"
    /\ IsCompleting
    /\ Complete(wordBegin, wordEnd, output,
                (index + step) % Len(output.results))

TabStarts(step, o) ==
    /\ phase = "editing"
    /\ ~IsCompleting
    /\ o.results # <<>>
    /\ LET w == WordAt(Line, Pos)
           last == Len(o.results) - 1
       IN  /\ \A i \in 0 .. last : Fits(Completed(w.begin, w.end, o, i))
           /\ Complete(w.begin, w.end, o, IF step = 1 THEN 0 ELSE last)

\* No completer answers, or one answers with an empty list (whose
\* trailing_space is not read again).
TabFindsNothing ==
    /\ phase = "editing"
    /\ ~IsCompleting
    /\ NothingPending
    /\ output' = NoOutput
    /\ \/ UNCHANGED <<wordBegin, wordEnd>>
       \/ LET w == WordAt(Line, Pos)
          IN  wordBegin' = w.begin /\ wordEnd' = w.end
    /\ UNCHANGED index
    /\ Put(Line, Pos)

-----------------------------------------------------------------------------

EraseKey == \/ Escape \/ Backspace \/ Delete
            \/ DeleteToEnd \/ DeleteToBegin \/ CtrlW \/ CtrlBack

MoveKey == Left \/ Right \/ Home \/ End \/ CtrlLeft \/ CtrlRight

TabKey == \/ \E step \in {-1, 1} : \/ TabContinues(step)
                                   \/ \E o \in Answers : TabStarts(step, o)
          \/ TabFindsNothing

InsertKey == \/ \E c \in Typed : Type(c)
             \/ OtherKey
             \/ \E command \in Recalled : \/ Recall(command)
                                          \/ RecallPrefixed(command)
             \/ \E text \in Clipboards : Paste(text)

LeaveKey == \/ \E changed \in BOOLEAN : AltNavigate(changed)
            \/ CtrlD \/ Return \/ InputFails

Next == Resume \/ EraseKey \/ MoveKey \/ TabKey \/ InsertKey \/ LeaveKey

Spec == Init /\ [][Next]_vars

\* Someone who holds Tab down.
TabSpec == Spec /\ WF_vars(TabContinues(1))

-----------------------------------------------------------------------------
(* Properties *)

\* The cursor stays within the line, whatever mix of erasing, recalling,
\* pasting and completing moved both: every index line_ is read or changed at
\* is one it has.
CursorInLine == phase # "ended" => position \in 0 .. Len(line)

\* While completing, the candidate stands where the next Tab will take it out,
\* and the cursor is at its end.
CompletionStands ==
    IsCompleting /\ phase = "editing" =>
        /\ index \in 0 .. Len(output.results) - 1
        /\ 0 <= wordBegin /\ wordBegin <= wordEnd /\ wordEnd <= Len(line)
        /\ SubSeq(line, wordBegin + 1, wordEnd) = Inserted(output, index)
        /\ position = wordEnd

\* The message is never taken for a text: it is in the line only while it is
\* being asked, and never in what is restored.
HoldsMessage(l) == ToSet(l) \cap ToSet(Message) # {}

MessageIsNotText ==
    /\ HoldsMessage(line) => Confirming /\ line = Message
    /\ ~HoldsMessage(savedLine)

\* A text with a newline is pasted only when the message is on the screen.
PasteIsConfirmed ==
    [][\A text \in Clipboards :
          Paste(text) /\ Newline \in ToSet(text) /\ line' # Message
             => shown.line = Message]_vars

\* The screen shows the line and the cursor that the next key will act on, or
\* the message.
ScreenAgrees ==
    phase = "editing" =>
        shown = Drawn(line, position) \/ shown.line = Message

\* Tab goes round all the candidates.
TabGoesRound ==
    <>[][TabContinues(1)]_vars =>
        \/ <>[](~IsCompleting \/ phase # "editing")
        \/ \A o \in Answers : \A i \in 0 .. Len(o.results) - 1 :
               []<>(output = o => index = i)

=============================================================================
