------------------------------- MODULE Session -------------------------------
(***************************************************************************)
(* One shell, from its first prompt to its end: the directory history,     *)
(* which this module extends, and the line editor and the command history  *)
(* (each modelled on its own) composed as ReadConsoleReplacement composes  *)
(* them (src/src/cmdEx_dll_x64_dll/dll.cc), and cmd.exe, which reads a     *)
(* line for its prompt or for a set /p, runs it, and reads the next.       *)
(***************************************************************************)
EXTENDS DirectoryHistory

CONSTANTS \* of the line editor
          Blank, Quote, Backslash, Chars, Typed, Newline, Message, Exit,
          Clipboards, Recalled, Candidates, Answers, Garbage, MaxLine,
          \* of the command history
          Lines, HistoryFiles, MaxCommands,
          Nowhere        \* no directory

ASSUME SessionAssumption == Nowhere \notin Dirs

VARIABLES
    line, position, savedLine, savedPosition,            \* LineEditor
    output, wordBegin, wordEnd, index, shown,
    commands, commandPosition,                           \* CommandHistory
    buffer,    \* what cmd.exe was handed last: whose command, which line
    kept,      \* history variable: the line and the cursor left behind
    ran,       \* history variable: the command entered last, until the
               \* history is moved in
    from       \* history variable: where the last Alt-Left was pressed,
               \* until the directory is changed in any other way

editor == <<line, position, savedLine, savedPosition, output, wordBegin,
            wordEnd, index, shown>>
history == <<commands, commandPosition>>
directories == <<cwd, onDisk, dirs, lastKnown, dirPosition, visited>>
vars == <<editor, phase, history, directories, buffer, kept, ran, from>>

Editor == INSTANCE LineEditor
History == INSTANCE CommandHistory WITH position <- commandPosition

\* What each of them assumes; and a command does not hold the message.
ASSUME ComponentsAssumption ==
    /\ Editor!CharsAssumption /\ Editor!EditorAssumption /\ Editor!MessageAssumption
    /\ History!HistoryAssumption
    /\ Lines \subseteq Seq(Editor!TextChars)

Users(l) == [fake |-> "", line |-> l]
Fake(command) == [fake |-> command, line |-> <<>>]

TypeOK ==
    /\ Editor!TypeOK /\ History!TypeOK /\ DirectoryTypeOK
    /\ buffer \in {Users(l) : l \in Lines}
                  \cup {Fake(c) : c \in {"cd ..", "cd .", "cls", "exit"}}
    /\ kept \in [line : Lines, position : 0 .. MaxLine + Len(Exit)]
    /\ ran \in Lines
    /\ from \in Dirs \cup {Nowhere}

\* OnAttach has populated the command history; the first ReadConsole makes the
\* directory history and the editor.
Init ==
    /\ Editor!Init /\ History!Init /\ DirectoryInit
    /\ buffer = Users(<<>>)
    /\ kept = Editor!Drawn(<<>>, 0)
    /\ ran = <<>>
    /\ from = Nowhere

\* What the screen keeps of the line when cmd.exe is handed a command.
Leaving(text, l, p) ==
    /\ buffer' = text
    /\ kept' = Editor!Drawn(l, p)

Staying == UNCHANGED <<buffer, kept>>

\* *chars_read = 0.
Reading ==
    /\ buffer' = Users(<<>>)
    /\ kept' = Editor!Drawn(<<>>, 0)

-----------------------------------------------------------------------------
(* ReadConsoleReplacement returns to cmd.exe *)

\* Variant: what is on the screen is filed, which may be the message.
EnterShown ==
    /\ Editor!Return
    /\ IF line # <<>> THEN History!AddCommand(line) ELSE UNCHANGED history
    /\ Leaving(Users(line), <<>>, 0)
    /\ ran' = IF line # <<>> THEN line ELSE ran
    /\ UNCHANGED <<directories, from>>

\* Variant: the history's cursor is left on the command filed, not past it.
EnterOnNewest ==
    /\ Editor!Return
    /\ IF Editor!Line # <<>>
       THEN /\ Len(commands) < MaxCommands
            /\ commands' = Append(commands, Editor!Line)
            /\ commandPosition' = Len(commands)
       ELSE UNCHANGED history
    /\ Leaving(Users(Editor!Line), <<>>, 0)
    /\ ran' = IF Editor!Line # <<>> THEN Editor!Line ELSE ran
    /\ UNCHANGED <<directories, from>>

\* Return: the line is filed and handed over, the editor deleted.
Enter ==
    /\ Editor!Return
    /\ IF Editor!Line # <<>>
       THEN History!AddCommand(Editor!Line)
       ELSE UNCHANGED history
    /\ Leaving(Users(Editor!Line), <<>>, 0)
    /\ ran' = IF Editor!Line # <<>> THEN Editor!Line ELSE ran
    /\ UNCHANGED <<directories, from>>

InputFails ==
    /\ Editor!InputFails
    /\ Leaving(Users(<<>>), <<>>, 0)
    /\ UNCHANGED <<history, directories, ran, from>>

\* Alt-Up and Ctrl-L.
CommandKey(command) ==
    /\ Editor!CommandKey
    /\ Leaving(Fake(command), Editor!Line, Editor!Pos)
    /\ UNCHANGED <<history, directories, ran, from>>

CtrlD ==
    /\ Editor!CtrlD
    /\ IF phase' = "command" THEN Leaving(Fake("exit"), Exit, 0) ELSE Staying
    /\ UNCHANGED <<history, directories, ran, from>>

\* Alt-Left and Alt-Right.
AltNavigate(direction) ==
    /\ Navigate(direction)
    /\ LET changed == dirPosition' # Original(direction)
       IN  /\ Editor!AltNavigate(changed)
           /\ IF changed
              THEN Leaving(Fake("cd ."), Editor!Line, Editor!Pos)
              ELSE Staying
           /\ from' = IF direction = -1 /\ changed /\ cwd' = lastKnown'
                      THEN cwd
                      ELSE Nowhere
    /\ UNCHANGED <<history, ran>>

AltRightCrashes ==
    /\ NavigateOutOfRange(1)
    /\ UNCHANGED <<editor, history, buffer, kept, ran, from>>

-----------------------------------------------------------------------------
(* cmd.exe *)

\* Variant: the editor is made anew for every call.
ResumeAnew ==
    /\ phase = "command"
    /\ Editor!NewEditor(line', position', savedLine', savedPosition',
                        output', wordBegin', wordEnd', index')
    /\ shown' = Editor!Drawn(line', position')
    /\ StartingEdit
    /\ Reading
    /\ UNCHANGED <<history, ran, from>>

\* Variant: the directory history is not told.
ResumeUntold ==
    /\ Editor!Resume
    /\ Reading
    /\ UNCHANGED <<history, directories, ran, from>>

\* Variant: every prompt files its directory.
ResumeFiling ==
    /\ Editor!Resume
    /\ StartingEditUnguarded
    /\ Reading
    /\ UNCHANGED <<history, ran, from>>

\* It reads a line again: Init of the editor, which tells the directory
\* history.
Resume ==
    /\ Editor!Resume
    /\ StartingEdit
    /\ Reading
    /\ UNCHANGED <<history, ran, from>>

\* It runs what it was handed, or what stands after the set /p that it was
\* handed an answer for: in the end, any command.
RunChangesDirectory(d) ==
    /\ ChangeDirectory(d)
    /\ from' = Nowhere
    /\ UNCHANGED <<editor, history, buffer, kept, ran>>

\* "exit", of the editor's or the user's own, or whatever else ends it.
RunExits ==
    /\ phase = "command"
    /\ phase' = "ended"
    /\ UNCHANGED <<editor, history, directories, buffer, kept, ran, from>>

\* Another process.
DirectoriesChange ==
    /\ \E d \in Dirs : RemoveDirectory(d) \/ MakeDirectory(d)
    /\ UNCHANGED <<editor, history, buffer, kept, ran, from>>

-----------------------------------------------------------------------------
(* Keys after which the editor goes on *)

\* Up and Down.
ArrowKey(direction) ==
    /\ IF commands = <<>>
       THEN Editor!OtherKey /\ UNCHANGED history
       ELSE /\ History!MoveInHistory(direction, <<>>)
            /\ Editor!Recall(History!Result(direction, <<>>))
    /\ ran' = <<>>
    /\ Staying
    /\ UNCHANGED <<directories, from>>

\* PgUp, F8 and PgDn: a search that fails moves the history's cursor but not
\* the line.
PageKey(direction) ==
    /\ IF commands = <<>>
       THEN Editor!OtherKey /\ UNCHANGED history
       ELSE /\ History!MoveInHistory(direction, Editor!Prefix)
            /\ IF History!Found(direction, Editor!Prefix)
               THEN Editor!RecallPrefixed(History!Result(direction, Editor!Prefix))
               ELSE Editor!OtherKey
    /\ ran' = <<>>
    /\ Staying
    /\ UNCHANGED <<directories, from>>

EditKey ==
    /\ \/ Editor!EraseKey \/ Editor!MoveKey \/ Editor!TabKey \/ Editor!OtherKey
       \/ \E c \in Typed : Editor!Type(c)
       \/ \E text \in Clipboards : Editor!Paste(text)
    /\ Staying
    /\ UNCHANGED <<history, directories, ran, from>>

-----------------------------------------------------------------------------

Next ==
    \/ Enter \/ InputFails \/ CtrlD \/ AltRightCrashes
    \/ \E command \in {"cd ..", "cls"} : CommandKey(command)
    \/ \E direction \in {-1, 1} : \/ AltNavigate(direction)
                                  \/ ArrowKey(direction)
                                  \/ PageKey(direction)
    \/ EditKey
    \/ Resume \/ RunExits \/ DirectoriesChange
    \/ \E d \in Dirs : RunChangesDirectory(d)

Spec == Init /\ [][Next]_vars

-----------------------------------------------------------------------------
(* Properties *)

\* The composition does nothing the components do not do by themselves.  Until
\* the process ends, each of them, seen alone, behaves as its module says: the
\* answers the editor gets from the histories are among those it was checked
\* with, it asks the command history for nothing else than was expected there,
\* and the directory history is told of every prompt before it is navigated in.
ComponentsImplemented ==
    /\ Editor!Init /\ History!Init /\ DirectoryInit
    /\ [][Editor!Next \/ phase' = "ended"]_(Editor!vars)
    /\ [][History!Next]_(History!vars)
    /\ [][DirectoryNext \/ phase' = "ended"]_directoryVars

\* What Return hands to cmd.exe is the line the user sees, or the one that the
\* message stands over; and that is what the history files.
WhatIsShownRuns ==
    [][Enter => /\ buffer'.line = shown.line \/ shown.line = Message
                /\ Message \notin ToSet(commands')]_vars

\* Up, pressed before any other move in the history, shows the command entered
\* last, however many prompts, other keys and directories lie between.
UpRecallsWhatRan == [][ArrowKey(-1) /\ ran # <<>> => line' = ran]_vars

\* Alt-Right takes back an Alt-Left, with the prompts and the keys in between,
\* if the directory still exists.
AltRightTakesBack ==
    [][AltNavigate(1) /\ from # Nowhere => cwd' = from \/ from \notin onDisk]_vars

\* After Alt-Up, Alt-Left, Alt-Right or Ctrl-L the next prompt has the line and
\* the cursor that were there, and after Return neither.
MaintainsCommand == [][Resume => Editor!Drawn(line', position') = kept]_vars

=============================================================================
