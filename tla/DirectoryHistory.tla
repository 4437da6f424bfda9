-------------------------- MODULE DirectoryHistory --------------------------
(***************************************************************************)
(* The list of previously visited directories behind Alt-Left / Alt-Right  *)
(* (src/src/cmdEx/directory_history.cc).  The line editor calls            *)
(* NavigateInHistory while a prompt is being edited and StartingEdit when  *)
(* the next prompt begins.  Between the two cmd.exe runs a command, which  *)
(* may change the directory; directories come and go on disk at any time.  *)
(*                                                                         *)
(* Indices follow the code: dirPosition is 0-based, so that                *)
(* dirs[dirPosition + 1] is the code's dirs_[position_].                   *)
(***************************************************************************)
EXTENDS Integers, Sequences, SequencesExt

CONSTANTS Dirs,       \* the directories there are
          StartDir    \* the one the shell is started in

ASSUME StartDirAssumption == StartDir \in Dirs

VARIABLES
    cwd,         \* the process's current directory (WorkingDirectoryInterface)
    onDisk,      \* the directories that exist, i.e. that Set succeeds on
    dirs,        \* dirs_
    lastKnown,   \* last_known_
    dirPosition, \* position_
    phase,       \* "editing" a prompt, running a "command", or "ended"
    visited      \* history variable: every directory a prompt was shown in

directoryVars == <<cwd, onDisk, dirs, lastKnown, dirPosition, phase, visited>>

DirectoryTypeOK ==
    /\ cwd \in Dirs
    /\ onDisk \in SUBSET Dirs
    /\ dirs \in Seq(Dirs)
    /\ lastKnown \in Dirs
    /\ dirPosition \in -1 .. Len(dirs)
    /\ phase \in {"editing", "command", "ended"}
    /\ visited \in SUBSET Dirs

-----------------------------------------------------------------------------

\* The constructor, and the first StartingEdit, which finds nothing to do.
DirectoryInit ==
    /\ cwd = StartDir
    /\ onDisk = Dirs
    /\ dirs = <<>>
    /\ lastKnown = StartDir
    /\ dirPosition = 0
    /\ phase = "editing"
    /\ visited = {StartDir}

\* Variants of definitions, each with a plausible mistake, stand before the
\* definition they vary.  No action uses them; they show which property
\* notices the mistake.

\* Variant: the directory is filed a second time.
CommitWithoutErase(ds, d) == Append(ds, d)

\* CommitLastKnown: d leaves its old place, if it has one, and becomes the
\* newest entry.
CommitLastKnown(ds, d) == Append(RemoveFirst(ds, d), d)

\* Variant: the new directory is not remembered.
ArriveUnaware ==
    /\ dirs' = CommitLastKnown(dirs, lastKnown)
    /\ dirPosition' = Len(dirs')
    /\ UNCHANGED lastKnown

\* Variant: what is above the cursor is dropped, as in a web browser.
ArriveTruncating ==
    /\ dirs' = CommitLastKnown(SubSeq(dirs, 1, dirPosition), lastKnown)
    /\ dirPosition' = Len(dirs')
    /\ lastKnown' = cwd

\* The shell has moved from lastKnown to another directory.
Arrive ==
    /\ dirs' = CommitLastKnown(dirs, lastKnown)
    /\ dirPosition' = Len(dirs')
    /\ lastKnown' = cwd

\* Variant: every prompt files the directory, whether the shell moved or not.
StartingEditUnguarded ==
    /\ phase = "command"
    /\ phase' = "editing"
    /\ visited' = visited \cup {cwd}
    /\ Arrive
    /\ UNCHANGED <<cwd, onDisk>>

\* StartingEdit: the prompt is back.
StartingEdit ==
    /\ phase = "command"
    /\ phase' = "editing"
    /\ visited' = visited \cup {cwd}
    /\ IF lastKnown # cwd THEN Arrive ELSE UNCHANGED <<dirs, dirPosition, lastKnown>>
    /\ UNCHANGED <<cwd, onDisk>>

\* The value position_ has when dirs_ is indexed: Alt-Left at the newest place
\* first files the current directory, then the step is clamped to the list.
Committed(direction) == dirPosition = Len(dirs) /\ direction = -1

DirsAt(direction) ==
    IF Committed(direction) THEN CommitLastKnown(dirs, lastKnown) ELSE dirs

\* Variant: the directory just filed is taken for the one before it.
OriginalAtTheEnd(direction) ==
    IF Committed(direction) THEN Len(DirsAt(direction)) ELSE dirPosition

Original(direction) ==
    IF Committed(direction) THEN Len(DirsAt(direction)) - 1 ELSE dirPosition

Target(direction) ==
    LET last == Len(DirsAt(direction)) - 1
        step == IF Original(direction) + direction < 0
                THEN 0
                ELSE Original(direction) + direction
    IN  IF step > last THEN last ELSE step

\* NavigateInHistory returned normally.  Set fails, unnoticed, on a directory
\* that is gone; a changed position makes the editor run "cd ." as a command.
Navigate(direction) ==
    /\ phase = "editing"
    /\ Target(direction) >= 0
    /\ dirs' = DirsAt(direction)
    /\ dirPosition' = Target(direction)
    /\ lastKnown' = dirs'[dirPosition' + 1]
    /\ cwd' = IF lastKnown' \in onDisk THEN lastKnown' ELSE cwd
    /\ phase' = IF dirPosition' # Original(direction) THEN "command" ELSE "editing"
    /\ UNCHANGED <<onDisk, visited>>

\* With an empty list the clamp yields -1 and dirs_[-1] is read: undefined
\* behaviour that no build survives (an access violation, or the debug
\* library's range assertion).
NavigateOutOfRange(direction) ==
    /\ phase = "editing"
    /\ Target(direction) < 0
    /\ dirs' = DirsAt(direction)
    /\ dirPosition' = Target(direction)
    /\ phase' = "ended"
    /\ UNCHANGED <<cwd, onDisk, lastKnown, visited>>

Back == Navigate(-1)
Forward == Navigate(1)

\* The editor hands a line to cmd.exe, or the shell exits.
LeavePrompt ==
    /\ phase = "editing"
    /\ phase' \in {"command", "ended"}
    /\ UNCHANGED <<cwd, onDisk, dirs, lastKnown, dirPosition, visited>>

\* While a command runs, cmd.exe may change the directory.
ChangeDirectory(d) ==
    /\ phase = "command"
    /\ d \in onDisk \ {cwd}
    /\ cwd' = d
    /\ UNCHANGED <<onDisk, dirs, lastKnown, dirPosition, phase, visited>>

\* Any process may remove a directory, but not one that a process is in.
RemoveDirectory(d) ==
    /\ phase # "ended"
    /\ d \in onDisk \ {cwd}
    /\ onDisk' = onDisk \ {d}
    /\ UNCHANGED <<cwd, dirs, lastKnown, dirPosition, phase, visited>>

MakeDirectory(d) ==
    /\ phase # "ended"
    /\ d \in Dirs \ onDisk
    /\ onDisk' = onDisk \cup {d}
    /\ UNCHANGED <<cwd, dirs, lastKnown, dirPosition, phase, visited>>

DirectoryNext ==
    \/ StartingEdit
    \/ Back
    \/ Forward
    \/ NavigateOutOfRange(1)
    \/ LeavePrompt
    \/ \E d \in Dirs : \/ ChangeDirectory(d)
                       \/ RemoveDirectory(d)
                       \/ MakeDirectory(d)

DirectorySpec == DirectoryInit /\ [][DirectoryNext]_directoryVars

\* A user who keeps pressing Alt-Left at every prompt (cmd.exe always comes
\* back from the "cd ." the editor feeds it).
BackSpec == DirectorySpec /\ WF_directoryVars(StartingEdit) /\ WF_directoryVars(Back)

-----------------------------------------------------------------------------
(* Properties *)

\* The list never holds a directory twice: CommitLastKnown moves an entry, it
\* does not copy it, whatever sequence of jumps and failed jumps led there.
NoDuplicates == IsInjective(dirs)

\* At every prompt the history agrees with the process about the current
\* directory, although Set's failure is ignored and the shell changes
\* directory behind its back.
KnowsWhereItIs == phase = "editing" => lastKnown = cwd

\* Every directory a prompt was shown in
Known == ToSet(dirs) \cup {lastKnown}

\* No step loses a directory that the history could lead back to, except
\* Forward at the newest place, which overwrites last_known_ uncommitted.
OnlyForwardAtNewestForgets ==
    [][~(Known \subseteq Known') => Forward /\ dirPosition = Len(dirs)]_directoryVars

\* After Alt-Left moved, the entry after the cursor is the directory it was
\* pressed in, so that Alt-Right undoes it.
ForwardUndoesBack ==
    [][Back /\ phase' = "command"
         => dirPosition' + 2 \in DOMAIN dirs' /\ dirs'[dirPosition' + 2] = lastKnown]_directoryVars

\* If every directory the history knows exists, a user who from some point on
\* only presses Alt-Left arrives at the oldest entry and stays there.
OnlyBack == <>[][Back \/ StartingEdit]_directoryVars

BackReachesOldest ==
    OnlyBack /\ <>[](Known \subseteq onDisk)
        => <>[](phase = "ended" \/ dirPosition = 0)

-----------------------------------------------------------------------------
(* What the code's documentation says and the code does not do *)

\* Alt-Right never reads outside the list.
IndexInRange == dirPosition >= 0

=============================================================================
